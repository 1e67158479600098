------------------------ MODULE CompositePreparation ------------------------
(***************************************************************************)
(* The preparation of a composite of several tables                         *)
(* (prepare_dynamic_composite_batches_with_root_uncommitted): the first     *)
(* member is the base and keeps its own plan; every root of another member  *)
(* that no earlier member has becomes a delta, inserted at the place in the  *)
(* base scan where the merged canonical order puts it.                      *)
(***************************************************************************)
EXTENDS DirectPreparation

Anon(c, n) == Tag(c, n) = "AnonymousIndividual"

\* An axiom without annotations of its own (the last field).
Bare(c, n) == Items(c, n, Cardinality(FieldsOf(c, n))) = <<>>

\* root_contains_anonymous_individual.
Carries(c, n) == \E m \in ReachableFrom(c, {n}) : Anon(c, m)

-----------------------------------------------------------------------------
(* Members with a scope map.                                               *)

\* anonymous_individual_class_expression_member.
Nominal(c, x) ==
    \/ Tag(c, x) = "ObjectOneOf" /\ Len(Items(c, x, 1)) = 1 /\ Anon(c, Items(c, x, 1)[1])
    \/ Tag(c, x) = "ObjectHasValue" /\ Tag(c, Ref(c, x, 1)) = "Entity" /\ Anon(c, Ref(c, x, 2))

ClassConstruct(c, n) ==
    LET x == Ref(c, n, 1)  y == Ref(c, n, 2)  named(z) == Tag(c, z) = "Entity"
    IN  /\ Bare(c, n)
        /\ CASE Tag(c, n) = "SubClassOf" -> IF named(x) THEN Nominal(c, y) ELSE named(y) /\ Nominal(c, x)
             [] Tag(c, n) = "ClassAssertion" -> (named(x) /\ Anon(c, y)) \/ (named(y) /\ Nominal(c, x))
             [] OTHER -> named(x) /\ Nominal(c, y)

AssertionConstruct(c, n) ==
    LET one(x, y) == Anon(c, x) # Anon(c, y)  items == Items(c, n, 1)
    IN  /\ Bare(c, n)
        /\ CASE Tag(c, n) = "ObjectPropertyAssertion" -> one(Ref(c, n, 2), Ref(c, n, 3))
             [] Tag(c, n) = "NegativeObjectPropertyAssertion" ->
                   Tag(c, Ref(c, n, 1)) = "Entity" /\ one(Ref(c, n, 2), Ref(c, n, 3))
             [] Tag(c, n) \in {"SameIndividual", "DifferentIndividuals"} ->
                   Len(items) = 2 /\ one(items[1], items[2])
             [] OTHER -> Anon(c, Ref(c, n, 2))

\* The constructs a mapped member may have one of.
IsConstruct(c, n) ==
    CASE Tag(c, n) = "Annotation" -> Anon(c, Ref(c, n, 2))
      [] Tag(c, n) = "SWRLRule" -> Carries(c, n)
      [] Tag(c, n) = "AnnotationAssertion" -> Anon(c, Ref(c, n, 2)) # Anon(c, Ref(c, n, 3))
      [] Tag(c, n) \in {"SubClassOf", "ClassAssertion", "ObjectPropertyDomain", "ObjectPropertyRange"} ->
            ClassConstruct(c, n)
      [] Tag(c, n) \in {"ObjectPropertyAssertion", "NegativeObjectPropertyAssertion", "SameIndividual",
                        "DifferentIndividuals", "DataPropertyAssertion", "NegativeDataPropertyAssertion"} ->
            AssertionConstruct(c, n)
      [] OTHER -> FALSE

Blanks(c) == {n \in Nodes(c) : Anon(c, n)}

\* The scope a member's sole anonymous individual is mapped to.
ScopeTarget(c) == AnonymousParts(c, CHOOSE n \in Blanks(c) : TRUE)[1]

\* validate_scope_mapped_composite_table: one individual, one construct, and
\* otherwise named subclass axioms, the only roots that may be excluded.
ScopeVerdict(c) ==
    LET taxonomy(i) == /\ c.rootKind[i] = 2 /\ Tag(c, c.rootId[i]) = "SubClassOf"
                       /\ SubclassShape(c, c.rootId[i])[1] = "Taxonomy"
        source      == Scalar(c, CHOOSE n \in Blanks(c) : TRUE, 1)[1]
        constructs  == {i \in DOMAIN c.rootId : RootIsSelected(c, i) /\ ~taxonomy(i)}
    IN  IF c.included # <<>> \/ Cardinality(Blanks(c)) # 1 THEN "unsupported"
        ELSE IF ScopeTarget(c) = source THEN "malformed"
        ELSE IF /\ \A i \in DOMAIN c.rootId \ constructs : RootIsSelected(c, i) \/ (taxonomy(i) /\ Bare(c, c.rootId[i]))
                /\ Cardinality(constructs) = 1
                /\ \A i \in constructs : IsConstruct(c, c.rootId[i])
        THEN "ok" ELSE "unsupported"

\* The position of a mapped member is the rank of its target scope, unless the
\* group is generic: then every individual goes by its closure-wide position.
PlanScopes(members, mapped, verdict) ==
    LET target(t) == ScopeTarget(members[t])
        generic == \/ \E t \in mapped : verdict[t] = "unsupported"
                   \/ mapped # {} /\ \E t \in DOMAIN members \ mapped : Blanks(members[t]) # {}
        before(t) == {u \in mapped : Code(target(u)) < Code(target(t))}
        distinct == \A t, u \in mapped : target(t) = target(u) => t = u
    IN  [verdict |-> Need(\A t \in mapped : verdict[t] # "malformed") && Need(generic \/ distinct),
         position |-> IF generic THEN <<>> ELSE [t \in mapped |-> Cardinality(before(t))]]

ScopePlan(members) ==
    LET mapped == {t \in DOMAIN members : Mapped(members[t])}
    IN  PlanScopes(members, mapped, Tabulated([t \in mapped |-> ScopeVerdict(members[t])]))

-----------------------------------------------------------------------------
(* The merged order.  A group maps every table, the closure members first   *)
(* and then their ROOT tables, to its root of the group or 0.               *)

Encodings(tables) ==
    [t \in DOMAIN tables |-> LET bytes == Encoding(tables[t]) IN [n \in Nodes(tables[t]) |-> bytes[n]]]

\* The sets and the roots of a table are in canonical order as they stand, and a
\* scope map must leave them so.
Sorted(pairs, bytes) == \A i \in DOMAIN pairs : Lexicographic(bytes[pairs[i][1]], bytes[pairs[i][2]])

OrderKept(tables) ==
    LET kept(c) == Sorted(Pairs(c), Encoding(c))
        verdict == [t \in DOMAIN tables |->
                      IF ~kept(WithoutMaps(tables[t])) THEN "malformed"
                      ELSE IF Mapped(tables[t]) /\ ~kept(tables[t]) THEN "unsupported" ELSE "ok"]
    IN  Earliest(Tabulated(verdict))

MergedGroups(tables) ==
    LET bytes == Encodings(tables)
        key   == [t \in DOMAIN tables |->
                    [i \in ToSet(SelectedRoots(tables[t])) |->
                        <<tables[t].rootKind[i], bytes[t][tables[t].rootId[i]]>>]]
        keys  == UNION {{key[t][i] : i \in DOMAIN key[t]} : t \in DOMAIN tables}
        nth(k) == CHOOSE x \in keys : Cardinality({y \in keys : RootLess(y, x)}) = k - 1
        root(t, x) == LET at == {i \in DOMAIN key[t] : key[t][i] = x}
                      IN  IF at = {} THEN 0 ELSE CHOOSE i \in at : TRUE
    IN  [k \in 1 .. Cardinality(keys) |-> LET x == nth(k) IN [t \in DOMAIN tables |-> root(t, x)]]

\* The first member that has the root, 0 when only ROOT tables have it.
Representative(count, group) ==
    LET having == {t \in 1 .. count : group[t] # 0}
    IN  IF having = {} THEN 0 ELSE CHOOSE t \in having : \A u \in having : t <= u

TagIn(tables, group, t) == Tag(tables[t], tables[t].rootId[group[t]])

\* A ROOT root must be a root of its own member.
GroupVerdict(tables, count, group, options) ==
    LET rep   == Representative(count, group)
        roots == {t \in count + 1 .. Len(tables) : group[t] # 0}
    IN  IF rep = 0
        THEN IF \A t \in roots : TagIn(tables, group, t) = "AnnotationAssertion" THEN "unsupported" ELSE "malformed"
        ELSE Need(\A t \in roots : group[t - count] # 0) &&
             (IF TagIn(tables, group, rep) = "AnnotationAssertion" /\ LiteralsOn(options) /\ Len(tables) = count
              THEN "unsupported" ELSE "ok")

\* The representatives <<table, root>> of the groups, and the tails: the
\* groups the base does not have, with their place in the base scan.
Representatives(count, groups) ==
    [k \in DOMAIN groups |-> LET t == Representative(count, groups[k]) IN <<t, groups[k][t]>>]

Tails(count, groups) ==
    LET all == [k \in DOMAIN groups |->
                  LET t == Representative(count, groups[k])
                      passed == {0} \cup {groups[j][1] : j \in 1 .. k}
                  IN  [table |-> t, root |-> groups[k][t], order |-> k - 1,
                       at |-> CHOOSE i \in passed : \A j \in passed : j <= i]]
    IN  SelectSeq(all, LAMBDA tail : tail.table # 1)

\* Rows of the merged order; a chain only counts.
MergedRoles(plans, firsts) ==
    LET effect(k) == plans[firsts[k][1]].role[firsts[k][2]]
        having == SelectSeq([k \in DOMAIN firsts |-> k], LAMBDA k : firsts[k][2] \in DOMAIN plans[firsts[k][1]].role)
        rows == SelectSeq(having, LAMBDA k : effect(k)[1] = "Row")
    IN  [axioms |-> Len(having),
         rows |-> [i \in DOMAIN rows |-> [effect(rows[i])[2] EXCEPT !.order = rows[i] - 1]]]

\* Closure-wide positions of the individuals the axioms of representatives reach.
GlobalPositions(members, plans, firsts) ==
    LET roots(t) == {members[t].rootId[firsts[k][2]] :
                        k \in {j \in DOMAIN firsts : /\ firsts[j][1] = t
                                                     /\ plans[t].rule[firsts[j][2]] \notin {"Annotation", "SWRLRule"}}}
        nodes == UNION {{<<t, n>> : n \in {m \in ReachableFrom(members[t], roots(t)) : Anon(members[t], m)}} :
                            t \in DOMAIN members}
        parts(x) == AnonymousParts(members[x[1]], x[2])
    IN  [x \in nodes |-> Cardinality({parts(y) : y \in {z \in nodes : PartsLess(parts(z), parts(x))}})]

GlobalClasses(members, firsts) ==
    UNION {ClassIris(members[t], ReachableFrom(members[t],
              {members[t].rootId[firsts[k][2]] : k \in {j \in DOMAIN firsts : firsts[j][1] = t}})) :
              t \in DOMAIN members}

\* The annotation roots that a ROOT table selects.
GlobalNotes(tables, count, groups, firsts) ==
    LET chosen == SelectSeq([k \in DOMAIN groups |-> k],
                     LAMBDA k : /\ TagIn(tables, groups[k], firsts[k][1]) = "AnnotationAssertion"
                                /\ \E t \in count + 1 .. Len(tables) : groups[k][t] # 0)
    IN  [i \in DOMAIN chosen |->
            LET t == firsts[chosen[i]][1] IN <<t, tables[t].rootId[firsts[chosen[i]][2]]>>]

-----------------------------------------------------------------------------
(* Deltas: what own_composite_tail_projection keeps of a tail root.         *)

Delta(kind, edge, named, limits, ignored) ==
    [kind |-> kind, edge |-> edge, named |-> named, limits |-> limits, ignored |-> ignored]

Plain(kind, edge) == Delta(kind, edge, <<>>, <<>>, 0)

\* A root whose shape projects nothing, and a root that leaves only its counter.
IgnoredShape == Plain("IgnoredShape", <<>>)

Silent == Plain("Silent", <<>>)

\* own_local_subclass_projection and own_local_class_assertion_projection: an
\* annotation must not bring an anonymous individual along.
SubclassDelta(c, n, shape) ==
    IF shape = Ignored THEN IgnoredShape
    ELSE IF ~Bare(c, n) /\ Carries(c, n) THEN Plain("Unsupported", <<>>)
    ELSE IF shape[1] = "Taxonomy" THEN Plain("Taxonomy", <<shape[2], SubclassRelation, shape[3]>>)
    ELSE Plain("Restriction", <<shape[2], shape[3], shape[4]>>)

ClassAssertionDelta(c, n, shape) ==
    IF shape = Ignored THEN IgnoredShape
    ELSE IF ~Bare(c, n) /\ Carries(c, n) THEN Plain("Unsupported", <<>>)
    ELSE Plain("Edge", <<shape[2], TypeRelation, shape[3]>>)

\* own_local_equivalent_projection takes the sorted operands of the plan.
EquivalentDelta(c, n, plan, root) ==
    LET shape == plan.shape[root]  a == AggregateAt(plan, root)
        named == Slice(plan.named, a.named)
        limits == SelectSeq(Slice(plan.restrictions, a.restrictions), LAMBDA o : o.projection # <<>>)
    IN  IF Carries(c, n) THEN Plain("Unsupported", <<>>)
        ELSE IF shape = Ignored THEN IgnoredShape
        ELSE IF shape[1] = "Pair" THEN Plain("Taxonomy", <<shape[2], SubclassRelation, shape[3]>>)
        ELSE Delta("Aggregate", <<shape[2]>>, [i \in DOMAIN named |-> EntityIri(c, named[i])],
                   [i \in DOMAIN limits |-> limits[i].projection], a.ignored)

\* A mapped member renders its individual by the member's position, any other
\* by the closure-wide position.
AssertionDelta(c, t, shape, position, scopes) ==
    LET end(x) == IF x[1] = "Named" THEN EntityIri(c, x[2])
                  ELSE IF t \in DOMAIN scopes THEN Genid(scopes[t]) ELSE Render(position, t, x[2])
    IN  Plain("Edge", <<end(shape[2]), shape[3], end(shape[4])>>)

TailDelta(c, t, plan, root, position, scopes) ==
    LET n == c.rootId[root]  tag == Tag(c, n)
    IN  CASE tag = "SubClassOf" -> SubclassDelta(c, n, plan.shape[root])
          [] tag = "EquivalentClasses" -> EquivalentDelta(c, n, plan, root)
          [] tag = "ClassAssertion" -> ClassAssertionDelta(c, n, plan.shape[root])
          [] tag = "ObjectPropertyAssertion" -> AssertionDelta(c, t, plan.shape[root], position, scopes)
          [] tag \in {"ObjectPropertyDomain", "ObjectPropertyRange"} /\ plan.shape[root] = Ignored -> IgnoredShape
          [] OTHER -> Silent

\* OwnedOverlayDeltaProjection::phase: what emits nothing on its own waits in
\* the phase of the object assertions, projected domains and ranges in theirs.
DeltaPhase(tag, kind) ==
    IF tag = "AnnotationAssertion" \/ (RootRules[tag].side # "none" /\ kind = "IgnoredShape")
    THEN "ObjectAssertions" ELSE RootRules[tag].phase

OverlayDeltas(members, plans, tails, position, scopes) ==
    [i \in DOMAIN tails |->
        LET t == tails[i].table  tag == plans[t].rule[tails[i].root]
            d == TailDelta(members[t], t, plans[t], tails[i].root, position, scopes)
        IN  d @@ [tag |-> tag, phase |-> DeltaPhase(tag, d.kind), at |-> tails[i].at, order |-> tails[i].order]]

\* canonicalize_overlay_delta_plan.
DeltaLess(x, y) ==
    \/ PhaseIndex(x.phase) < PhaseIndex(y.phase)
    \/ x.phase = y.phase /\ (x.at < y.at \/ (x.at = y.at /\ x.order < y.order))

-----------------------------------------------------------------------------
(* Counters of the deltas.                                                 *)

\* edge_counts: <<edges, of which role expansions>>.
DeltaEdges(d, roles, options) ==
    LET expanded == Total([i \in DOMAIN d.limits |-> EdgeCount(roles, d.limits[i][1])])
    IN  CASE d.kind = "Taxonomy" /\ (d.phase = "Subclasses" \/ ~options.asserted) -> <<Directions(options), 0>>
          [] d.kind = "Restriction" /\ Mode(options) = "normal" ->
                <<EdgeCount(roles, d.edge[2]), EdgeCount(roles, d.edge[2]) - 1>>
          [] d.kind = "Aggregate" /\ ~options.asserted ->
                LET named == Len(d.named) * Directions(options)
                IN  IF options.onlyTaxonomy THEN <<named, 0>>
                    ELSE <<named + expanded, expanded - Len(d.limits)>>
          [] d.kind = "Edge" /\ ~options.asserted -> <<1, 0>>
          [] OTHER -> <<0, 0>>

\* apply_statistics: the equivalences count their base edges and the shapes
\* they ignore, the rest only themselves.
EquivalentStatistics(s, d, options) ==
    LET limits == IF options.onlyTaxonomy THEN 0 ELSE Len(d.limits)
        shapes == IF options.onlyTaxonomy THEN 0 ELSE d.ignored
        one(k) == IF d.kind = k THEN 1 ELSE 0
    IN  IF d.tag # "EquivalentClasses" THEN s
        ELSE [s EXCEPT
                !.aggregates = @ + one("Aggregate"),
                !.equivalentBase =
                    IF options.asserted THEN @
                    ELSE @ + one("Taxonomy") * Directions(options)
                           + one("Aggregate") * (Len(d.named) * Directions(options) + limits),
                !.ignoredEquivalents =
                    IF options.asserted THEN @ ELSE @ + one("IgnoredShape") + one("Aggregate") * shapes]

ShapeStatistics(s, d) ==
    LET one(tag) == IF d.tag = tag /\ d.kind = "IgnoredShape" THEN 1 ELSE 0
    IN  [s EXCEPT !.restrictions = @ + (IF d.kind = "Restriction" THEN 1 ELSE 0),
                  !.ignoredSubclasses = @ + one("SubClassOf"),
                  !.ignoredAssertions = @ + one("ClassAssertion"),
                  !.ignoredDomains = @ + one("ObjectPropertyDomain"),
                  !.ignoredRanges = @ + one("ObjectPropertyRange")]

ApplyStatistics(s, d, options) ==
    LET counted == [s EXCEPT !.count[d.tag] = @ + 1,
                             !.skipped = IF Skipped(d.tag, options) THEN @ + 1 ELSE @]
    IN  ShapeStatistics(EquivalentStatistics(counted, d, options), d)

-----------------------------------------------------------------------------
(* Domains and ranges of the tails, merged with those of the base.           *)

\* The merged position of a tail is its place in the base scan plus the number
\* of local axioms before it.
LocalClasses(members, plans, tails) ==
    LET projected == SelectSeq(tails, LAMBDA x : LET plan == plans[x.table]
                                                 IN  /\ RootRules[plan.rule[x.root]].side # "none"
                                                     /\ plan.shape[x.root] # Ignored)
    IN  [i \in DOMAIN projected |->
            LET x == projected[i]  plan == plans[x.table]
            IN  [side |-> RootRules[plan.rule[x.root]].side, property |-> plan.shape[x.root][2],
                 class |-> plan.shape[x.root][3], position |-> x.at + i - 1]]

\* base_object_property_class_at, <<>> for a root that is none.
SideOf(tag) == RootRules[tag].side

ClassOf(side, shape) == IF side = "none" \/ shape = Ignored THEN <<>> ELSE <<side, shape[2], shape[3]>>

BaseClassAt(p, position) ==
    LET root == position + 1
    IN  IF root \in DOMAIN p.plan.shape THEN ClassOf(SideOf(p.plan.rule[root]), p.plan.shape[root]) ELSE <<>>

RootTotal(p) == Len(p.tables[1].rootKind)

\* object_property_class_at: a local axiom, or a base root behind the locals
\* inserted before it.
ClassAt(p, position) ==
    LET here == {i \in DOMAIN p.locals : p.locals[i].position = position}
        before == Cardinality({i \in DOMAIN p.locals : p.locals[i].position < position})
    IN  IF here = {} THEN BaseClassAt(p, position - before)
        ELSE LET x == p.locals[CHOOSE i \in here : TRUE] IN <<x.side, x.property, x.class>>

LocalIndexVerdict(p) ==
    Need(/\ \A i \in DOMAIN p.locals : p.locals[i].position < RootTotal(p) + Len(p.locals)
         /\ \A i, j \in DOMAIN p.locals : p.locals[i].position = p.locals[j].position => i = j)

\* prepare_local_object_property_class_index: base roots take the positions the
\* locals leave free; a group is a property with a domain and a range.
Occurrences(p) ==
    LET taken == {p.locals[i].position : i \in DOMAIN p.locals}
        free  == Ascending((0 .. RootTotal(p) + Len(p.locals) - 1) \ taken)
        base  == {<<BaseClassAt(p, i - 1), free[i], FALSE>> : i \in {k \in DOMAIN free : BaseClassAt(p, k - 1) # <<>>}}
        local == {<<ClassAt(p, q), q, TRUE>> : q \in taken}
    IN  base \cup local

ClassGroup(property, domains, ranges) ==
    LET positions(xs) == Ascending({x[2] : x \in xs})
        base(xs) == Cardinality({x \in xs : ~x[3]})
    IN  [property |-> property, domain |-> positions(domains), range |-> positions(ranges),
         baseDomains |-> base(domains), baseRanges |-> base(ranges)]

GroupedClasses(all) ==
    LET of(property, side) == {x \in all : x[1][2] = property /\ x[1][1] = side}
        paired == {property \in {x[1][2] : x \in all} :
                      of(property, "domain") # {} /\ of(property, "range") # {}}
        nth(k) == CHOOSE x \in paired : Cardinality({y \in paired : BytesLess(y, x)}) = k - 1
        group(property) == ClassGroup(property, of(property, "domain"), of(property, "range"))
    IN  Tabulated([k \in 1 .. Cardinality(paired) |-> group(nth(k))])

ClassGroups(p) == GroupedClasses(Occurrences(p))

\* local_object_property_class_edge_counts: all pairs but those of the base.
LocalPairs(p) ==
    LET new(k) == LET g == p.groups[k] IN Len(g.domain) * Len(g.range) - g.baseDomains * g.baseRanges
        used == IF p.options.asserted THEN <<>> ELSE p.groups
    IN  <<Total([k \in DOMAIN used |-> new(k)]),
          Total([k \in DOMAIN used |-> new(k) * EdgeCount(p.roles, used[k].property)])>>

-----------------------------------------------------------------------------
(* The preparation.                                                        *)

CompositeShape(members, roots) ==
    IF Len(members) < 2 THEN "unsupported" ELSE Need(roots = <<>> \/ Len(roots) = Len(members))

\* At least one root, and no annotation of a tail without ROOT tables.
CompositeSelection(members, plans, roots, options) ==
    IF \A t \in DOMAIN members : SelectedRootCount(members[t]) = 0 THEN "unsupported"
    ELSE IF roots = <<>> /\ LiteralsOn(options)
            /\ \E t \in 2 .. Len(members) : RootsWith(plans[t], "AnnotationAssertion") # {}
    THEN "unsupported" ELSE "ok"

\* Every table passes the checks of a single one, the members first.
CompositeTables(members, roots, plans) ==
    CompositeShape(members, roots) && FirstError(plans, LAMBDA plan : plan.verdict)

CompositeVerdict(members, roots, options, plans, scopes, groups) ==
    LET tables == members \o roots
    IN  scopes.verdict && CompositeSelection(members, plans, roots, options) && OrderKept(tables)
        && FirstError(groups, LAMBDA g : GroupVerdict(tables, Len(members), g, options))

\* The base with its deltas and local classes, before the totals.
Indexed(p) ==
    [p EXCEPT !.verdict = @ && LocalIndexVerdict(p), !.groups = IF p.locals = <<>> THEN <<>> ELSE ClassGroups(p)]

Laid(base, members, position, deltas, locals, classes) ==
    Indexed([base EXCEPT
        !.verdict = (IF \E i \in DOMAIN deltas : deltas[i].kind = "Unsupported" THEN "unsupported" ELSE "ok") && @,
        !.tables = members, !.position = position, !.scan = FALSE,
        !.deltas = HeapSort(deltas, DeltaLess), !.locals = locals, !.classes = classes])

Overlay(base, members, firsts, tails, plans, scopes, position) ==
    Laid(base, members, position, OverlayDeltas(members, plans, tails, position, scopes.position),
         LocalClasses(members, plans, tails), GlobalClasses(members, firsts))

\* The counters: those of the base, the deltas on top, and what is known only
\* closure-wide put in place of the sums.
CompositeTotals(p, tails, roles, notes, literal, selected, all, counts, local) ==
    LET extra(k) == Total([i \in DOMAIN counts |-> counts[i][k]])
        inverse == Len(SelectSeq(roles.rows, LAMBDA r : r.tag = "InverseObjectProperties"))
    IN  [all EXCEPT
            !.roots = @ + Len(tails),
            !.count = [@ EXCEPT !["SubObjectPropertyOf"] = roles.axioms - inverse,
                                !["InverseObjectProperties"] = inverse,
                                !["AnnotationAssertion"] = notes],
            !.chains = roles.axioms - Len(roles.rows),
            !.annotations = selected, !.annotationEdges = literal.edges, !.typedLiterals = literal.typed,
            !.anonymous = Cardinality({p.position[x] : x \in DOMAIN p.position}),
            !.roleExpansion = @ + extra(2) + local[2] - local[1],
            !.domainRange = @ + local[1],
            !.edges = @ + extra(1) + local[2] + literal.edges]

CompositeStatistics(p, tails, roles, notes, literal, selected) ==
    LET folded[i \in 0 .. Len(p.deltas)] ==
            IF i = 0 THEN p.statistics ELSE ApplyStatistics(folded[i - 1], p.deltas[i], p.options)
    IN  CompositeTotals(p, tails, roles, notes, literal, selected, folded[Len(p.deltas)],
                        Tabulated([i \in DOMAIN p.deltas |-> DeltaEdges(p.deltas[i], p.roles, p.options)]),
                        LocalPairs(p))

\* The limit on the edges comes last.
Closed(laid, chosen, options, statistics) ==
    Accepted([laid EXCEPT
        !.verdict = @ && Within(statistics.edges, options), !.notes = chosen, !.statistics = statistics,
        !.options = [options EXCEPT !.includeLiterals = LiteralsOn(options)]])

Completed(laid, roots, options, tails, merged, notes, chosen) ==
    Closed(laid, chosen, options,
           CompositeStatistics(laid, tails, merged, notes,
               IF roots = <<>> THEN NoAnnotations ELSE CountedNotes(laid.tables, chosen, laid.classes, options),
               IF roots = <<>> THEN notes ELSE Len(chosen)))

\* The base is prepared as a table of its own, with the roles of the closure;
\* with ROOT tables its annotations wait for the closure.
PrepareOverlay(members, roots, plans, options, retained, scopes, groups, firsts, tails, merged) ==
    LET tables == members \o roots
        roles  == IF options.asserted THEN NoRoles ELSE BuildRoleState(merged.rows, merged.axioms, retained)
        base   == PrepareTable(members[1], plans[1], roles, [options EXCEPT !.includeLiterals = @ /\ roots = <<>>],
                               AnnotationRoots(members[1], plans[1]), TRUE)
        notes  == {k \in DOMAIN groups : TagIn(tables, groups[k], firsts[k][1]) = "AnnotationAssertion"}
    IN  Completed(Overlay(base, members, firsts, tails, plans, scopes, GlobalPositions(members, plans, firsts)),
                  roots, options, tails, merged, Cardinality(notes),
                  GlobalNotes(tables, Len(members), groups, firsts))

PrepareGroups(members, roots, plans, options, retained, scopes, groups, firsts) ==
    PrepareOverlay(members, roots, plans, options, retained, scopes, groups, firsts,
                   Tails(Len(members), groups), MergedRoles(plans, firsts))

PrepareMerged(members, roots, plans, options, retained, scopes, groups) ==
    LET early == CompositeVerdict(members, roots, options, plans, scopes, groups)
    IN  IF early # "ok" THEN Refused(early)
        ELSE PrepareGroups(members, roots, plans, options, retained, scopes, groups,
                           Representatives(Len(members), groups))

\* "plans" are those of the members and then of the ROOT tables.
PrepareComposite(members, roots, plans, options, retained) ==
    LET early == CompositeTables(members, roots, plans)
    IN  IF early # "ok" THEN Refused(early)
        ELSE PrepareMerged(members, roots, plans, options, retained, ScopePlan(members),
                           MergedGroups(members \o roots))
=============================================================================
