------------------------------ MODULE RootPlan ------------------------------
(***************************************************************************)
(* The root rules of the native compiler and the plan they give a table:    *)
(* for every selected root its rule, the shape the counters read and the     *)
(* shape the emission reads, with the operands of aggregate equivalences     *)
(* in flat arenas shared by all roots.                                      *)
(***************************************************************************)
EXTENDS RoleRules

Phases == <<"Subclasses", "Equivalents", "Annotations", "ClassAssertions",
            "ObjectAssertions", "DomainRanges", "Finished">>

PhaseIndex(p) == CHOOSE i \in DOMAIN Phases : Phases[i] = p

\* LocalProjectionMode: asserted_taxonomy_only wins over only_taxonomy.
Mode(options) ==
    IF options.asserted THEN "asserted" ELSE IF options.onlyTaxonomy THEN "taxonomy" ELSE "normal"

Rule(kind, phase, normal, stats, role, side) ==
    [kind |-> kind, phase |-> phase, normal |-> normal, stats |-> stats, role |-> role, side |-> side]

\* An axiom that is validated and leaves a diagnostic.
SkippedRule(tags) == [t \in tags |-> Rule(2, "ObjectAssertions", "skip", "skipped", FALSE, "none")]

ClassRules ==
    [t \in {"Declaration"} |-> Rule(2, "ObjectAssertions", "validate", "silent", FALSE, "none")]
    @@ [t \in {"SubClassOf"} |-> Rule(2, "Subclasses", "family", "shape", FALSE, "none")]
    @@ [t \in {"EquivalentClasses"} |-> Rule(2, "Equivalents", "family", "shape", FALSE, "none")]
    @@ SkippedRule({"DisjointClasses", "DisjointUnion", "HasKey"})

ObjectPropertyRules ==
    [t \in {"SubObjectPropertyOf", "InverseObjectProperties"} |->
        Rule(2, "ObjectAssertions", "family", "silent", TRUE, "none")]
    @@ SkippedRule({"EquivalentObjectProperties", "DisjointObjectProperties"})
    @@ [t \in {"ObjectPropertyDomain"} |-> Rule(2, "DomainRanges", "family", "shape", FALSE, "domain")]
    @@ [t \in {"ObjectPropertyRange"} |-> Rule(2, "DomainRanges", "family", "shape", FALSE, "range")]

AssertionRules ==
    [t \in {"ClassAssertion"} |-> Rule(2, "ClassAssertions", "project", "shape", FALSE, "none")]
    @@ [t \in {"ObjectPropertyAssertion"} |-> Rule(2, "ObjectAssertions", "project", "projecting", FALSE, "none")]
    @@ SkippedRule({"NegativeObjectPropertyAssertion"})

CharacteristicRules == SkippedRule(CharacteristicTags)

DataRules ==
    SkippedRule({"SubDataPropertyOf", "EquivalentDataProperties", "DisjointDataProperties",
                 "DataPropertyDomain", "DataPropertyRange", "FunctionalDataProperty", "DatatypeDefinition"})

IndividualRules ==
    SkippedRule({"SameIndividual", "DifferentIndividuals", "DataPropertyAssertion",
                 "NegativeDataPropertyAssertion"})

AnnotationRules ==
    [t \in {"AnnotationAssertion"} |-> Rule(2, "Annotations", "literal", "projecting", FALSE, "none")]
    @@ SkippedRule({"SubAnnotationPropertyOf", "AnnotationPropertyDomain", "AnnotationPropertyRange"})

OtherRules ==
    [t \in {"Annotation"} |-> Rule(1, "ObjectAssertions", "validate", "silent", FALSE, "none")]
    @@ [t \in {"SWRLRule"} |-> Rule(3, "ObjectAssertions", "validate", "silent", FALSE, "none")]

RootRules ==
    ClassRules @@ ObjectPropertyRules @@ AssertionRules @@ CharacteristicRules @@ DataRules
    @@ IndividualRules @@ AnnotationRules @@ OtherRules

ResolveIndex(kind, tag) ==
    CASE tag \in DOMAIN RootRules /\ RootRules[tag].kind = kind -> "ok"
      [] kind = 2 /\ tag \notin {"Annotation", "SWRLRule"} /\ tag \in SchemaTags -> "unsupported"
      [] OTHER -> "malformed"

\* The mode table: class axioms, domains and ranges decide for themselves in
\* every mode, everything else is only validated in the asserted mode.
Disposition(tag, options) ==
    LET rule == RootRules[tag]
    IN  IF Mode(options) = "asserted" /\ (rule.role \/ rule.normal # "family")
        THEN "validate" ELSE rule.normal

\* A skipped axiom leaves a diagnostic, except in the asserted mode.
Skipped(tag, options) ==
    RootRules[tag].stats = "skipped" /\ Disposition(tag, options) = "skip"

-----------------------------------------------------------------------------
(* Shapes: what a root projects to, <<"Ignored">> when it projects nothing. *)

Ignored == <<"Ignored">>

\* restriction_projection: the relation and the named filler, or nothing.
RestrictionProjection(c, n) ==
    LET p == PropertyField(c, n)  filler == Ref(c, n, p + 1)
    IN  IF Tag(c, filler) = "Entity"
        THEN <<PropertyIri(c, Ref(c, n, p)), EntityIri(c, filler)>> ELSE <<>>

RestrictionCoordinate(c, n) ==
    LET p == PropertyField(c, n) IN <<Ref(c, n, p), Ref(c, n, p + 1)>>

\* subclass_projection: a restriction may stand on either side.
RestrictedShape(c, named, limit, projection) ==
    IF projection = <<>> THEN Ignored
    ELSE <<"Restriction", EntityIri(c, named), projection[1], projection[2], named, RestrictionCoordinate(c, limit)>>

OperandsShape(c, sub, sup) ==
    CASE Tag(c, sub) = "Entity" /\ Tag(c, sup) = "Entity" ->
            <<"Taxonomy", EntityIri(c, sub), EntityIri(c, sup), sub, sup>>
      [] Tag(c, sub) = "Entity" /\ Tag(c, sup) \in RestrictionTags ->
            RestrictedShape(c, sub, sup, RestrictionProjection(c, sup))
      [] Tag(c, sub) \in RestrictionTags /\ Tag(c, sup) = "Entity" ->
            RestrictedShape(c, sup, sub, RestrictionProjection(c, sub))
      [] OTHER -> Ignored

SubclassShape(c, n) == OperandsShape(c, Ref(c, n, 1), Ref(c, n, 2))

ObjectPropertyClassShape(c, n) ==
    LET property == Ref(c, n, 1)  class == Ref(c, n, 2)
    IN  IF Tag(c, property) = "Entity" /\ Tag(c, class) = "Entity"
        THEN <<"Projected", EntityIri(c, property), EntityIri(c, class), property, class>>
        ELSE Ignored

ClassAssertionShape(c, n) ==
    LET class == Ref(c, n, 1)  individual == Ref(c, n, 2)
    IN  IF Tag(c, class) = "Entity" /\ Tag(c, individual) = "Entity"
        THEN <<"Edge", EntityIri(c, individual), EntityIri(c, class), individual, class>>
        ELSE Ignored

\* An individual is named, or anonymous and known by its node.
IndividualCoordinate(c, n) == IF Tag(c, n) = "Entity" THEN <<"Named", n>> ELSE <<"Anonymous", n>>

ObjectAssertionShape(c, n) ==
    <<"Assertion", IndividualCoordinate(c, Ref(c, n, 2)), PropertyIri(c, Ref(c, n, 1)),
      IndividualCoordinate(c, Ref(c, n, 3))>>

\* contains_class_iri: the class names among the given nodes.
ClassIris(c, nodes) ==
    {EntityIri(c, n) : n \in {m \in nodes : Tag(c, m) = "Entity" /\ EntityKind(c, m) = "class"}}

AnnotationValueShape(c, n) ==
    CASE Tag(c, n) = "IRI" -> <<"Iri", IriText(c, n)>>
      [] Tag(c, n) = "AnonymousIndividual" -> <<"Anonymous", n>>
      [] Datatype(c, n) \in {<<"string">>, <<"plain">>} -> <<"Lexical", Scalar(c, n, 1)>>
      [] OTHER -> <<"Typed", Scalar(c, n, 1), Datatype(c, n)>>

\* ANNOTATION_PROPERTIES, one of each sort: the label IRI is abbreviated in the
\* edge (as the comment IRI is), a synonym is kept; any other is not listed.
AnnotationRelation == <<"label">> :> <<"rdfs:label">> @@ <<"synonym">> :> <<"synonym">>

\* annotation_projection: the subject must name one of the classes.
AnnotationShape(c, n, classes) ==
    LET property == EntityIri(c, Ref(c, n, 1))  subject == Ref(c, n, 2)
    IN  IF /\ property \in DOMAIN AnnotationRelation
           /\ Tag(c, subject) = "IRI" /\ IriText(c, subject) \in classes
        THEN <<"Annotation", IriText(c, subject), AnnotationRelation[property],
               AnnotationValueShape(c, Ref(c, n, 3))>>
        ELSE Ignored

-----------------------------------------------------------------------------
(* Equivalent classes.                                                     *)

\* PlannedExpressionKey.precedes.
Precedes(c, m, n) ==
    IF Rank(c, m) # Rank(c, n) THEN Rank(c, m) < Rank(c, n)
    ELSE IF Tag(c, m) = "Entity" /\ EntityIri(c, m) # EntityIri(c, n)
    THEN BytesLess(EntityIri(c, m), EntityIri(c, n)) ELSE m < n

\* The scan that keeps the two least expressions, 0 while there is none.
FirstTwo(c, items) ==
    LET scan[i \in 0 .. Len(items)] ==
            IF i = 0 THEN <<0, 0>>
            ELSE LET two == scan[i - 1]  item == items[i]
                 IN  IF two[1] = 0 THEN <<item, 0>>
                     ELSE IF Precedes(c, item, two[1]) THEN <<item, two[1]>>
                     ELSE IF two[2] = 0 \/ Precedes(c, item, two[2]) THEN <<two[1], item>>
                     ELSE two
    IN  scan[Len(items)]

TagOrder(tag) ==
    CASE tag = "ObjectSomeValuesFrom" -> 0 [] tag = "ObjectAllValuesFrom" -> 1
      [] tag = "ObjectMinCardinality" -> 2 [] OTHER -> 3

\* The operands of an aggregate in item order, as they enter the arenas.
NamedOperands(c, n) == SelectSeq(Items(c, n, 1), LAMBDA m : Tag(c, m) = "Entity")

RestrictionOperands(c, n) ==
    LET items == Items(c, n, 1)
        all   == [i \in DOMAIN items |->
                    [node |-> items[i], tag |-> Tag(c, items[i]), order |-> i,
                     projection |-> IF Tag(c, items[i]) \in RestrictionTags
                                    THEN RestrictionProjection(c, items[i]) ELSE <<>>]]
    IN  SelectSeq(all, LAMBDA o : o.tag \in RestrictionTags)

\* Restrictions to unnamed fillers, nonprojecting operands, nested aggregates.
IgnoredShapes(c, n) ==
    Cardinality({i \in DOMAIN Items(c, n, 1) :
        LET m == Items(c, n, 1)[i]
        IN  IF Tag(c, m) \in RestrictionTags THEN RestrictionProjection(c, m) = <<>>
            ELSE Tag(c, m) # "Entity"})

NamedPrecedes(c, m, n) ==
    BytesLess(EntityIri(c, m), EntityIri(c, n)) \/ (EntityIri(c, m) = EntityIri(c, n) /\ m < n)

RestrictionPrecedes(x, y) ==
    TagOrder(x.tag) < TagOrder(y.tag) \/ (TagOrder(x.tag) = TagOrder(y.tag) /\ x.order < y.order)

EquivalentKind(c, first, second) ==
    CASE Tag(c, first) # "Entity" -> "Ignored"
      [] Tag(c, second) = "Entity" -> "Pair"
      [] Tag(c, second) \in AggregateTags -> "Aggregate"
      [] OTHER -> "Ignored"

\* plan_equivalent_shape: the shape, and the arenas with the sorted operands.
\* The emission arenas are filled in item order and realigned after the sort.
PlanAggregate(c, root, first, second, named, limits, plan) ==
    [plan EXCEPT
        !.shape = @ @@ (root :> <<"Aggregate", EntityIri(c, first), first, Len(plan.aggregates) + 1>>),
        !.aggregates = Append(@, [root |-> root, named |-> <<Len(plan.named), Len(named)>>,
                                  restrictions |-> <<Len(plan.restrictions), Len(limits)>>,
                                  ignored |-> IgnoredShapes(c, second)]),
        !.named = @ \o named,
        !.restrictions = @ \o limits,
        !.emissionNamed = @ \o named,
        !.emissionRestrictions =
            @ \o [i \in DOMAIN limits |->
                     IF limits[i].projection = <<>> THEN <<>> ELSE RestrictionCoordinate(c, limits[i].node)]]

PlanPair(c, root, two, plan) ==
    CASE EquivalentKind(c, two[1], two[2]) = "Ignored" -> [plan EXCEPT !.shape = @ @@ (root :> Ignored)]
      [] EquivalentKind(c, two[1], two[2]) = "Pair" ->
            [plan EXCEPT !.shape =
                @ @@ (root :> <<"Pair", EntityIri(c, two[1]), EntityIri(c, two[2]), two[1], two[2]>>)]
      [] OTHER ->
            PlanAggregate(c, root, two[1], two[2],
                HeapSort(NamedOperands(c, two[2]), LAMBDA x, y : NamedPrecedes(c, x, y)),
                HeapSort(RestrictionOperands(c, two[2]), RestrictionPrecedes), plan)

PlanEquivalent(c, root, n, plan) == PlanPair(c, root, FirstTwo(c, Items(c, n, 1)), plan)

-----------------------------------------------------------------------------
(* populate_selected_root_rule_plan.                                       *)

ShapeOf(c, n) ==
    CASE Tag(c, n) = "SubClassOf" -> SubclassShape(c, n)
      [] Tag(c, n) \in {"ObjectPropertyDomain", "ObjectPropertyRange"} -> ObjectPropertyClassShape(c, n)
      [] Tag(c, n) = "ClassAssertion" -> ClassAssertionShape(c, n)
      [] OTHER -> ObjectAssertionShape(c, n)

\* The shapes that need no arena.
SimpleShapes(c, rule) ==
    [root \in {r \in DOMAIN rule : rule[r] \in {"SubClassOf", "ObjectPropertyDomain", "ObjectPropertyRange",
                                               "ClassAssertion", "ObjectPropertyAssertion"}} |->
        ShapeOf(c, c.rootId[root])]

\* classify: a property chain counts and contributes no row.
RoleEffect(c, root, n) ==
    IF Tag(c, Ref(c, n, 1)) = "ObjectPropertyChain" THEN <<"Chain">>
    ELSE <<"Row", RoleAxiomRow(c, n, root)>>

Classify(c, rule) ==
    [root \in {r \in DOMAIN rule : RootRules[rule[r]].role} |-> RoleEffect(c, root, c.rootId[root])]

EmptyPlan ==
    [verdict |-> "ok", rule |-> <<>>, shape |-> <<>>, role |-> <<>>, aggregates |-> <<>>,
     named |-> <<>>, restrictions |-> <<>>, emissionNamed |-> <<>>, emissionRestrictions |-> <<>>]

\* The elements of a finite set of numbers in ascending order.
Ascending(S) == [i \in 1 .. Cardinality(S) |-> CHOOSE x \in S : Cardinality({y \in S : y <= x}) = i]

\* The equivalences fill the arenas in root order.
PlanRules(c, rule) ==
    LET equivalents == Ascending({r \in DOMAIN rule : rule[r] = "EquivalentClasses"})
        simple == [EmptyPlan EXCEPT !.rule = rule, !.shape = Tabulated(SimpleShapes(c, rule)),
                                    !.role = Tabulated(Classify(c, rule))]
        fold[i \in 0 .. Len(equivalents)] ==
            IF i = 0 THEN simple
            ELSE PlanEquivalent(c, equivalents[i], c.rootId[equivalents[i]], fold[i - 1])
    IN  fold[Len(equivalents)]

Plan(c) ==
    LET roots   == SelectedRoots(c)
        verdict == FirstError(roots, LAMBDA r : ResolveIndex(c.rootKind[r], Tag(c, c.rootId[r])))
    IN  IF verdict # "ok" THEN [EmptyPlan EXCEPT !.verdict = verdict]
        ELSE PlanRules(c, Tabulated([r \in ToSet(roots) |-> Tag(c, c.rootId[r])]))

Slice(arena, range) == SubSeq(arena, range[1] + 1, range[1] + range[2])

\* take_emission_plan: every range inside its arena, every aggregate of a root
\* its own.
EmissionPlan(plan) ==
    plan.verdict &&
    Need(/\ \A i \in DOMAIN plan.aggregates :
               LET a == plan.aggregates[i]
               IN  /\ a.named[1] + a.named[2] <= Len(plan.emissionNamed)
                   /\ a.restrictions[1] + a.restrictions[2] <= Len(plan.emissionRestrictions)
         /\ \A root \in DOMAIN plan.shape :
               plan.shape[root][1] = "Aggregate" =>
                  plan.aggregates[plan.shape[root][4]].root = root)

AggregateAt(plan, root) == plan.aggregates[plan.shape[root][4]]

RootsWith(plan, tag) == {root \in DOMAIN plan.rule : plan.rule[root] = tag}

\* RootCounts, by constructor, and the counters classify refines by shape.
RootCount(plan, tag) == Cardinality(RootsWith(plan, tag))

ShapeCount(plan, tag, kind) ==
    Cardinality({root \in RootsWith(plan, tag) : plan.shape[root][1] = kind})

SkippedAxioms(plan, options) ==
    Cardinality({root \in DOMAIN plan.rule : Skipped(plan.rule[root], options)})

\* The rows in root order, and the state they build.
PlannedRows(plan) ==
    LET roots == SelectSeq(Ascending(DOMAIN plan.role), LAMBDA r : plan.role[r][1] = "Row")
    IN  [i \in DOMAIN roots |-> plan.role[roots[i]][2]]

RoleStateOf(plan, retained) ==
    BuildRoleState(PlannedRows(plan), Cardinality(DOMAIN plan.role), retained)
=============================================================================
