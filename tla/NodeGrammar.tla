---------------------------- MODULE NodeGrammar ----------------------------
(***************************************************************************)
(* The grammar of the structural table as the native compiler checks it:   *)
(* one operator per validate_* method of DirectColumns in                  *)
(* encoded_direct.rs, each the verdict of the method, and one per          *)
(* *_projection method, each the shape the method returns for a node whose *)
(* verdict is "ok".  Checks run in the order of the code, so that the      *)
(* verdict is the error the code raises first.                             *)
(***************************************************************************)
EXTENDS DirectColumns

AggregateTags == {"ObjectIntersectionOf", "ObjectUnionOf"}

RestrictionTags == {"ObjectSomeValuesFrom", "ObjectAllValuesFrom",
                    "ObjectMinCardinality", "ObjectMaxCardinality"}

DataClassTags == {"DataSomeValuesFrom", "DataAllValuesFrom", "DataHasValue",
                  "DataMinCardinality", "DataMaxCardinality", "DataExactCardinality"}

NonprojectingTags == DataClassTags \cup
    {"ObjectComplementOf", "ObjectOneOf", "ObjectHasValue", "ObjectHasSelf",
     "ObjectExactCardinality"}

ClassExpressionTags == AggregateTags \cup RestrictionTags \cup NonprojectingTags

RecursiveClassTags ==
    AggregateTags \cup RestrictionTags \cup {"ObjectComplementOf", "ObjectExactCardinality"}

RecursiveDataRangeTags == {"DataIntersectionOf", "DataUnionOf", "DataComplementOf"}

DataRangeTags == RecursiveDataRangeTags \cup {"DataOneOf", "DatatypeRestriction"}

CharacteristicTags ==
    {"FunctionalObjectProperty", "InverseFunctionalObjectProperty", "ReflexiveObjectProperty",
     "IrreflexiveObjectProperty", "SymmetricObjectProperty", "AsymmetricObjectProperty",
     "TransitiveObjectProperty"}

SwrlAtomTags == {"ClassAtom", "DataRangeAtom", "ObjectPropertyAtom", "DataPropertyAtom",
                 "BuiltInAtom", "SameIndividualAtom", "DifferentIndividualsAtom"}

ClassAxiomTags == {"Declaration", "SubClassOf", "EquivalentClasses", "DisjointClasses",
                   "DisjointUnion", "HasKey", "ClassAssertion"}

PropertyAxiomTags == CharacteristicTags \cup
    {"SubObjectPropertyOf", "EquivalentObjectProperties", "DisjointObjectProperties",
     "InverseObjectProperties", "ObjectPropertyDomain", "ObjectPropertyRange",
     "ObjectPropertyAssertion", "NegativeObjectPropertyAssertion",
     "SubDataPropertyOf", "EquivalentDataProperties", "DisjointDataProperties",
     "DataPropertyDomain", "DataPropertyRange", "FunctionalDataProperty",
     "DatatypeDefinition", "DataPropertyAssertion", "NegativeDataPropertyAssertion"}

OtherAxiomTags == {"SameIndividual", "DifferentIndividuals", "AnnotationAssertion",
                   "SubAnnotationPropertyOf", "AnnotationPropertyDomain",
                   "AnnotationPropertyRange"}

\* SCHEMA_TAGS: every constructor of structural-columns v1.
SchemaTags ==
    {"IRI", "Entity", "AnonymousIndividual", "Literal", "Annotation", "ObjectInverseOf",
     "ObjectPropertyChain", "FacetRestriction", "Variable", "SWRLRule"}
    \cup DataRangeTags \cup ClassExpressionTags \cup SwrlAtomTags
    \cup ClassAxiomTags \cup PropertyAxiomTags \cup OtherAxiomTags

\* What a match falls through to: a known constructor, or no constructor.
Unexpected(c, n) == IF Tag(c, n) \in SchemaTags THEN "unsupported" ELSE "malformed"

Each(c, n, i, V(_, _)) == FirstError(Items(c, n, i), LAMBDA m : V(c, m))

-----------------------------------------------------------------------------
(* Entities, individuals, literals.                                        *)

\* named_class_iri and its five siblings.
Named(c, n, kind) ==
    IF Tag(c, n) # "Entity" THEN Unexpected(c, n)
    ELSE Entity(c, n) && Need(EntityKind(c, n) = kind) && Iri(c, Ref(c, n, 2))

NamedClass(c, n) == Named(c, n, "class")
NamedDataProperty(c, n) == Named(c, n, "data_property")
NamedAnnotationProperty(c, n) == Named(c, n, "annotation_property")

Individual(c, n) ==
    CASE Tag(c, n) = "Entity" -> Named(c, n, "named_individual")
      [] Tag(c, n) = "AnonymousIndividual" -> Anonymous(c, n)
      [] OTHER -> "malformed"

Datatype(c, n) == EntityIri(c, Ref(c, n, 2))

\* No language, or a non-empty lower-case one on a plain literal.
LiteralLanguage(c, n) ==
    LET f == Field(c, n, 3)
    IN  CASE c.fkind[f] = "none" -> Need(c.fval[f] = 0 /\ c.flen[f] = 0)
          [] c.fkind[f] = "text" ->
                Need(HasScalar(c, n, 3, "text")) &&
                Need(LET s == Scalar(c, n, 3)
                     IN  /\ Utf8(s) /\ s # <<>> /\ ToSet(s) \cap Uppercase = {}
                         /\ Datatype(c, n) = <<"plain">>)
          [] OTHER -> "malformed"

Literal(c, n) ==
    Need(Tag(c, n) = "Literal") && Exact(c, n, 3)
    && Need(HasScalar(c, n, 1, "text")) && Need(Utf8(Scalar(c, n, 1)))
    && Named(c, Ref(c, n, 2), "datatype") && LiteralLanguage(c, n)

-----------------------------------------------------------------------------
(* Annotations.                                                            *)

AnnotationValue(c, n) ==
    CASE Tag(c, n) = "IRI" -> Iri(c, n)
      [] Tag(c, n) = "AnonymousIndividual" -> Anonymous(c, n)
      [] Tag(c, n) = "Literal" -> Literal(c, n)
      [] OTHER -> "malformed"

MetadataValue(c, n) ==
    IF Tag(c, n) \in {"IRI", "Literal", "AnonymousIndividual"}
    THEN AnnotationValue(c, n) ELSE Unexpected(c, n)

AnnotationSet(c, n, i) ==
    NodeSet(c, n, i, 0) && Each(c, n, i, LAMBDA t, m : Need(Tag(t, m) = "Annotation"))

\* annotation_value_hash: an anonymous key must be text to be hashed.
HashedValue(c, n) ==
    MetadataValue(c, n) &&
    (IF Tag(c, n) = "AnonymousIndividual" /\ ~Utf8(Scalar(c, n, 2)) THEN "unsupported" ELSE "ok")

AnnotationHash(c, n) ==
    Need(Tag(c, n) = "Annotation") && Exact(c, n, 3)
    && NamedAnnotationProperty(c, Ref(c, n, 1)) && HashedValue(c, Ref(c, n, 2))
    && AnnotationSet(c, n, 3)

AnnotationSetHash(c, n, i) == NodeSet(c, n, i, 0) && Each(c, n, i, AnnotationHash)

Annotation(c, n) ==
    Exact(c, n, 3) && NamedAnnotationProperty(c, Ref(c, n, 1))
    && MetadataValue(c, Ref(c, n, 2)) && AnnotationSet(c, n, 3)

AnnotationSubject(c, n) ==
    IF Tag(c, n) \in {"IRI", "AnonymousIndividual"} THEN AnnotationValue(c, n) ELSE "malformed"

AnnotationAssertion(c, n) ==
    Exact(c, n, 4) && NamedAnnotationProperty(c, Ref(c, n, 1))
    && AnnotationSubject(c, Ref(c, n, 2)) && AnnotationValue(c, Ref(c, n, 3))
    && AnnotationSet(c, n, 4)

SubAnnotationPropertyOf(c, n) ==
    Exact(c, n, 3) && NamedAnnotationProperty(c, Ref(c, n, 1))
    && NamedAnnotationProperty(c, Ref(c, n, 2)) && AnnotationSet(c, n, 3)

AnnotationPropertyIri(c, n) ==
    Exact(c, n, 3) && NamedAnnotationProperty(c, Ref(c, n, 1))
    && Iri(c, Ref(c, n, 2)) && AnnotationSet(c, n, 3)

-----------------------------------------------------------------------------
(* Data ranges.                                                            *)

DataRangeReference(c, n) ==
    IF Tag(c, n) = "Entity" THEN Named(c, n, "datatype") ELSE Need(Tag(c, n) \in DataRangeTags)

FacetRestriction(c, n) ==
    Need(Tag(c, n) = "FacetRestriction") && Exact(c, n, 2)
    && Iri(c, Ref(c, n, 1)) && Literal(c, Ref(c, n, 2))

\* The operands of an intersection or a union are flattened.
DataRange(c, n) ==
    CASE Tag(c, n) = "Entity" -> Named(c, n, "datatype")
      [] Tag(c, n) \in {"DataIntersectionOf", "DataUnionOf"} ->
            Exact(c, n, 1) && NodeSet(c, n, 1, 2)
            && Each(c, n, 1, LAMBDA t, m : Need(Tag(t, m) # Tag(t, n)) && DataRangeReference(t, m))
      [] Tag(c, n) = "DataComplementOf" -> Exact(c, n, 1) && DataRangeReference(c, Ref(c, n, 1))
      [] Tag(c, n) = "DataOneOf" -> Exact(c, n, 1) && NodeSet(c, n, 1, 1) && Each(c, n, 1, Literal)
      [] Tag(c, n) = "DatatypeRestriction" ->
            Exact(c, n, 2) && Named(c, Ref(c, n, 1), "datatype")
            && NodeSet(c, n, 2, 1) && Each(c, n, 2, FacetRestriction)
      [] OTHER -> "malformed"

-----------------------------------------------------------------------------
(* Object-property expressions and class expressions.                      *)

ObjectInverse(c, n) == Exact(c, n, 1) && Named(c, Ref(c, n, 1), "object_property")

ObjectPropertyExpression(c, n) ==
    CASE Tag(c, n) = "Entity" -> Named(c, n, "object_property")
      [] Tag(c, n) = "ObjectInverseOf" -> ObjectInverse(c, n)
      [] OTHER -> Unexpected(c, n)

PropertyIri(c, n) == EntityIri(c, IF Tag(c, n) = "Entity" THEN n ELSE Ref(c, n, 1))

ObjectPropertyChain(c, n) ==
    Exact(c, n, 1) && NodeSequence(c, n, 1, 2) && Each(c, n, 1, ObjectPropertyExpression)

ClassReference(c, n) ==
    IF Tag(c, n) = "Entity" THEN NamedClass(c, n) ELSE Need(Tag(c, n) \in ClassExpressionTags)

\* A cardinality restriction has its bound in front of the property.
PropertyField(c, n) ==
    IF Tag(c, n) \in {"ObjectSomeValuesFrom", "ObjectAllValuesFrom"} THEN 1 ELSE 2

Restriction(c, n) ==
    LET p == PropertyField(c, n)
    IN  (IF Tag(c, n) \in RestrictionTags
         THEN Exact(c, n, p + 1) && (IF p = 1 THEN "ok" ELSE CanonicalInteger(c, n, 1))
         ELSE Unexpected(c, n))
        && ObjectPropertyExpression(c, Ref(c, n, p)) && ClassReference(c, Ref(c, n, p + 1))

DataClass(c, n) ==
    CASE Tag(c, n) \in {"DataSomeValuesFrom", "DataAllValuesFrom"} ->
            Exact(c, n, 2) && NodeSequence(c, n, 1, 1) && Each(c, n, 1, NamedDataProperty)
            && DataRange(c, Ref(c, n, 2))
      [] Tag(c, n) = "DataHasValue" ->
            Exact(c, n, 2) && NamedDataProperty(c, Ref(c, n, 1)) && Literal(c, Ref(c, n, 2))
      [] OTHER ->
            Exact(c, n, 3) && CanonicalInteger(c, n, 1) && NamedDataProperty(c, Ref(c, n, 2))
            && DataRange(c, Ref(c, n, 3))

Nonprojecting(c, n) ==
    CASE Tag(c, n) = "ObjectOneOf" -> Exact(c, n, 1) && NodeSet(c, n, 1, 1) && Each(c, n, 1, Individual)
      [] Tag(c, n) = "ObjectHasValue" ->
            Exact(c, n, 2) && ObjectPropertyExpression(c, Ref(c, n, 1)) && Individual(c, Ref(c, n, 2))
      [] Tag(c, n) = "ObjectHasSelf" -> Exact(c, n, 1) && ObjectPropertyExpression(c, Ref(c, n, 1))
      [] Tag(c, n) = "ObjectExactCardinality" ->
            Exact(c, n, 3) && CanonicalInteger(c, n, 1)
            && ObjectPropertyExpression(c, Ref(c, n, 2)) && ClassReference(c, Ref(c, n, 3))
      [] Tag(c, n) \in DataClassTags -> DataClass(c, n)
      [] Tag(c, n) = "ObjectComplementOf" -> Exact(c, n, 1) && ClassReference(c, Ref(c, n, 1))
      [] OTHER -> Unexpected(c, n)

\* An operand that is itself an aggregate is only compared by tag.
AggregateOperand(c, n, own) ==
    CASE Tag(c, n) = "Entity" -> NamedClass(c, n)
      [] Tag(c, n) \in RestrictionTags -> Restriction(c, n)
      [] Tag(c, n) \in NonprojectingTags -> Nonprojecting(c, n)
      [] Tag(c, n) \in AggregateTags -> Need(Tag(c, n) # own)
      [] OTHER -> Unexpected(c, n)

Aggregate(c, n) ==
    Exact(c, n, 1) && NodeSet(c, n, 1, 2)
    && Each(c, n, 1, LAMBDA t, m : AggregateOperand(t, m, Tag(t, n)))

\* class_expression_rank as a check, and the rank it returns.
ClassExpression(c, n) ==
    CASE Tag(c, n) = "Entity" -> NamedClass(c, n)
      [] Tag(c, n) \in AggregateTags -> Aggregate(c, n)
      [] Tag(c, n) \in RestrictionTags -> Restriction(c, n)
      [] OTHER -> Nonprojecting(c, n)

Rank(c, n) ==
    CASE Tag(c, n) = "Entity" -> 1001
      [] Tag(c, n) = "ObjectIntersectionOf" -> 3001
      [] Tag(c, n) = "ObjectUnionOf" -> 3002
      [] Tag(c, n) = "ObjectSomeValuesFrom" -> 3005
      [] Tag(c, n) = "ObjectAllValuesFrom" -> 3006
      [] Tag(c, n) = "ObjectMinCardinality" -> 3008
      [] Tag(c, n) = "ObjectMaxCardinality" -> 3010
      [] OTHER -> 3999

-----------------------------------------------------------------------------
(* Class axioms.                                                           *)

IsClassTag(c, n) == Tag(c, n) \in ClassExpressionTags

\* The checks of the class expressions of a table, by node: class_expression_rank
\* and validate_ignored_subclass_operand, which accepts the same expressions.
ClassVerdicts(c) == Tabulated([m \in 0 .. NodeCount(c) |-> ClassExpression(c, m)])

\* Named taxonomy, a restriction on either side, or an ignored shape.
SubclassOperands(c, sub, sup, class) ==
    Need(sub # 0 /\ sup # 0)
    && (CASE Tag(c, sub) = "Entity" /\ Tag(c, sup) = "Entity" ->
               NamedClass(c, sub) && NamedClass(c, sup)
          [] Tag(c, sub) = "Entity" /\ Tag(c, sup) \in RestrictionTags ->
               NamedClass(c, sub) && Restriction(c, sup)
          [] Tag(c, sub) \in RestrictionTags /\ Tag(c, sup) = "Entity" ->
               NamedClass(c, sup) && Restriction(c, sub)
          [] OTHER -> IF IsClassTag(c, sub) \/ IsClassTag(c, sup)
                      THEN class[sub] && class[sup]
                      ELSE "unsupported")

SubClassOf(c, n, class) ==
    Exact(c, n, 3) && SubclassOperands(c, Ref(c, n, 1), Ref(c, n, 2), class) && AnnotationSet(c, n, 3)

\* Mutant: a set of one class is enough.
ClassSetShort(c, n, i, class) == NodeSet(c, n, i, 1) && FirstError(Items(c, n, i), LAMBDA m : class[m])

ClassSet(c, n, i, class) == NodeSet(c, n, i, 2) && FirstError(Items(c, n, i), LAMBDA m : class[m])

\* EquivalentClasses and DisjointClasses.
ClassSetAxiom(c, n, class) == Exact(c, n, 2) && ClassSet(c, n, 1, class) && AnnotationSet(c, n, 2)

DisjointUnion(c, n, class) ==
    Exact(c, n, 3) && NamedClass(c, Ref(c, n, 1)) && ClassSet(c, n, 2, class) && AnnotationSet(c, n, 3)

ClassAssertion(c, n, class) ==
    LET cls == Ref(c, n, 1)  ind == Ref(c, n, 2)
    IN  Exact(c, n, 3) && Need(cls # 0 /\ ind # 0)
        && (IF Tag(c, cls) = "Entity" \/ IsClassTag(c, cls)
            THEN class[cls] ELSE "unsupported")
        && Individual(c, ind) && AnnotationSet(c, n, 3)

HasKey(c, n, class) ==
    Exact(c, n, 4) && class[Ref(c, n, 1)]
    && NodeSet(c, n, 2, 0) && Each(c, n, 2, ObjectPropertyExpression)
    && NodeSet(c, n, 3, 0) && Each(c, n, 3, NamedDataProperty)
    && Need(Items(c, n, 2) # <<>> \/ Items(c, n, 3) # <<>>) && AnnotationSet(c, n, 4)

Declaration(c, n) == Exact(c, n, 2) && Entity(c, Ref(c, n, 1)) && AnnotationSet(c, n, 2)

-----------------------------------------------------------------------------
(* Property axioms and assertions.                                         *)

\* SubObjectPropertyOf, where the sub-property may be a chain.
SubObjectPropertyOf(c, n) ==
    Exact(c, n, 3)
    && (IF Tag(c, Ref(c, n, 1)) = "ObjectPropertyChain" THEN ObjectPropertyChain(c, Ref(c, n, 1))
        ELSE ObjectPropertyExpression(c, Ref(c, n, 1)))
    && ObjectPropertyExpression(c, Ref(c, n, 2)) && AnnotationSetHash(c, n, 3)

\* role_axiom_parts: InverseObjectProperties, and the rows of the role state.
RoleAxiomParts(c, n) ==
    Exact(c, n, 3) && ObjectPropertyExpression(c, Ref(c, n, 1))
    && ObjectPropertyExpression(c, Ref(c, n, 2)) && AnnotationSetHash(c, n, 3)

ObjectPropertySet(c, n) ==
    Exact(c, n, 2) && NodeSet(c, n, 1, 2) && Each(c, n, 1, ObjectPropertyExpression)
    && AnnotationSet(c, n, 2)

ObjectPropertyCharacteristic(c, n) ==
    Exact(c, n, 2) && ObjectPropertyExpression(c, Ref(c, n, 1)) && AnnotationSet(c, n, 2)

\* ObjectPropertyDomain and ObjectPropertyRange.
ObjectPropertyClass(c, n, class) ==
    Exact(c, n, 3) && ObjectPropertyExpression(c, Ref(c, n, 1))
    && class[Ref(c, n, 2)] && AnnotationSet(c, n, 3)

\* An inverse property is well formed and still refused: the pinned mOWL
\* profile fails on it.
ObjectPropertyAssertion(c, n) ==
    LET p == Ref(c, n, 1)
    IN  Exact(c, n, 4) && Need(p # 0)
        && (CASE Tag(c, p) = "Entity" -> Named(c, p, "object_property")
              [] Tag(c, p) = "ObjectInverseOf" -> ObjectInverse(c, p) && "reference_failure"
              [] OTHER -> "unsupported")
        && Individual(c, Ref(c, n, 2)) && Individual(c, Ref(c, n, 3)) && AnnotationSet(c, n, 4)

NegativeObjectPropertyAssertion(c, n) ==
    Exact(c, n, 4) && ObjectPropertyExpression(c, Ref(c, n, 1))
    && Individual(c, Ref(c, n, 2)) && Individual(c, Ref(c, n, 3)) && AnnotationSet(c, n, 4)

BinaryDataProperty(c, n) ==
    Exact(c, n, 3) && NamedDataProperty(c, Ref(c, n, 1)) && NamedDataProperty(c, Ref(c, n, 2))
    && AnnotationSet(c, n, 3)

DataPropertySet(c, n) ==
    Exact(c, n, 2) && NodeSet(c, n, 1, 2) && Each(c, n, 1, NamedDataProperty)
    && AnnotationSet(c, n, 2)

DataPropertyDomain(c, n, class) ==
    Exact(c, n, 3) && NamedDataProperty(c, Ref(c, n, 1)) && class[Ref(c, n, 2)]
    && AnnotationSet(c, n, 3)

DataPropertyRange(c, n) ==
    Exact(c, n, 3) && NamedDataProperty(c, Ref(c, n, 1)) && DataRange(c, Ref(c, n, 2))
    && AnnotationSet(c, n, 3)

FunctionalDataProperty(c, n) ==
    Exact(c, n, 2) && NamedDataProperty(c, Ref(c, n, 1)) && AnnotationSet(c, n, 2)

DatatypeDefinition(c, n) ==
    Exact(c, n, 3) && Named(c, Ref(c, n, 1), "datatype") && DataRange(c, Ref(c, n, 2))
    && AnnotationSet(c, n, 3)

DataPropertyAssertion(c, n) ==
    Exact(c, n, 4) && NamedDataProperty(c, Ref(c, n, 1)) && Individual(c, Ref(c, n, 2))
    && Literal(c, Ref(c, n, 3)) && AnnotationSet(c, n, 4)

IndividualSet(c, n) ==
    Exact(c, n, 2) && NodeSet(c, n, 1, 2) && Each(c, n, 1, Individual) && AnnotationSet(c, n, 2)

-----------------------------------------------------------------------------
(* SWRL rules.                                                             *)

Variable(c, n) == Need(Tag(c, n) = "Variable") && Exact(c, n, 1) && Iri(c, Ref(c, n, 1))

SwrlIndividual(c, n) == IF Tag(c, n) = "Variable" THEN Variable(c, n) ELSE Individual(c, n)

SwrlData(c, n) ==
    CASE Tag(c, n) = "Variable" -> Variable(c, n)
      [] Tag(c, n) = "Literal" -> Literal(c, n)
      [] OTHER -> "malformed"

SwrlAtom(c, n, class) ==
    CASE Tag(c, n) = "ClassAtom" ->
            Exact(c, n, 2) && class[Ref(c, n, 1)] && SwrlIndividual(c, Ref(c, n, 2))
      [] Tag(c, n) = "DataRangeAtom" ->
            Exact(c, n, 2) && DataRange(c, Ref(c, n, 1)) && SwrlData(c, Ref(c, n, 2))
      [] Tag(c, n) = "ObjectPropertyAtom" ->
            Exact(c, n, 3) && ObjectPropertyExpression(c, Ref(c, n, 1))
            && SwrlIndividual(c, Ref(c, n, 2)) && SwrlIndividual(c, Ref(c, n, 3))
      [] Tag(c, n) = "DataPropertyAtom" ->
            Exact(c, n, 3) && NamedDataProperty(c, Ref(c, n, 1))
            && SwrlIndividual(c, Ref(c, n, 2)) && SwrlData(c, Ref(c, n, 3))
      [] Tag(c, n) = "BuiltInAtom" ->
            Exact(c, n, 2) && Iri(c, Ref(c, n, 1)) && NodeSequence(c, n, 2, 0)
            && Each(c, n, 2, SwrlData)
      [] OTHER -> Exact(c, n, 2) && SwrlIndividual(c, Ref(c, n, 1)) && SwrlIndividual(c, Ref(c, n, 2))

SwrlRule(c, n) ==
    LET atoms(i) == NodeSet(c, n, i, 0)
                    && Each(c, n, i, LAMBDA t, m : Need(Tag(t, m) \in SwrlAtomTags))
    IN  Exact(c, n, 3) && atoms(1) && atoms(2) && AnnotationSet(c, n, 3)

-----------------------------------------------------------------------------
(* The dispatch of validate_supported_nodes.                               *)

ValidateExpression(c, n, class) ==
    LET t == Tag(c, n)
    IN  CASE t = "IRI" -> Iri(c, n)
          [] t = "Entity" -> Entity(c, n) && Iri(c, Ref(c, n, 2))
          [] t = "AnonymousIndividual" -> Anonymous(c, n)
          [] t = "Literal" -> Literal(c, n)
          [] t = "Annotation" -> Annotation(c, n)
          [] t = "ObjectInverseOf" -> ObjectInverse(c, n)
          [] t = "ObjectPropertyChain" -> ObjectPropertyChain(c, n)
          [] t = "FacetRestriction" -> FacetRestriction(c, n)
          [] t \in DataRangeTags -> DataRange(c, n)
          [] t \in ClassExpressionTags -> class[n]
          [] t = "Variable" -> Variable(c, n)
          [] t \in SwrlAtomTags -> SwrlAtom(c, n, class)

ValidateAxiom(c, n, class) ==
    LET t == Tag(c, n)
    IN  CASE t = "Declaration" -> Declaration(c, n)
          [] t = "SubClassOf" -> SubClassOf(c, n, class)
          [] t \in {"EquivalentClasses", "DisjointClasses"} -> ClassSetAxiom(c, n, class)
          [] t = "DisjointUnion" -> DisjointUnion(c, n, class)
          [] t = "HasKey" -> HasKey(c, n, class)
          [] t = "ClassAssertion" -> ClassAssertion(c, n, class)
          [] t = "SubObjectPropertyOf" -> SubObjectPropertyOf(c, n)
          [] t = "InverseObjectProperties" -> RoleAxiomParts(c, n)
          [] t \in {"EquivalentObjectProperties", "DisjointObjectProperties"} -> ObjectPropertySet(c, n)
          [] t \in {"ObjectPropertyDomain", "ObjectPropertyRange"} -> ObjectPropertyClass(c, n, class)
          [] t \in CharacteristicTags -> ObjectPropertyCharacteristic(c, n)
          [] t = "ObjectPropertyAssertion" -> ObjectPropertyAssertion(c, n)
          [] t = "NegativeObjectPropertyAssertion" -> NegativeObjectPropertyAssertion(c, n)
          [] t = "SubDataPropertyOf" -> BinaryDataProperty(c, n)
          [] t \in {"EquivalentDataProperties", "DisjointDataProperties"} -> DataPropertySet(c, n)
          [] t = "DataPropertyDomain" -> DataPropertyDomain(c, n, class)
          [] t = "DataPropertyRange" -> DataPropertyRange(c, n)
          [] t = "FunctionalDataProperty" -> FunctionalDataProperty(c, n)
          [] t = "DatatypeDefinition" -> DatatypeDefinition(c, n)
          [] t \in {"DataPropertyAssertion", "NegativeDataPropertyAssertion"} -> DataPropertyAssertion(c, n)
          [] t \in {"SameIndividual", "DifferentIndividuals"} -> IndividualSet(c, n)
          [] t = "AnnotationAssertion" -> AnnotationAssertion(c, n)
          [] t = "SubAnnotationPropertyOf" -> SubAnnotationPropertyOf(c, n)
          [] t \in {"AnnotationPropertyDomain", "AnnotationPropertyRange"} -> AnnotationPropertyIri(c, n)
          [] t = "SWRLRule" -> SwrlRule(c, n)
          [] OTHER -> Unexpected(c, n)

AxiomTags == ClassAxiomTags \cup PropertyAxiomTags \cup OtherAxiomTags \cup {"SWRLRule"}

ValidateNode(c, n, class) ==
    IF Tag(c, n) \in SchemaTags \ AxiomTags THEN ValidateExpression(c, n, class)
    ELSE ValidateAxiom(c, n, class)

\* validate_supported_nodes up to its walks.
CheckEach(c, class) == FirstError([n \in Nodes(c) |-> n], LAMBDA n : ValidateNode(c, n, class))

ValidateNodes(c) ==
    CheckEach(c, ClassVerdicts(c))

=============================================================================
