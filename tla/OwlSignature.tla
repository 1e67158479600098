---------------------------- MODULE OwlSignature ----------------------------
(***************************************************************************)
(* A reference grammar for structural tables: the OWL 2 structural          *)
(* specification as one table of signatures, against which the scattered    *)
(* checks of the native compiler are compared.  An argument is a single     *)
(* node, a canonical set or a sequence with a least number of members.      *)
(***************************************************************************)
EXTENDS NodeGrammar

One(sort) == [kind |-> "node", sort |-> sort, least |-> 1]
Many(sort, least) == [kind |-> "set", sort |-> sort, least |-> least]
List(sort, least) == [kind |-> "sequence", sort |-> sort, least |-> least]
Data(kind) == [kind |-> kind, sort |-> "data", least |-> 0]

Annotations == Many("annotation", 0)

IsEntity(c, n, kind) == Tag(c, n) = "Entity" /\ EntityKind(c, n) = kind

HasSort(c, n, sort) ==
    CASE sort = "iri" -> Tag(c, n) = "IRI"
      [] sort = "entity" -> Tag(c, n) = "Entity"
      [] sort \in EntityKinds -> IsEntity(c, n, sort)
      [] sort = "class expression" -> IsEntity(c, n, "class") \/ Tag(c, n) \in ClassExpressionTags
      [] sort = "property" -> IsEntity(c, n, "object_property") \/ Tag(c, n) = "ObjectInverseOf"
      [] sort = "sub-property" ->
            IsEntity(c, n, "object_property") \/ Tag(c, n) \in {"ObjectInverseOf", "ObjectPropertyChain"}
      [] sort = "data range" -> IsEntity(c, n, "datatype") \/ Tag(c, n) \in DataRangeTags
      [] sort = "individual" -> IsEntity(c, n, "named_individual") \/ Tag(c, n) = "AnonymousIndividual"
      [] sort = "literal" -> Tag(c, n) = "Literal"
      [] sort = "facet" -> Tag(c, n) = "FacetRestriction"
      [] sort = "annotation" -> Tag(c, n) = "Annotation"
      [] sort = "subject" -> Tag(c, n) \in {"IRI", "AnonymousIndividual"}
      [] sort = "value" -> Tag(c, n) \in {"IRI", "AnonymousIndividual", "Literal"}
      [] sort = "atom" -> Tag(c, n) \in SwrlAtomTags
      [] sort = "individual argument" ->
            IsEntity(c, n, "named_individual") \/ Tag(c, n) \in {"AnonymousIndividual", "Variable"}
      [] sort = "data argument" -> Tag(c, n) \in {"Literal", "Variable"}

ExpressionSignature(t) ==
    CASE t = "IRI" -> <<Data("text")>>
      [] t = "Entity" -> <<Data("enum"), One("iri")>>
      [] t = "AnonymousIndividual" -> <<Data("bytes"), Data("bytes")>>
      [] t = "Annotation" -> <<One("annotation_property"), One("value"), Annotations>>
      [] t = "ObjectInverseOf" -> <<One("object_property")>>
      [] t = "ObjectPropertyChain" -> <<List("property", 2)>>
      [] t = "FacetRestriction" -> <<One("iri"), One("literal")>>
      [] t \in {"DataIntersectionOf", "DataUnionOf"} -> <<Many("data range", 2)>>
      [] t = "DataComplementOf" -> <<One("data range")>>
      [] t = "DataOneOf" -> <<Many("literal", 1)>>
      [] t = "DatatypeRestriction" -> <<One("datatype"), Many("facet", 1)>>
      [] t \in AggregateTags -> <<Many("class expression", 2)>>
      [] t = "ObjectComplementOf" -> <<One("class expression")>>
      [] t = "ObjectOneOf" -> <<Many("individual", 1)>>
      [] t \in {"ObjectSomeValuesFrom", "ObjectAllValuesFrom"} -> <<One("property"), One("class expression")>>
      [] t = "ObjectHasValue" -> <<One("property"), One("individual")>>
      [] t = "ObjectHasSelf" -> <<One("property")>>
      [] t \in {"ObjectMinCardinality", "ObjectMaxCardinality", "ObjectExactCardinality"} ->
            <<Data("integer"), One("property"), One("class expression")>>
      [] t \in {"DataSomeValuesFrom", "DataAllValuesFrom"} -> <<List("data_property", 1), One("data range")>>
      [] t = "DataHasValue" -> <<One("data_property"), One("literal")>>
      [] t \in {"DataMinCardinality", "DataMaxCardinality", "DataExactCardinality"} ->
            <<Data("integer"), One("data_property"), One("data range")>>
      [] t = "Variable" -> <<One("iri")>>
      [] t = "ClassAtom" -> <<One("class expression"), One("individual argument")>>
      [] t = "DataRangeAtom" -> <<One("data range"), One("data argument")>>
      [] t = "ObjectPropertyAtom" -> <<One("property"), One("individual argument"), One("individual argument")>>
      [] t = "DataPropertyAtom" -> <<One("data_property"), One("individual argument"), One("data argument")>>
      [] t = "BuiltInAtom" -> <<One("iri"), List("data argument", 0)>>
      [] t \in {"SameIndividualAtom", "DifferentIndividualsAtom"} ->
            <<One("individual argument"), One("individual argument")>>

AxiomSignature(t) ==
    CASE t = "Declaration" -> <<One("entity"), Annotations>>
      [] t = "SubClassOf" -> <<One("class expression"), One("class expression"), Annotations>>
      [] t \in {"EquivalentClasses", "DisjointClasses"} -> <<Many("class expression", 2), Annotations>>
      [] t = "DisjointUnion" -> <<One("class"), Many("class expression", 2), Annotations>>
      [] t = "HasKey" -> <<One("class expression"), Many("property", 0), Many("data_property", 0), Annotations>>
      [] t = "SubObjectPropertyOf" -> <<One("sub-property"), One("property"), Annotations>>
      [] t = "InverseObjectProperties" -> <<One("property"), One("property"), Annotations>>
      [] t \in {"EquivalentObjectProperties", "DisjointObjectProperties"} -> <<Many("property", 2), Annotations>>
      [] t \in {"ObjectPropertyDomain", "ObjectPropertyRange"} ->
            <<One("property"), One("class expression"), Annotations>>
      [] t \in CharacteristicTags -> <<One("property"), Annotations>>
      [] t = "SubDataPropertyOf" -> <<One("data_property"), One("data_property"), Annotations>>
      [] t \in {"EquivalentDataProperties", "DisjointDataProperties"} -> <<Many("data_property", 2), Annotations>>
      [] t = "DataPropertyDomain" -> <<One("data_property"), One("class expression"), Annotations>>
      [] t = "DataPropertyRange" -> <<One("data_property"), One("data range"), Annotations>>
      [] t = "FunctionalDataProperty" -> <<One("data_property"), Annotations>>
      [] t = "DatatypeDefinition" -> <<One("datatype"), One("data range"), Annotations>>
      [] t \in {"SameIndividual", "DifferentIndividuals"} -> <<Many("individual", 2), Annotations>>
      [] t = "ClassAssertion" -> <<One("class expression"), One("individual"), Annotations>>
      [] t \in {"ObjectPropertyAssertion", "NegativeObjectPropertyAssertion"} ->
            <<One("property"), One("individual"), One("individual"), Annotations>>
      [] t \in {"DataPropertyAssertion", "NegativeDataPropertyAssertion"} ->
            <<One("data_property"), One("individual"), One("literal"), Annotations>>
      [] t = "AnnotationAssertion" -> <<One("annotation_property"), One("subject"), One("value"), Annotations>>
      [] t = "SubAnnotationPropertyOf" -> <<One("annotation_property"), One("annotation_property"), Annotations>>
      [] t \in {"AnnotationPropertyDomain", "AnnotationPropertyRange"} ->
            <<One("annotation_property"), One("iri"), Annotations>>
      [] t = "SWRLRule" -> <<Many("atom", 0), Many("atom", 0), Annotations>>

Signature(t) == IF t \in AxiomTags THEN AxiomSignature(t) ELSE ExpressionSignature(t)

ArgumentFits(c, n, i, arg) ==
    LET f == Field(c, n, i)
    IN  /\ c.fkind[f] = arg.kind
        /\ arg.kind = "node" => HasSort(c, c.fval[f], arg.sort)
        /\ arg.kind \in {"set", "sequence"} =>
              /\ c.flen[f] >= arg.least
              /\ \A k \in ItemIndexes(c, f) : HasSort(c, c.ival[k], arg.sort)

\* A literal is text, a datatype and an optional language.
Conforms(c, n) ==
    LET t == Tag(c, n)  arity == Cardinality(FieldsOf(c, n))
    IN  IF t = "Literal"
        THEN /\ arity = 3 /\ ArgumentFits(c, n, 1, Data("text")) /\ ArgumentFits(c, n, 2, One("datatype"))
             /\ c.fkind[Field(c, n, 3)] \in {"none", "text"}
        ELSE /\ t \in SchemaTags
             /\ arity = Len(Signature(t))
             /\ \A i \in 1 .. arity : ArgumentFits(c, n, i, Signature(t)[i])

\* What the encoding demands beyond the signatures: minimal integers, nested
\* aggregates merged, a key with a property, a language only on plain text.
Canonical(c, n) ==
    LET t == Tag(c, n)
    IN  /\ t \in AggregateTags \cup {"DataIntersectionOf", "DataUnionOf"} =>
              \A m \in ToSet(Items(c, n, 1)) : Tag(c, m) # t
        /\ \A i \in 1 .. Cardinality(FieldsOf(c, n)) :
              c.fkind[Field(c, n, i)] = "integer" => CanonicalInteger(c, n, i) = "ok"
        /\ t = "HasKey" => Items(c, n, 2) # <<>> \/ Items(c, n, 3) # <<>>
        /\ t = "Literal" => c.fkind[Field(c, n, 3)] = "none" \/ Datatype(c, n) = <<"plain">>
=============================================================================
