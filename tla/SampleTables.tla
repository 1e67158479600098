---------------------------- MODULE SampleTables ----------------------------
(***************************************************************************)
(* Structural tables for model checking.  Encode lays a sequence of nodes   *)
(* out in columns the way the encoder of the Python side does: fields,      *)
(* items and scalars in node order without gaps.  The tables start with a   *)
(* common vocabulary of leaves (nodes 1 to 17) on which every constructor   *)
(* of the grammar has a sample.                                             *)
(***************************************************************************)
EXTENDS NodeGrammar

\* A field: its kind, the nodes it refers to, its bytes.
F(kind, xs, txt) == [k |-> kind, ids |-> xs, txt |-> txt]
N(n) == F("node", <<n>>, <<>>)
S(ns) == F("set", ns, <<>>)
Q(ns) == F("sequence", ns, <<>>)
Text(t) == F("text", <<>>, <<t>>)
Bytes(t) == F("bytes", <<>>, <<t>>)
Enum(t) == F("enum", <<>>, <<t>>)
Whole(t) == F("integer", <<>>, <<t>>)
None == F("none", <<>>, <<>>)

PrefixSums(s, W(_)) ==
    LET sum[from \in 0 .. Len(s), to \in 0 .. Len(s)] ==
            IF to = from THEN 0
            ELSE IF to = from + 1 THEN W(s[to])
            ELSE LET half == (from + to) \div 2 IN sum[from, half] + sum[half, to]
    IN  [i \in 1 .. Len(s) + 1 |-> sum[0, i - 1]]

ItemsIn(f) == IF f.k \in {"set", "sequence"} THEN f.ids ELSE <<>>

Encode(nodes, roots) ==
    LET fields == Joined([n \in DOMAIN nodes |-> nodes[n][2]])
        items  == Joined([f \in DOMAIN fields |-> ItemsIn(fields[f])])
        start  == PrefixSums(fields, LAMBDA f : Len(ItemsIn(f)))
        byte   == PrefixSums(fields, LAMBDA f : Len(f.txt))
    IN  [rootKind |-> [i \in DOMAIN roots |-> roots[i][1]],
         rootId |-> [i \in DOMAIN roots |-> roots[i][2]],
         included |-> <<>>, excluded |-> <<>>, scopeMaps |-> <<>>,
         tag |-> [n \in DOMAIN nodes |-> nodes[n][1]],
         offset |-> PrefixSums(nodes, LAMBDA x : Len(x[2])),
         fkind |-> [f \in DOMAIN fields |-> fields[f].k],
         fval |-> [f \in DOMAIN fields |->
                     CASE fields[f].k = "node" -> fields[f].ids[1]
                       [] fields[f].k \in {"set", "sequence"} -> start[f]
                       [] fields[f].k = "none" -> 0
                       [] OTHER -> byte[f]],
         flen |-> [f \in DOMAIN fields |-> Len(ItemsIn(fields[f])) + Len(fields[f].txt)],
         ikind |-> [i \in DOMAIN items |-> "node"],
         ival |-> items,
         ilen |-> [i \in DOMAIN items |-> 0],
         arena |-> Joined([f \in DOMAIN fields |-> fields[f].txt])]

IriNode(t) == <<"IRI", <<Text(t)>>>>
EntityNode(kind, iri) == <<"Entity", <<Enum(kind), N(iri)>>>>

\* Classes A, B (8, 9), object property r (10), data property q (11), datatype
\* (12), individual i (13), annotation property p (14), an anonymous
\* individual (15), a literal (16), an annotation (17).
Vocabulary ==
    <<IriNode("A"), IriNode("B"), IriNode("r"), IriNode("q"), IriNode("string"), IriNode("i"),
      IriNode("label"), EntityNode("class", 1), EntityNode("class", 2),
      EntityNode("object_property", 3), EntityNode("data_property", 4), EntityNode("datatype", 5),
      EntityNode("named_individual", 6), EntityNode("annotation_property", 7),
      <<"AnonymousIndividual", <<Bytes("s1"), Bytes("k1")>>>>,
      <<"Literal", <<Text("x"), N(12), None>>>>,
      <<"Annotation", <<N(14), N(16), S(<<>>)>>>> >>

\* One well-formed node per expression constructor.
ExpressionSamples ==
    {<<"ObjectInverseOf", <<N(10)>>>>, <<"ObjectPropertyChain", <<Q(<<10, 10>>)>>>>,
     <<"FacetRestriction", <<N(1), N(16)>>>>, <<"DataOneOf", <<S(<<16>>)>>>>,
     <<"DataComplementOf", <<N(12)>>>>, <<"ObjectComplementOf", <<N(8)>>>>,
     <<"ObjectIntersectionOf", <<S(<<8, 9>>)>>>>, <<"ObjectUnionOf", <<S(<<8, 9>>)>>>>,
     <<"ObjectOneOf", <<S(<<13, 15>>)>>>>, <<"ObjectSomeValuesFrom", <<N(10), N(8)>>>>,
     <<"ObjectAllValuesFrom", <<N(10), N(8)>>>>, <<"ObjectHasValue", <<N(10), N(13)>>>>,
     <<"ObjectHasSelf", <<N(10)>>>>, <<"ObjectMinCardinality", <<Whole("1"), N(10), N(8)>>>>,
     <<"ObjectMaxCardinality", <<Whole("1"), N(10), N(8)>>>>,
     <<"ObjectExactCardinality", <<Whole("0"), N(10), N(8)>>>>,
     <<"DataSomeValuesFrom", <<Q(<<11>>), N(12)>>>>, <<"DataAllValuesFrom", <<Q(<<11>>), N(12)>>>>,
     <<"DataHasValue", <<N(11), N(16)>>>>, <<"DataMinCardinality", <<Whole("1"), N(11), N(12)>>>>,
     <<"DataMaxCardinality", <<Whole("1"), N(11), N(12)>>>>,
     <<"DataExactCardinality", <<Whole("1"), N(11), N(12)>>>>,
     <<"Literal", <<Text("x"), N(12), None>>>>, <<"Annotation", <<N(14), N(1), S(<<17>>)>>>>,
     <<"Variable", <<N(1)>>>>, <<"ClassAtom", <<N(8), N(13)>>>>,
     <<"DataRangeAtom", <<N(12), N(16)>>>>, <<"ObjectPropertyAtom", <<N(10), N(13), N(15)>>>>,
     <<"DataPropertyAtom", <<N(11), N(13), N(16)>>>>, <<"BuiltInAtom", <<N(1), Q(<<16>>)>>>>,
     <<"SameIndividualAtom", <<N(13), N(15)>>>>, <<"DifferentIndividualsAtom", <<N(13), N(15)>>>>}

\* One well-formed node per axiom constructor.
AxiomSamples ==
    {<<"Declaration", <<N(8), S(<<17>>)>>>>, <<"SubClassOf", <<N(8), N(9), S(<<>>)>>>>,
     <<"EquivalentClasses", <<S(<<8, 9>>), S(<<>>)>>>>, <<"DisjointClasses", <<S(<<8, 9>>), S(<<>>)>>>>,
     <<"DisjointUnion", <<N(8), S(<<8, 9>>), S(<<>>)>>>>,
     <<"HasKey", <<N(8), S(<<10>>), S(<<11>>), S(<<>>)>>>>,
     <<"SubObjectPropertyOf", <<N(10), N(10), S(<<17>>)>>>>,
     <<"InverseObjectProperties", <<N(10), N(10), S(<<17>>)>>>>,
     <<"ObjectPropertyDomain", <<N(10), N(8), S(<<>>)>>>>,
     <<"ObjectPropertyRange", <<N(10), N(8), S(<<>>)>>>>,
     <<"SubDataPropertyOf", <<N(11), N(11), S(<<>>)>>>>,
     <<"DataPropertyDomain", <<N(11), N(8), S(<<>>)>>>>,
     <<"DataPropertyRange", <<N(11), N(12), S(<<>>)>>>>,
     <<"FunctionalDataProperty", <<N(11), S(<<>>)>>>>,
     <<"DatatypeDefinition", <<N(12), N(12), S(<<>>)>>>>,
     <<"SameIndividual", <<S(<<13, 15>>), S(<<>>)>>>>,
     <<"DifferentIndividuals", <<S(<<13, 15>>), S(<<>>)>>>>,
     <<"ClassAssertion", <<N(8), N(13), S(<<>>)>>>>,
     <<"ObjectPropertyAssertion", <<N(10), N(13), N(15), S(<<>>)>>>>,
     <<"NegativeObjectPropertyAssertion", <<N(10), N(13), N(15), S(<<>>)>>>>,
     <<"DataPropertyAssertion", <<N(11), N(13), N(16), S(<<>>)>>>>,
     <<"NegativeDataPropertyAssertion", <<N(11), N(13), N(16), S(<<>>)>>>>,
     <<"AnnotationAssertion", <<N(14), N(1), N(16), S(<<>>)>>>>,
     <<"SubAnnotationPropertyOf", <<N(14), N(14), S(<<>>)>>>>,
     <<"AnnotationPropertyDomain", <<N(14), N(1), S(<<>>)>>>>,
     <<"AnnotationPropertyRange", <<N(14), N(1), S(<<>>)>>>>,
     <<"SWRLRule", <<S(<<>>), S(<<>>), S(<<>>)>>>>}
    \cup {<<t, <<N(10), S(<<>>)>>>> : t \in CharacteristicTags}
    \cup {<<t, <<S(<<10, 18>>), S(<<>>)>>>> : t \in {"EquivalentObjectProperties", "DisjointObjectProperties"}}

\* A sample with one field replaced: another node, a shorter or a longer set.
Variants(x) ==
    LET subst(i) == CASE x[2][i].k = "node" -> {N(n) : n \in 1 .. 18}
                      [] x[2][i].k = "set" -> {S(s) : s \in {<<>>, <<8>>, <<8, 9>>, <<9, 8>>, <<13, 15>>, <<16>>, <<17>>, <<18, 19>>}}
                      [] x[2][i].k = "sequence" -> {Q(s) : s \in {<<>>, <<10>>, <<10, 18>>, <<11>>, <<16, 16>>}}
                      [] x[2][i].k = "integer" -> {F("integer", <<>>, s) : s \in {<<>>, <<"1", "0">>, <<"0", "1">>}}
                      [] OTHER -> {None}
    IN  {<<x[1], [x[2] EXCEPT ![i] = f]>> : <<i, f>> \in
            UNION {{<<i, f>> : f \in subst(i)} : i \in DOMAIN x[2]}}
        \cup {<<x[1], Front(x[2])>>, <<"Unknown", x[2]>>}

RootKind(tag) ==
    CASE tag = "Annotation" -> 1 [] tag \in SwrlAtomTags \cup {"SWRLRule"} -> 3 [] OTHER -> 2

\* The vocabulary, an inverse property (18), and the node under test (19).
TableOf(x) ==
    Encode(Vocabulary \o <<<<"ObjectInverseOf", <<N(10)>>>>, x>>, <<<<RootKind(x[1]), 19>>>>)

SortNames == {<<"sort", x>> : x \in UNION {{s} \cup Variants(s) : s \in ExpressionSamples \cup AxiomSamples}}

-----------------------------------------------------------------------------
(* Graphs: three nested nodes whose children are chosen freely.            *)

ChildPairs == {<<8, 18>>, <<8, 19>>, <<8, 20>>, <<18, 19>>, <<18, 20>>, <<19, 20>>}

ClassNodes(tag) ==
    {<<"ObjectComplementOf", <<N(n)>>>> : n \in {8, 18, 19, 20}}
    \cup {<<tag, <<S(p)>>>> : p \in ChildPairs}
    \cup {<<"ObjectMinCardinality", <<Whole("1"), N(10), N(18)>>>>, <<"ObjectAllValuesFrom", <<N(10), N(20)>>>>}

DataNodes(tag) ==
    {<<"DataComplementOf", <<N(n)>>>> : n \in {12, 18, 19, 20}}
    \cup {<<tag, <<S(p)>>>> : p \in {<<12, 18>>, <<12, 20>>, <<18, 19>>, <<19, 20>>}}

Nested == {<<"Annotation", <<N(14), N(16), S(s)>>>> :
             s \in {<<>>, <<17>>, <<18>>, <<19>>, <<20>>, <<18, 19>>, <<19, 20>>, <<18, 20>>, <<18, 19, 20>>}}

GraphNames ==
    {<<"graph", x, y, z>> :
        x \in ClassNodes("ObjectIntersectionOf"), y \in ClassNodes("ObjectUnionOf"),
        z \in ClassNodes("ObjectIntersectionOf")}
    \cup {<<"graph", x, y, z>> :
             x \in DataNodes("DataIntersectionOf"), y \in DataNodes("DataUnionOf"),
             z \in DataNodes("DataIntersectionOf")}
    \cup {<<"graph", x, y, z>> : x \in Nested, y \in Nested, z \in Nested}

-----------------------------------------------------------------------------
(* Columns with one cell changed, and root selections.                     *)

PlainTable ==
    Encode(<<IriNode("A"), IriNode("B"), EntityNode("class", 1), EntityNode("class", 2),
             <<"SubClassOf", <<N(3), N(4), S(<<>>)>>>>, <<"SubClassOf", <<N(4), N(3), S(<<>>)>>>>,
             <<"EquivalentClasses", <<S(<<3, 4>>), S(<<>>)>>>> >>,
           <<<<2, 5>>, <<2, 6>>, <<2, 7>>>>)

NumberColumns == {"rootKind", "rootId", "offset", "fval", "flen", "ival", "ilen"}
Kinds == {"none", "node", "text", "enum", "set", "sequence", "other"}
Postings == {<<>>, <<1>>, <<2>>, <<3>>, <<1, 3>>, <<1, 2, 3>>, <<3, 1>>, <<2, 2>>, <<0>>, <<4>>}
ScopeMaps == {<<<<"s1", "s2">>>>, <<<<"s1", "s1">>>>, <<<<"s2", "s1">>, <<"s1", "s2">>>>}

CellNames ==
    UNION {{<<"shift", col, i, d>> : i \in DOMAIN PlainTable[col], d \in {-1, 1}} : col \in NumberColumns}
    \cup UNION {{<<"kind", col, i, k>> : i \in DOMAIN PlainTable[col], k \in Kinds} : col \in {"fkind", "ikind"}}
    \cup {<<"drop", col>> : col \in {"rootKind", "tag", "offset", "fkind", "flen", "ikind", "ival", "arena"}}
    \cup {<<"select", p, q>> : p \in Postings, q \in Postings}
    \cup {<<"scope", m>> : m \in ScopeMaps}

\* A negative cell cannot be encoded: such a shift leaves the cell alone.
TableNamed(x) ==
    CASE x[1] = "sort" -> TableOf(x[2])
      [] x[1] = "graph" -> Encode(Vocabulary \o Tail(x), <<>>)
      [] x[1] = "shift" -> [PlainTable EXCEPT ![x[2]] = [@ EXCEPT ![x[3]] = IF @ + x[4] < 0 THEN @ ELSE @ + x[4]]]
      [] x[1] = "kind" -> [PlainTable EXCEPT ![x[2]] = [@ EXCEPT ![x[3]] = x[4]]]
      [] x[1] = "drop" -> [PlainTable EXCEPT ![x[2]] = Front(@)]
      [] x[1] = "select" -> [PlainTable EXCEPT !.included = x[2], !.excluded = x[3]]
      [] x[1] = "scope" -> [PlainTable EXCEPT !.scopeMaps = <<x[2]>>]

TableNames == SortNames \cup GraphNames \cup CellNames
=============================================================================
