----------------------------- MODULE TermTables -----------------------------
(***************************************************************************)
(* Canonical tables from terms: a term is a constructor tag and its fields, *)
(* a node field or a collection holding terms.  TableOfTerms numbers the    *)
(* distinct subterms in the order of their encodings, as the encoder does.  *)
(***************************************************************************)
EXTENDS CanonicalBytes, SampleTables

IriTerm(t) == <<"IRI", <<Text(t)>>>>
EntityTerm(kind, t) == <<"Entity", <<Enum(kind), N(IriTerm(t))>>>>
Class(t) == EntityTerm("class", t)
Role(t) == EntityTerm("object_property", t)
Person(t) == EntityTerm("named_individual", t)
Blank(scope, key) == <<"AnonymousIndividual", <<Bytes(scope), Bytes(key)>>>>
Lit(t, d) == <<"Literal", <<Text(t), N(EntityTerm("datatype", d)), None>>>>
Some(r, x) == <<"ObjectSomeValuesFrom", <<N(r), N(x)>>>>
And(xs) == <<"ObjectIntersectionOf", <<S(xs)>>>>
Or(xs) == <<"ObjectUnionOf", <<S(xs)>>>>
Inv(r) == <<"ObjectInverseOf", <<N(r)>>>>

Unannotated(tag, fields) == <<2, <<tag, fields \o <<S(<<>>)>>>>>>
Sub(x, y) == Unannotated("SubClassOf", <<N(x), N(y)>>)
Equiv(xs) == Unannotated("EquivalentClasses", <<S(xs)>>)
Fact(r, x, y) == Unannotated("ObjectPropertyAssertion", <<N(r), N(x), N(y)>>)
IsA(x, class) == Unannotated("ClassAssertion", <<N(class), N(x)>>)
SubRole(r, s) == Unannotated("SubObjectPropertyOf", <<N(r), N(s)>>)
InvRoles(r, s) == Unannotated("InverseObjectProperties", <<N(r), N(s)>>)
Domain(r, x) == Unannotated("ObjectPropertyDomain", <<N(r), N(x)>>)
RangeOf(r, x) == Unannotated("ObjectPropertyRange", <<N(r), N(x)>>)
Declare(x) == Unannotated("Declaration", <<N(x)>>)
Transitive(r) == Unannotated("TransitiveObjectProperty", <<N(r)>>)

\* The terms below a set of terms, which are at most MaxDepth deep.
MaxDepth == 8

Subterms(xs) ==
    LET below(x) == UNION {ToSet(x[2][i].ids) : i \in DOMAIN x[2]}
        upto[k \in 0 .. MaxDepth] ==
            IF k = 0 THEN xs ELSE xs \cup UNION {below(x) : x \in upto[k - 1]}
    IN  upto[MaxDepth]

\* The encoding of every term; the items of a set are in canonical order.
TermBytes(terms) ==
    LET inOrder(spelled, f) ==
            IF f.k = "sequence" THEN [i \in DOMAIN f.ids |-> Framed("node", spelled[f.ids[i]])]
            ELSE LET items == {spelled[f.ids[i]] : i \in DOMAIN f.ids}
                 IN  [i \in 1 .. Len(f.ids) |->
                        LET b == CHOOSE y \in items :
                                    Cardinality({z \in items : Lexicographic(z, y)}) = i - 1
                        IN  Varint(Len(b)) \o b]
        field(spelled, f) ==
            CASE f.k = "node" -> Framed("node", spelled[f.ids[1]])
              [] f.k = "none" -> <<0>>
              [] f.k = "integer" -> <<KindNumber["integer"]>> \o Varint(IntegerValue(f.txt))
              [] f.k \in {"set", "sequence"} ->
                    <<KindNumber[f.k]>> \o Varint(Len(f.ids)) \o Joined(inOrder(spelled, f))
              [] OTHER -> Framed(f.k, [i \in DOMAIN f.txt |-> Code(f.txt[i])])
        fields(spelled, x) ==
            LET upto[i \in 0 .. Len(x[2])] ==
                    IF i = 0 THEN <<>> ELSE upto[i - 1] \o field(spelled, x[2][i])
            IN  upto[Len(x[2])]
        spelled[x \in terms] == Varint(TagNumber[x[1]]) \o fields(spelled, x)
    IN  spelled

\* The identifier of each term: its place in the order of the encodings.
Ranking(spelled) ==
    Tabulated([x \in DOMAIN spelled |->
        1 + Cardinality({y \in DOMAIN spelled : Lexicographic(spelled[y], spelled[x])})])

\* The columns of a set of roots over ranked terms.
Columned(roots, dropped, id) ==
    LET mapped(f) == LET raw == [i \in DOMAIN f.ids |-> id[f.ids[i]]]
                     IN  IF f.k = "set" THEN SortSeq(raw, <) ELSE raw
        node(n) == LET x == CHOOSE y \in DOMAIN id : id[y] = n
                   IN  <<x[1], [i \in DOMAIN x[2] |-> [x[2][i] EXCEPT !.ids = mapped(x[2][i])]]>>
        place(r) == Cardinality({q \in roots : q[1] < r[1] \/ (q[1] = r[1] /\ id[q[2]] <= id[r[2]])})
        at(i)   == LET r == CHOOSE q \in roots : place(q) = i IN <<r[1], id[r[2]]>>
    IN  [Encode([n \in 1 .. Cardinality(DOMAIN id) |-> node(n)], [i \in 1 .. Cardinality(roots) |-> at(i)])
         EXCEPT !.excluded = SetToSortSeq({place(r) : r \in dropped}, <)]

\* The table of a set of roots, each a root kind and a term, with some of
\* them excluded.
TableExcluding(roots, dropped) ==
    Columned(roots, dropped, Ranking(Tabulated(TermBytes(Subterms({r[2] : r \in roots})))))

TableOfTerms(roots) == TableExcluding(roots, {})
=============================================================================
