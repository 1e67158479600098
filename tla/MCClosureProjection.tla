------------------------ MODULE MCClosureProjection ------------------------
EXTENDS ClosureProjection, TermTables

MCAlphabet == <<"0", "1", "A", "B", "C", "D", "annotation_property", "class", "data_property",
                "datatype", "i", "int", "j", "k1", "k2", "label", "named_individual", "object_property",
                "plain", "q", "r", "s", "s1", "s2", "s3", "s4", "seeAlso", "string", "synonym", "t", "u", "x", "y">>

MCIntegerByte == [t \in {"0", "1"} |-> IF t = "0" THEN 0 ELSE 1]

\* Code units that make hash codes wrap and put buckets out of canonical order.
Space == <<104, 116, 116, 112, 58, 47, 47, 111, 47>>
MCCodeUnits ==
    [t \in ToSet(MCAlphabet) |->
        CASE t = "r" -> <<Space, <<114>>>> [] t = "s" -> <<Space, <<97>>>>
          [] t = "t" -> <<Space, <<116, 101>>>> [] t = "u" -> <<<<>>, <<65535, 98>>>>
          [] OTHER -> <<Space, <<120>>>>]

-----------------------------------------------------------------------------
(* Members: the roots kept, the roots excluded and the scope map.           *)

Member(kept, dropped, rows) == [kept |-> kept, dropped |-> dropped, rows |-> rows]
Just(kept) == Member(kept, {}, <<>>)

TableOfMember(m) ==
    [TableExcluding(m.kept \cup m.dropped, m.dropped) EXCEPT !.scopeMaps = IF m.rows = <<>> THEN <<>> ELSE <<m.rows>>]

\* A member's kept roots with its scopes renamed.
Rescoped(m) ==
    LET terms == Subterms({r[2] : r \in m.kept})
        scope(t) == IF \E k \in DOMAIN m.rows : m.rows[k][1] = t
                    THEN (CHOOSE row \in ToSet(m.rows) : row[1] = t)[2] ELSE t
        new[x \in terms] ==
            IF x[1] = "AnonymousIndividual" THEN <<x[1], <<Bytes(scope(x[2][1].txt[1])), x[2][2]>>>>
            ELSE <<x[1], [i \in DOMAIN x[2] |->
                    [x[2][i] EXCEPT !.ids = [j \in DOMAIN x[2][i].ids |-> new[x[2][i].ids[j]]]]]>>
    IN  {<<r[1], new[r[2]]>> : r \in m.kept}

Options(name, limit) ==
    [bidirectional |-> name \in {"both", "taxonomy"}, asserted |-> name = "asserted",
     onlyTaxonomy |-> name = "taxonomy", includeLiterals |-> name \in {"both", "literals"}, maxEdges |-> limit]

NotesOf(u, tables, options) ==
    LET mine == RootNodes(u, "AnnotationAssertion")
    IN  IF tables = <<>> THEN mine
        ELSE SelectSeq(mine, LAMBDA n : \E t \in DOMAIN tables :
                \E i \in DOMAIN tables[t].rootId : StructurallyEqual(u, n, tables[t], tables[t].rootId[i]))

\* What a job is made of; its ROOT documents hold the given roots.
Job(members, rootSets, options, retained, refusal) ==
    [members |-> members, roots |-> rootSets, options |-> options, retained |-> retained, refusal |-> refusal,
     postings |-> "exclude"]

Plainly(members, mode) == Job(members, <<>>, Options(mode, 100), NoRoles, "ok")

\* The same selection by INCLUDE postings.
Including(job) == [job EXCEPT !.postings = "include"]

Selecting(c) == [c EXCEPT !.included = SelectedRoots(c), !.excluded = <<>>]

\* The job over tables, and the closure of its members as one table.
Tabled(job, tables, roots, u) ==
    [members |-> IF job.postings = "include" THEN [i \in DOMAIN tables |-> Selecting(tables[i])] ELSE tables,
     roots |-> roots, options |-> job.options, retained |-> job.retained, closure |-> u,
     notes |-> NotesOf(u, roots, job.options), refusal |-> job.refusal]

Made(job) ==
    Tabled(job, Tabulated([i \in DOMAIN job.members |-> TableOfMember(job.members[i])]),
           Tabulated([i \in DOMAIN job.roots |-> TableOfTerms(job.roots[i])]),
           TableOfTerms(UNION {Rescoped(job.members[i]) : i \in DOMAIN job.members}))

-----------------------------------------------------------------------------
(* The axioms.                                                             *)

A == Class("A")
B == Class("B")
C == Class("C")
D == Class("D")
R == Role("r")
P == Role("s")
T == Role("t")
U == Role("u")
I == Person("i")
J == Person("j")
b1 == Blank("s1", "k1")
b2 == Blank("s1", "k2")
b3 == Blank("s2", "k1")
All(r, x) == <<"ObjectAllValuesFrom", <<N(r), N(x)>>>>
Least(r, x) == <<"ObjectMinCardinality", <<Whole("1"), N(r), N(x)>>>>
OneOf(xs) == <<"ObjectOneOf", <<S(xs)>>>>
Chain(rs) == <<"ObjectPropertyChain", <<Q(rs)>>>>
Remark(p, v) == <<"Annotation", <<N(EntityTerm("annotation_property", p)), N(v), S(<<>>)>>>>
Noted(axiom, note) == <<2, <<axiom[2][1], Front(axiom[2][2]) \o <<S(<<note>>)>>>>>>
Says(p, t, v) == Unannotated("AnnotationAssertion", <<N(EntityTerm("annotation_property", p)), N(IriTerm(t)), N(v)>>)
About(x) == <<1, Remark("label", x)>>
SwrlOf(x, y) == <<3, <<"SWRLRule", <<S(<<<<"SameIndividualAtom", <<N(x), N(y)>>>>>>), S(<<>>), S(<<>>)>>>>>>
Same(x, y) == Unannotated("SameIndividual", <<S(<<x, y>>)>>)
Value(p, x, v) == Unannotated("DataPropertyAssertion", <<N(EntityTerm("data_property", p)), N(x), N(v)>>)

Taxonomy == {Sub(A, B), Sub(B, Some(R, C)), Sub(All(P, A), C), Sub(And(<<A, B>>), C), Sub(A, Some(T, And(<<A, B>>)))}
Same2 == {Equiv(<<A, B>>), Equiv(<<And(<<A, B>>), Or(<<A, B>>)>>), Equiv(<<D, OneOf(<<I>>)>>),
          Equiv(<<C, And(<<B, A, Least(P, A), Some(T, B), All(R, D), Some(R, And(<<A, B>>)), Or(<<A, D>>)>>)>>)}
Facts == {IsA(I, A), IsA(b1, A), IsA(J, And(<<A, B>>)), Fact(R, I, J), Fact(P, b2, I), Fact(R, b1, b2), Same(I, b3)}
Roles == {SubRole(R, P), SubRole(P, T), SubRole(T, R), InvRoles(R, T), Unannotated("SubObjectPropertyOf", <<N(Chain(<<R, P>>)), N(T)>>),
          Noted(SubRole(U, P), Remark("seeAlso", IriTerm("x")))}
Pairings == {Domain(R, A), Domain(R, B), RangeOf(R, C), RangeOf(R, D), Domain(P, A), RangeOf(T, A), Domain(T, Some(R, A)),
           Domain(U, A), RangeOf(U, B), Domain(Inv(R), A)}
Labels == {Says("label", "A", Lit("x", "string")), Says("label", "A", Lit("y", "int")), Says("synonym", "B", IriTerm("x")),
           Says("seeAlso", "A", Lit("x", "string")), Says("label", "i", Lit("x", "string")), Says("label", "B", b2)}
Rest == {Declare(A), Transitive(R), About(b3), SwrlOf(I, b3), Value("q", b1, Lit("x", "plain"))}

Renaming(x, y) == <<<<x, y>>>>
NoMap == <<>>

Known == [subroles |-> (<<"r">> :> <<<<"u">>>>) @@ (<<"t">> :> <<<<"s">>, <<"u">>>>),
          inverses |-> (<<"r">> :> <<"s">>) @@ (<<"s">> :> <<"r">>)]

DirectJobs ==
    "direct" :> Plainly(<<Just(Taxonomy \cup Same2 \cup Roles)>>, "both")
    @@ "direct facts" :> Plainly(<<Just(Facts \cup Labels \cup Rest \cup Pairings)>>, "literals")
    @@ "direct excluded" :> Plainly(<<Member(Taxonomy \cup Same2 \cup {Fact(P, b2, I)}, {IsA(I, A), Fact(R, b1, b2)}, NoMap)>>, "taxonomy")
    @@ "direct included" :> Including(Plainly(<<Member(Facts \cup {Sub(A, B)}, Taxonomy \ {Sub(A, B)}, NoMap)>>, "both"))
    @@ "direct asserted" :> Plainly(<<Just(Taxonomy \cup {Fact(R, I, J), Equiv(<<A, B>>), Transitive(R), SubRole(R, P)})>>, "asserted")
    @@ "direct root" :> Job(<<Just(Taxonomy \cup Labels)>>,
                            <<{Sub(A, B), Says("label", "A", Lit("y", "int")), Says("synonym", "B", IriTerm("x"))}>>,
                            Options("literals", 100), NoRoles, "ok")
    @@ "direct retained" :> Job(<<Just(Pairings \cup {SubRole(R, U)})>>, <<>>, Options("normal", 100), Known, "ok")
    @@ "direct limit" :> Job(<<Just(Taxonomy)>>, <<>>, Options("both", 3), NoRoles, "ok")
    @@ "direct full" :> Job(<<Just(Taxonomy)>>, <<>>, Options("both", 4), NoRoles, "ok")

CompositeJobs ==
    "composite classes" :>
        Plainly(<<Just({Sub(A, B), Sub(C, D), Equiv(<<A, B>>), Equiv(<<C, And(<<A, Some(R, B)>>)>>)}),
                  Just({Sub(A, B), Sub(B, Some(R, C)), Sub(And(<<A, B>>), C), Equiv(<<A, C>>), Equiv(<<D, OneOf(<<I>>)>>)}),
                  Just({Sub(A, D), Sub(C, D), Equiv(<<D, And(<<B, A, Least(P, A), Some(P, B), Or(<<A, C>>)>>)>>)})>>, "both")
    @@ "composite taxonomy" :>
        Plainly(<<Just({Sub(A, B), Equiv(<<C, And(<<A, Some(R, B)>>)>>)}),
                  Just({Sub(B, Some(R, C)), Equiv(<<D, And(<<B, A, Some(P, B), Or(<<A, C>>)>>)>>)})>>, "taxonomy")
    @@ "composite asserted" :>
        Plainly(<<Just({Sub(B, C), Fact(R, I, J)}), Just({Sub(A, B), Sub(B, Some(R, C)), Fact(P, I, J), Equiv(<<A, B>>), Domain(R, A), RangeOf(R, A)})>>, "asserted")
    @@ "composite roles" :>
        Plainly(<<Just({SubRole(R, P), InvRoles(R, T), Sub(A, Some(T, B)), Domain(R, A), RangeOf(R, B)}),
                  Just({SubRole(P, T), SubRole(R, P), Sub(A, Some(P, B)), Sub(Some(R, A), C)}),
                  Just({SubRole(T, R), Unannotated("SubObjectPropertyOf", <<N(Chain(<<R, P>>)), N(T)>>), InvRoles(P, T)})>>, "normal")
    @@ "composite pairs" :>
        Plainly(<<Just({Domain(R, B), RangeOf(R, B), Domain(T, A), RangeOf(P, A), Sub(A, B)}),
                  Just({Domain(R, A), Domain(R, C), RangeOf(R, A), RangeOf(T, D), Domain(P, Some(R, A))}),
                  Just({Domain(R, A), RangeOf(R, C), Domain(U, A), SubRole(U, R)})>>, "normal")
    @@ "composite facts" :>
        Plainly(<<Member({Fact(R, I, b2), IsA(I, A), Declare(A), SwrlOf(I, b3)}, {Fact(P, I, J)}, NoMap),
                  Just({Fact(R, b1, J), IsA(I, B), IsA(b1, A), Fact(P, I, J), Transitive(R), Same(I, b3), About(b3)}),
                  Member({Fact(R, I, b2), Fact(P, b3, b1), Value("q", I, Lit("x", "plain"))}, {IsA(J, A)}, NoMap)>>, "normal")
    @@ "composite labels" :>
        Job(<<Just({Sub(A, B), Says("label", "A", Lit("x", "string")), Says("label", "D", Lit("x", "string")), Fact(R, I, b1)}),
              Just({Sub(C, B), Says("label", "A", Lit("x", "string")), Says("label", "A", Lit("y", "int")),
                    Says("synonym", "C", b1), Says("synonym", "B", IriTerm("x"))})>>,
            <<{Says("label", "A", Lit("x", "string")), Says("label", "D", Lit("x", "string"))},
              {Says("synonym", "C", b1), Says("synonym", "B", IriTerm("x")), Sub(C, B)}>>, Options("literals", 100), NoRoles, "ok")
    @@ "composite mapped" :>
        Plainly(<<Just({Sub(A, B), Fact(R, I, J)}),
                  Member({Sub(B, C), Fact(R, I, b1)}, {Sub(C, D)}, Renaming("s1", "s4")),
                  Member({Fact(R, b1, J)}, {}, Renaming("s1", "s3")),
                  Member({Sub(A, OneOf(<<b1>>))}, {}, Renaming("s1", "s2"))>>, "normal")
    @@ "composite generic" :>
        Plainly(<<Just({Fact(R, I, b2)}),
                  Member({Fact(P, b1, b3), Fact(R, I, b3)}, {}, <<<<"s1", "s3">>, <<"s2", "s1">>>>)>>, "normal")
    @@ "composite limit" :>
        Job(<<Just({Domain(R, A), Domain(R, B), Sub(A, B)}), Just({RangeOf(R, A), RangeOf(R, B), SubRole(P, R)})>>, <<>>,
            Options("normal", 8), NoRoles, "ok")
    @@ "composite full" :>
        Job(<<Just({Domain(R, A), Domain(R, B), Sub(A, B)}), Just({RangeOf(R, A), RangeOf(R, B), SubRole(P, R)})>>, <<>>,
            Options("normal", 9), NoRoles, "ok")

RefusedJobs ==
    "tail label" :> Job(<<Just({Sub(A, B)}), Just({Says("label", "A", Lit("x", "string"))})>>, <<>>, Options("literals", 9), NoRoles, "unsupported")
    @@ "noted tail" :> Job(<<Just({Sub(A, B)}), Just({Noted(Sub(B, C), Remark("label", b1))})>>, <<>>, Options("normal", 9), NoRoles, "unsupported")
    @@ "reordered" :> Job(<<Just({Sub(A, B)}), Member({Same(b1, b3)}, {}, Renaming("s1", "s3"))>>, <<>>, Options("normal", 9), NoRoles, "unsupported")
    @@ "foreign root" :> Job(<<Just({Sub(A, B)}), Just({Sub(B, C)})>>, <<{Sub(B, C)}, {Sub(B, C)}>>, Options("normal", 9), NoRoles, "malformed")
    @@ "inverse fact" :> Job(<<Just({Sub(A, B)}), Just({Fact(Inv(R), I, J)})>>, <<>>, Options("normal", 9), NoRoles, "reference_failure")

AskedJobs == DirectJobs @@ CompositeJobs @@ RefusedJobs

CompileJobs == LET all == AskedJobs IN {Made(all[name]) : name \in DOMAIN all}

MCJobs == CompileJobs

-----------------------------------------------------------------------------
(* Two mapped members; the individual of the first is only in a rule.       *)

ScopedJobs ==
    {Made(Plainly(<<Just({Sub(A, B)}), Member({SwrlOf(I, b1)}, {}, Renaming("s1", "s2")),
                    Member({Fact(R, I, b1)}, {}, Renaming("s1", "s3"))>>, "normal"))}

MCScopedJobs == ScopedJobs
=============================================================================
