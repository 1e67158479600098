-------------------------- MODULE MCCanonicalMerge --------------------------
EXTENDS CanonicalMerge, TermTables

MCBytes == [table |-> 240, header |-> 72, length |-> 8, color |-> 1, event |-> 16, task |-> 40]

MCAlphabet == <<"0", "1", "200", "A", "B", "annotation_property", "class", "datatype", "k1", "k2",
                "label", "named_individual", "object_property", "r", "s1", "s2", "s3", "string", "x">>

MCIntegerByte == [t \in {"0", "1", "200"} |-> CASE t = "0" -> 0 [] t = "1" -> 1 [] OTHER -> 200]

A == Class("A")
B == Class("B")
R == Role("r")
AtLeast(digits, x) == <<"ObjectMinCardinality", <<F("integer", <<>>, digits), N(R), N(x)>>>>

Group(t, u) == {Unannotated("SameIndividual", <<S(<<Blank(t, "k1"), Blank(u, "k1")>>)>>)}

\* The roots of the tables.
Sources ==
    "left" :> {Sub(A, B), Equiv(<<A, And(<<A, B>>)>>)}
    @@ "right" :> {Sub(A, B), Sub(B, A), Equiv(<<A, Or(<<A, B>>)>>)}
    @@ "counted" :> {Sub(A, AtLeast(<<"200">>, B)), Sub(A, AtLeast(<<"200", "1">>, B))}
    @@ "counted too" :> {Sub(A, AtLeast(<<"0", "1">>, B)), Sub(A, AtLeast(<<"200">>, B))}
    @@ "blanks" :> {Fact(R, Blank("s1", "k1"), Blank("s1", "k2"))}
    @@ "blanks too" :> {Fact(R, Blank("s2", "k1"), Blank("s2", "k2")), Fact(R, Blank("s3", "k1"), Blank("s2", "k1"))}
    @@ "group" :> Group("s1", "s2")

Built == [x \in DOMAIN Sources |-> TableOfTerms(Sources[x])]

\* Two classes exchanged behind the back of the sets that hold them.
Unsorted(c) ==
    LET f == CHOOSE g \in DOMAIN c.fkind : c.fkind[g] = "set" /\ c.flen[g] = 2 /\ c.tag[c.ival[c.fval[g] + 1]] = "Entity"
                                           /\ c.tag[c.ival[c.fval[g] + 2]] = "Entity"
        a == c.offset[c.ival[c.fval[f] + 1]] + 2  b == c.offset[c.ival[c.fval[f] + 2]] + 2
    IN  [c EXCEPT !.fval[a] = c.fval[b], !.fval[b] = c.fval[a]]

\* A class expression that is its own operand.
Looping(c) ==
    LET n == CHOOSE m \in Nodes(c) : c.tag[m] = "ObjectMinCardinality"
    IN  [c EXCEPT !.fval[c.offset[n] + 3] = n]

\* A member of a merge: a table, its postings and scope map, and its damage.
Plain(x) == [of |-> x, included |-> <<>>, excluded |-> <<>>, maps |-> <<>>, damage |-> "none"]
Renamed(x, rows) == [Plain(x) EXCEPT !.maps = <<rows>>]
Including(x, p) == [Plain(x) EXCEPT !.included = p]
Excluding(x, p) == [Plain(x) EXCEPT !.excluded = p]
Damaged(member, how) == [member EXCEPT !.damage = how]

Member(m, c) ==
    [(CASE m.damage = "none" -> c [] m.damage = "unsorted" -> Unsorted(c) [] m.damage = "looping" -> Looping(c))
     EXCEPT !.included = m.included, !.excluded = m.excluded, !.scopeMaps = m.maps]

Free(tables) == [tables |-> tables, maxWork |-> 1000000, maxSpace |-> 1000000]

Overlap == Free(<<Plain("left"), Plain("right")>>)
KeptOrder == Free(<<Plain("blanks"), Renamed("group", <<<<"s1", "s2">>, <<"s2", "s3">>>>)>>)

\* Limits that are met exactly, or exceeded by the cursors, the second table, the
\* vectors of the merge proper, a table built again, or the numbering.
Merges ==
    "overlap" :> Overlap
    @@ "postings" :> Free(<<Including("right", <<2, 3>>), Excluding("left", <<1>>), Excluding("right", <<3>>)>>)
    @@ "integers" :> Free(<<Plain("counted"), Plain("counted too")>>)
    @@ "scopes" :> Free(<<Plain("blanks"), Renamed("blanks too", <<<<"s2", "s1">>>>)>>)
    @@ "keptorder" :> KeptOrder
    @@ "reordered" :> Free(<<Plain("blanks"), Renamed("group", <<<<"s1", "s3">>>>)>>)
    @@ "collapsed" :> Free(<<Renamed("group", <<<<"s2", "s1">>>>), Plain("blanks")>>)
    @@ "unsorted" :> Free(<<Plain("blanks"), Damaged(Plain("left"), "unsorted")>>)
    @@ "both" :> Free(<<Damaged(Renamed("left", <<<<"s2", "s1">>>>), "unsorted"), Plain("blanks")>>)
    @@ "cyclic" :> Free(<<Plain("blanks"), Damaged(Plain("counted"), "looping")>>)
    @@ "exact space" :> [Overlap EXCEPT !.maxSpace = 1400]
    @@ "no cursor space" :> [Overlap EXCEPT !.maxSpace = 1399]
    @@ "no walk space" :> [Overlap EXCEPT !.maxSpace = 1060]
    @@ "no header space" :> [Free([i \in 1 .. 4 |-> Plain("group")]) EXCEPT !.maxSpace = 1350]
    @@ "no original space" :> [KeptOrder EXCEPT !.maxSpace = 940]
    @@ "original unpaid" :> [KeptOrder EXCEPT !.maxWork = 95]
    @@ "order unpaid" :> [Overlap EXCEPT !.maxWork = 200]
    @@ "numbers unpaid" :> [Free(<<Plain("blanks"), Plain("blanks too")>>) EXCEPT !.maxWork = 200]

Unions == [x \in DOMAIN Merges |->
              [Merges[x] EXCEPT !.tables = [i \in DOMAIN @ |-> Member(@[i], Built[@[i].of])]]]

MCUnion == Unions
=============================================================================
