------------------------- MODULE ClosureProjection -------------------------
(***************************************************************************)
(* What the native compiler promises: the edges of a closure of tables are   *)
(* those of the one table that holds every selected root of the closure      *)
(* once, in canonical order, family by family.  The promise is stated on     *)
(* that table without plans, arenas, cursors or deltas, and the emission is   *)
(* compared with it.  A job carries that table ("closure"), the annotations  *)
(* its ROOT documents select ("notes") and the refusal it must meet.        *)
(***************************************************************************)
EXTENDS DirectEmission

\* The roots of one constructor, as nodes in canonical order.
RootNodes(u, tag) ==
    LET all == SelectSeq([i \in DOMAIN u.rootId |-> u.rootId[i]], LAMBDA n : Tag(u, n) = tag) IN all

Gathered(nodes, Edges(_)) == Joined([i \in DOMAIN nodes |-> Edges(nodes[i])])

\* The elements of a set in the order of a strict total order.
Ranked(S, Less(_, _)) ==
    [i \in 1 .. Cardinality(S) |-> CHOOSE x \in S : Cardinality({y \in S : Less(y, x)}) = i - 1]

-----------------------------------------------------------------------------
(* The roles, read off the ordered rows: the list of a property comes from   *)
(* the last axiom above it and from the list of its sub-property before      *)
(* that axiom.                                                             *)

OrderedRows(u) ==
    LET of(tag) == {i \in DOMAIN u.rootId : Tag(u, u.rootId[i]) = tag}
        chain(i) == Tag(u, Ref(u, u.rootId[i], 1)) = "ObjectPropertyChain"
        all  == of("SubObjectPropertyOf") \cup of("InverseObjectProperties")
        rows == {RoleAxiomRow(u, u.rootId[i], i) : i \in {j \in all : ~chain(j)}}
    IN  Ranked(rows, LAMBDA x, y : RowPrecedes(TableCapacity(Cardinality(all)), x, y))

LastRow(rows, n, Test(_)) ==
    LET hits == {i \in 1 .. n : Test(rows[i])} IN IF hits = {} THEN 0 ELSE CHOOSE i \in hits : \A j \in hits : j <= i

Subroles(rows, retained, property) ==
    LET names == {rows[i].first : i \in DOMAIN rows} \cup {property}
        list[n \in 0 .. Len(rows), p \in names] ==
            LET i == LastRow(rows, n, LAMBDA r : r.tag = "SubObjectPropertyOf" /\ r.second = p)
            IN  IF i = 0 THEN SubrolesFor(retained, p) ELSE <<rows[i].first>> \o list[i - 1, rows[i].first]
    IN  list[Len(rows), property]

Inverses(rows, retained, property) ==
    LET i == LastRow(rows, Len(rows),
                     LAMBDA r : r.tag = "InverseObjectProperties" /\ property \in {r.first, r.second})
    IN  IF i = 0 THEN InverseFor(retained, property)
        ELSE <<IF rows[i].second = property THEN rows[i].first ELSE rows[i].second>>

-----------------------------------------------------------------------------
(* The edges of one axiom.                                                 *)

Taxonomic(options, x, y) ==
    IF options.bidirectional THEN <<<<x, SubclassRelation, y>>, <<y, SuperclassRelation, x>>>>
    ELSE <<<<x, SubclassRelation, y>>>>

Related(roles, x, r, y) ==
    LET below == roles.below[r]  back == roles.back[r]
    IN  <<<<x, r, y>>>> \o [i \in DOMAIN below |-> <<x, below[i], y>>] \o [i \in DOMAIN back |-> <<y, back[i], x>>]

SubclassEdges(u, options, roles, n) ==
    LET x == SubclassShape(u, n)
    IN  CASE x[1] = "Taxonomy" -> Taxonomic(options, x[2], x[3])
          [] x[1] = "Restriction" /\ Mode(options) = "normal" -> Related(roles, x[2], x[3], x[4])
          [] OTHER -> <<>>

\* An equivalence has edges when its least operand is a class: to the second
\* class, or to the classes and the named fillers of the aggregate.
EquivalentEdges(u, options, roles, n) ==
    LET two == Ranked(ToSet(Items(u, n, 1)), LAMBDA x, y : Precedes(u, x, y))
        source == EntityIri(u, two[1])
        parts  == ToSet(Items(u, two[2], 1))
        names  == Ranked({EntityIri(u, m) : m \in {k \in parts : Tag(u, k) = "Entity"}}, BytesLess)
        limits == Ranked({m \in parts : Tag(u, m) \in RestrictionTags /\ RestrictionProjection(u, m) # <<>>},
                         LAMBDA x, y : \/ TagOrder(Tag(u, x)) < TagOrder(Tag(u, y))
                                       \/ TagOrder(Tag(u, x)) = TagOrder(Tag(u, y)) /\ x < y)
        limit(m) == LET e == RestrictionProjection(u, m) IN Related(roles, source, e[1], e[2])
    IN  IF Tag(u, two[1]) # "Entity" THEN <<>>
        ELSE IF Tag(u, two[2]) = "Entity" THEN Taxonomic(options, source, EntityIri(u, two[2]))
        ELSE IF Tag(u, two[2]) \notin AggregateTags THEN <<>>
        ELSE Gathered(names, LAMBDA name : Taxonomic(options, source, name))
             \o (IF options.onlyTaxonomy THEN <<>> ELSE Gathered(limits, limit))

NoteEdges(u, position, n) ==
    LET x == AnnotationShape(u, n, ClassIris(u, Nodes(u)))
    IN  IF x = Ignored THEN <<>> ELSE <<AnnotationEdge(x, position, 1)>>

TypeEdges(u, n) ==
    LET x == ClassAssertionShape(u, n) IN IF x = Ignored THEN <<>> ELSE <<<<x[2], TypeRelation, x[3]>>>>

FactEdges(u, position, n) ==
    LET x == ObjectAssertionShape(u, n)
    IN  <<<<RenderIndividual(u, position, 1, x[2]), x[3], RenderIndividual(u, position, 1, x[4])>>>>

\* Every domain of a property with every range of it, property by property.
PairEdges(u, roles) ==
    LET of(tag) == SelectSeq(RootNodes(u, tag), LAMBDA n : ObjectPropertyClassShape(u, n) # Ignored)
        domains == of("ObjectPropertyDomain")  ranges == of("ObjectPropertyRange")
        property(n) == ObjectPropertyClassShape(u, n)[2]
        class(n) == ObjectPropertyClassShape(u, n)[3]
        names == {property(n) : n \in ToSet(domains)} \cap {property(n) : n \in ToSet(ranges)}
        sides(list, r) == SelectSeq(list, LAMBDA n : property(n) = r)
    IN  Gathered(Ranked(names, BytesLess),
            LAMBDA r : Gathered(sides(domains, r),
                LAMBDA d : Gathered(sides(ranges, r), LAMBDA e : Related(roles, class(d), r, class(e)))))

\* The edges of a closure, its roles given.
ProjectionWith(u, options, roles, position, notes) ==
    Gathered(RootNodes(u, "SubClassOf"), LAMBDA n : SubclassEdges(u, options, roles, n))
    \o (IF options.asserted THEN <<>>
        ELSE Gathered(RootNodes(u, "EquivalentClasses"), LAMBDA n : EquivalentEdges(u, options, roles, n))
             \o (IF options.includeLiterals THEN Gathered(notes, LAMBDA n : NoteEdges(u, position, n)) ELSE <<>>)
             \o Gathered(RootNodes(u, "ClassAssertion"), LAMBDA n : TypeEdges(u, n))
             \o Gathered(RootNodes(u, "ObjectPropertyAssertion"), LAMBDA n : FactEdges(u, position, n))
             \o PairEdges(u, roles))

RolesRead(u, rows, known) ==
    LET names == {EntityIri(u, n) : n \in {m \in Nodes(u) : Tag(u, m) = "Entity"}}
    IN  [below |-> Tabulated([r \in names |-> Subroles(rows, known, r)]),
         back |-> Tabulated([r \in names |-> Inverses(rows, known, r)])]

Projection(u, options, retained, notes) ==
    ProjectionWith(u, options,
        IF options.asserted THEN RolesRead(u, <<>>, NoRoles) ELSE RolesRead(u, OrderedRows(u), retained),
        OwnPositions(u), notes)

-----------------------------------------------------------------------------
(* The promise of a job: its verdict, its edges and its counters.           *)

\* The counters of the closure compiled as one table.
Counters(u, plan, options, retained, nodes) ==
    EdgeStatistics(u, plan, RolesOf(plan, options, retained), options, Len(nodes),
                   CountedNotes(<<u>>, [i \in DOMAIN nodes |-> <<1, nodes[i]>>], ClassIris(u, Nodes(u)), options))

Promised(job, edges, statistics) ==
    [verdict |-> IF Len(edges) > job.options.maxEdges THEN "resource" ELSE "ok",
     edges |-> edges, statistics |-> statistics]

Promise(job) ==
    IF job.refusal # "ok" THEN [verdict |-> job.refusal]
    ELSE Promised(job, Projection(job.closure, job.options, job.retained, job.notes),
                  Counters(job.closure, Plan(job.closure), job.options, job.retained, job.notes))

VARIABLE promise    \* the promise of the job under way, fixed at the start

ClosureInit == EmissionInit /\ promise = Promise(currentJob)

ClosureNext == EmissionNext /\ UNCHANGED promise

ClosureSpec == ClosureInit /\ [][ClosureNext]_<<emissionVars, promise>>

Compiled == stage \in {"ready", "batch", "failed"}

-----------------------------------------------------------------------------
(* Properties.                                                             *)

\* The edges handed out and those of the batch under way are, at any moment, a
\* prefix of the edges of the closure, however the output is cut into batches
\* and whatever batch was given up before, and the emission ends with all of
\* them.  The malformed exits of next_edge and prepare_next_batch (a cursor that
\* runs dry or overtakes a delta) are dead after a successful preparation.
OutputExact ==
    /\ stage # "failed"
    /\ Compiled =>
          /\ IsPrefix(drained \o batchEdges, promise.edges)
          /\ stage = "ready" /\ Remaining(preparation, committed) = 0 => drained = promise.edges

\* The counters a composite adds up from its base, its deltas and its local
\* domains and ranges are the counters of the closure compiled as one table, and
\* the preflight count, by which the edge limit is enforced before any edge
\* exists, is the number of its edges.
StatisticsExact ==
    Compiled => /\ preparation.statistics = promise.statistics
                /\ preparation.statistics.edges = Len(promise.edges)

\* A projection is refused for its size exactly when it has more edges than
\* allowed, and for anything else only when the job has what is refused.
RefusalExact ==
    stage # "new" => preparation.verdict = promise.verdict

\* An anonymous individual is named by its position among the individuals of
\* the closure's axioms ("Rule-only anonymous individuals are excluded from the
\* scalar-compatible axiom blank-ID pool", native-structural-ingestion.md).  A
\* tail fact of a scope-mapped member is named by the member's rank among all
\* mapped members instead, those that only have a rule included.
IdentifiersClosureWide ==
    \A i \in DOMAIN drained : drained[i] \in ToSet(promise.edges)

=============================================================================
