--------------------------- MODULE CanonicalMerge ---------------------------
(***************************************************************************)
(* The bounded k-way merge of structural tables (CanonicalKWayRootMerger):  *)
(* the length walk over every table, the order check of its sets and roots  *)
(* byte by byte, before and after the scope maps, the merge of the selected *)
(* roots into groups of equal roots, and the closure-wide numbering of the  *)
(* anonymous individuals.  Every step is charged to one budget of work and  *)
(* of workspace; a cancelled or refused merge is dropped as a whole.        *)
(***************************************************************************)
EXTENDS CanonicalBytes

CONSTANTS
    Union,          \* merge name -> [tables, maxWork, maxSpace]
    ElementBytes    \* the size of one element of each owned vector

ASSUME BytesAssumption ==
    \A k \in {"table", "header", "length", "color", "event", "task"} : ElementBytes[k] \in Nat \ {0}

VARIABLES
    merge,          \* the merge under way, a Prepared one
    stage,          \* "build", "walk", "order", "groups", "anonymous", "done"
    table,          \* the table being built or checked
    lengths,        \* per table built, the length of every finished node, 0 before;
                    \* behind those of all tables, of a table built again without maps
    walk,           \* the length walk: initial node, colours, events
    cursors,        \* the comparison under way
    position,       \* per table, roots passed and postings read
    groups,         \* the groups of equal roots emitted so far
    ids,            \* anonymous coordinate -> its number
    budget,         \* work and workspace consumed
    verdict

mergeVars == <<merge, stage, table, lengths, walk, cursors, position, groups, ids, budget, verdict>>

Tables == merge.tables
Columns == Tables[table]

Reachable(c, n) ==
    LET walked[k \in 0 .. NodeCount(c)] ==
            IF k = 0 THEN ChildSet(c, n)
            ELSE LET before == walked[k - 1] IN before \cup UNION {ChildSet(c, m) : m \in before}
    IN  walked[NodeCount(c)]

Sound(c) == ValidateGeneric(c) = "ok" /\ \A n \in Nodes(c) : n \notin Reachable(c, n)

\* What the cursors spell for every node of a sound table.
Spelling(c) == IF Sound(c) THEN Encoding(c) ELSE <<>>

\* A merge with what its tables spell, and the pairs of nodes its order check
\* compares: adjacent items of every set and adjacent roots.
Prepared(m) ==
    [tables |-> m.tables, maxWork |-> m.maxWork, maxSpace |-> m.maxSpace,
     pairs |-> [t \in DOMAIN m.tables |-> Pairs(m.tables[t])],
     mapped |-> [t \in DOMAIN m.tables |-> Spelling(m.tables[t])],
     plain |-> [t \in DOMAIN m.tables |-> Spelling(WithoutMaps(m.tables[t]))]]

-----------------------------------------------------------------------------
(* The budget.                                                             *)

Affordable(work, space) ==
    /\ budget.work + work <= merge.maxWork
    /\ budget.space + space <= merge.maxSpace

\* Mutant: what is freed is never taken off the counter.
ChargedOnly(work, space) == [budget EXCEPT !.work = @ + work, !.space = IF space > 0 THEN @ + space ELSE @]

Charged(work, space) == [budget EXCEPT !.work = @ + work, !.space = @ + space]

\* An error drops the merger and everything it owns.
Fail(v) ==
    /\ verdict' = v /\ stage' = "done"
    /\ walk' = [initial |-> 0, color |-> <<>>, events |-> <<>>]
    /\ cursors' = [job |-> 0, left |-> <<>>, right |-> <<>>, spelled |-> <<>>, byte |-> <<>>, open |-> FALSE,
                   capacity |-> <<0, 0>>]
    /\ lengths' = <<>> /\ position' = <<>> /\ groups' = <<>> /\ ids' = <<>>
    /\ budget' = [work |-> 0, space |-> 0]
    /\ UNCHANGED <<merge, table>>

-----------------------------------------------------------------------------
(* CanonicalTable::build: the lengths of all nodes, children first.  Every  *)
(* table is built, and a mapped one again without its scope maps when its   *)
(* order is to be checked.                                                  *)

Original == Len(lengths) > Len(Tables)
BuiltColumns == IF Original THEN WithoutMaps(Columns) ELSE Columns

EventCapacity(c) == 2 * NodeCount(c) + Len(c.fkind) + Len(c.ikind) + 1

ValidationWork(c) ==
    Len(c.rootKind) + Len(c.included) + Len(c.excluded) + NodeCount(c) + Len(c.fkind)
    + Len(c.ikind) + Len(c.arena) + 1

\* Claimed behind the tables: positions, postings, candidates and roots.
HeaderSpace == ElementBytes.header * Len(Tables)

WalkSpace(c) == ElementBytes.color * (NodeCount(c) + 1) + ElementBytes.event * EventCapacity(c)
LengthSpace(c) == ElementBytes.length * (NodeCount(c) + 1)

Build ==
    /\ stage = "build"
    /\ LET generic == ValidateGeneric(Columns)
       IN  IF ~Affordable(ValidationWork(Columns), 0) THEN Fail("resource")
       ELSE IF generic # "ok" THEN Fail(generic)
       ELSE IF ~Affordable(ValidationWork(Columns), LengthSpace(Columns) + WalkSpace(Columns))
       THEN Fail("resource")
       ELSE /\ stage' = "walk"
            /\ lengths' = Append(lengths, [n \in Nodes(Columns) |-> 0])
            /\ walk' = [initial |-> 0, color |-> [n \in Nodes(Columns) |-> 0], events |-> <<>>]
            /\ budget' = Charged(ValidationWork(Columns), LengthSpace(Columns) + WalkSpace(Columns))
            /\ UNCHANGED <<merge, table, cursors, position, groups, ids, verdict>>

\* The children of a node in the order the walk pushes them, last one first.
ChildrenReversed(c, n) ==
    LET fields == [i \in 1 .. c.offset[n + 1] - c.offset[n] |->
                     LET x == Component(c, c.offset[n] + i, FALSE)
                     IN  IF x.kind = "node" THEN <<x.node>>
                         ELSE SelectSeq([j \in 1 .. x.range[2] |-> Component(c, x.range[1] + j, TRUE).node],
                                        LAMBDA m : m # 0)]
    IN  Reverse(Joined(fields))

\* Behind the last initial node the walk's vectors are freed; behind the last
\* table the vectors of the merge proper are claimed.
EndWalk ==
    LET last  == table = Len(Tables) /\ ~Original
        space == (IF last THEN HeaderSpace ELSE 0) - WalkSpace(Columns)
    IN  IF ~Affordable(0, space) THEN Fail("resource")
        ELSE /\ stage' = IF last \/ Original THEN "order" ELSE "build"
             /\ table' = IF last THEN 1 ELSE IF Original THEN table ELSE table + 1
             /\ budget' = Charged(0, space)
             /\ walk' = [initial |-> 0, color |-> <<>>, events |-> <<>>]
             /\ UNCHANGED <<merge, lengths, cursors, position, groups, ids, verdict>>

\* The next initial node.
WalkInitial ==
    /\ stage = "walk" /\ walk.events = <<>>
    /\ IF walk.initial = NodeCount(Columns) THEN EndWalk
       ELSE IF ~Affordable(1, 0) THEN Fail("resource")
       ELSE LET n == walk.initial + 1
            IN  /\ walk' = [walk EXCEPT !.initial = n,
                               !.events = IF walk.color[n] = 2 THEN <<>> ELSE <<<<"enter", n>>>>]
                /\ budget' = Charged(1, 0)
                /\ UNCHANGED <<merge, stage, table, lengths, cursors, position, groups, ids, verdict>>

\* One event: a grey node met again closes a cycle; a white one is entered.
WalkEvent ==
    /\ stage = "walk" /\ walk.events # <<>>
    /\ LET event    == Head(walk.events)  n == event[2]
           children == ChildrenReversed(Columns, n)
           fresh    == SelectSeq(children, LAMBDA m : walk.color[m] = 0)
           events   == [i \in DOMAIN fresh |-> <<"enter", fresh[Len(fresh) - i + 1]>>]
                       \o <<<<"exit", n>>>> \o Tail(walk.events)
       IN  IF ~Affordable(1 + Len(children), 0) THEN Fail("resource")
           ELSE IF event[1] = "exit"
           THEN /\ lengths' = [lengths EXCEPT ![Len(lengths)][n] = NodeLength(BuiltColumns, Last(lengths), n)]
                /\ walk' = [walk EXCEPT !.color[n] = 2, !.events = Tail(@)]
                /\ budget' = Charged(1, 0)
                /\ UNCHANGED <<merge, stage, table, cursors, position, groups, ids, verdict>>
           ELSE IF walk.color[n] = 2
           THEN /\ walk' = [walk EXCEPT !.events = Tail(@)]
                /\ budget' = Charged(1, 0)
                /\ UNCHANGED <<merge, stage, table, lengths, cursors, position, groups, ids, verdict>>
           ELSE IF walk.color[n] = 1 \/ \E i \in DOMAIN children : walk.color[children[i]] = 1 \/ children[i] = n
           THEN Fail("malformed")
           ELSE IF Len(events) > EventCapacity(Columns) THEN Fail("resource")
           ELSE /\ walk' = [walk EXCEPT !.color[n] = 1, !.events = events]
                /\ budget' = Charged(1 + Len(children), 0)
                /\ UNCHANGED <<merge, stage, table, lengths, cursors, position, groups, ids, verdict>>

-----------------------------------------------------------------------------
(* validate_table: adjacent items of every set and adjacent roots.  A table *)
(* with scope maps is checked without them first.                           *)

\* Mutant: the order is not checked again under the scope maps.
JobCountOnce == Len(merge.pairs[table])

\* The pairs in the original order, then again under the scope maps.
JobCount == Len(merge.pairs[table]) * (IF Mapped(Columns) THEN 2 ELSE 1)
JobPair(job) == merge.pairs[table][((job - 1) % Len(merge.pairs[table])) + 1]
JobMapped(job) == ~Mapped(Columns) \/ job > Len(merge.pairs[table])
JobColumns == IF JobMapped(cursors.job) THEN Columns ELSE WithoutMaps(Columns)
JobLengths == IF Original THEN Last(lengths) ELSE lengths[table]

Comparing == cursors.open

\* A mapped table is built without its maps before its first pair.
OriginalMissing == Mapped(Columns) /\ cursors.job = 0 /\ ~Original

BuildOriginal ==
    /\ stage = "order" /\ ~Comparing /\ OriginalMissing
    /\ stage' = "build"
    /\ UNCHANGED <<merge, table, lengths, walk, cursors, position, groups, ids, budget, verdict>>

\* The next pair; behind the last one of the original table it is released.
NextJob ==
    /\ stage = "order" /\ ~Comparing /\ ~OriginalMissing
    /\ LET next  == cursors.job + 1
           freed == Original /\ next > Len(merge.pairs[table])
           space == IF freed THEN -LengthSpace(Columns) ELSE 0
           kept  == IF freed THEN Front(lengths) ELSE lengths
       IN  IF next > JobCount
           THEN /\ stage' = IF table = Len(Tables) THEN "groups" ELSE "order"
                /\ table' = IF table = Len(Tables) THEN table ELSE table + 1
                /\ lengths' = kept
                /\ budget' = Charged(0, space)
                /\ cursors' = [cursors EXCEPT !.job = 0]
                /\ UNCHANGED <<merge, walk, position, groups, ids, verdict>>
           ELSE IF ~Affordable(1, space) THEN Fail("resource")
           ELSE LET pair == JobPair(next)
                    grown == [s \in 1 .. 2 |-> IF cursors.capacity[s] = 0 THEN 8 ELSE cursors.capacity[s]]
                    more  == ElementBytes.task * (grown[1] + grown[2] - cursors.capacity[1] - cursors.capacity[2])
                IN  /\ cursors' = [job |-> next, left |-> <<NodeTask(pair[1])>>,
                                   right |-> <<NodeTask(pair[2])>>, spelled |-> <<>>, byte |-> <<>>, open |-> TRUE,
                                   capacity |-> grown]
                    /\ lengths' = kept
                    /\ budget' = Charged(1, space + more)
                    /\ UNCHANGED <<merge, stage, table, walk, position, groups, ids, verdict>>

\* The capacity after a stack has grown to a length, from 8 by doubling.
Grown(capacity, length) ==
    CHOOSE k \in {capacity * 2 ^ i : i \in 0 .. 6} :
        k >= length /\ (k = capacity \/ k \div 2 < length)

Exhausted == <<-1>>

\* next_byte of one cursor, a task at a time: the left one until it yields a
\* byte or ends, then the right one.
PopTask(side, stack) ==
    LET task  == Head(stack)
        rest  == Replace(JobColumns, JobLengths, task) \o Tail(stack)
        room  == Grown(cursors.capacity[side], Len(rest))
        space == ElementBytes.task * (room - cursors.capacity[side])
    IN  IF ~Affordable(1, space) THEN Fail("resource")
        ELSE /\ cursors' = [cursors EXCEPT
                              !.left = IF side = 1 THEN rest ELSE @,
                              !.right = IF side = 2 THEN rest ELSE @,
                              !.byte = @ \o TaskByte(task),
                              !.capacity[side] = room]
             /\ budget' = Charged(1, space)
             /\ UNCHANGED <<merge, stage, table, lengths, walk, position, groups, ids, verdict>>

NextByteLeft ==
    /\ stage = "order" /\ cursors.byte = <<>> /\ Comparing
    /\ IF cursors.left # <<>> THEN PopTask(1, cursors.left)
       ELSE /\ cursors' = [cursors EXCEPT !.byte = Exhausted]
            /\ UNCHANGED <<merge, stage, table, lengths, walk, position, groups, ids, budget, verdict>>

NextByteRight ==
    /\ stage = "order" /\ Len(cursors.byte) = 1
    /\ IF cursors.right # <<>> THEN PopTask(2, cursors.right)
       ELSE /\ cursors' = [cursors EXCEPT !.byte = @ \o Exhausted]
            /\ UNCHANGED <<merge, stage, table, lengths, walk, position, groups, ids, budget, verdict>>

\* compare_nodes: equal bytes go on, a smaller left byte (or end) decides
\* "less" and anything else is out of order.
CompareBytes ==
    /\ stage = "order" /\ Len(cursors.byte) = 2
    /\ LET l == cursors.byte[1]  r == cursors.byte[2]
       IN  IF l = r /\ l # -1
           THEN /\ cursors' = [cursors EXCEPT !.spelled = Append(@, l), !.byte = <<>>]
                /\ UNCHANGED <<merge, stage, table, lengths, walk, position, groups, ids, budget, verdict>>
           ELSE IF l < r
           THEN /\ cursors' = [cursors EXCEPT !.left = <<>>, !.right = <<>>, !.spelled = <<>>,
                                              !.byte = <<>>, !.open = FALSE]
                /\ UNCHANGED <<merge, stage, table, lengths, walk, position, groups, ids, budget, verdict>>
           ELSE Fail(IF Mapped(Columns) /\ JobMapped(cursors.job) THEN "unsupported" ELSE "malformed")

-----------------------------------------------------------------------------
(* The merge proper and the anonymous numbering.  The comparisons of the    *)
(* merge are one step each: of their work a unit per open table is charged, *)
(* and the growth of the cursors, which already compared every table, none. *)

\* The key of the root a table stands at.
Key(t, at) == <<Tables[t].rootKind[at], merge.mapped[t][Tables[t].rootId[at]]>>

NextGroup ==
    /\ stage = "groups"
    /\ LET at   == [t \in DOMAIN Tables |-> SelectedRoot(Tables[t], position[t][1], position[t][2])]
           open == {t \in DOMAIN Tables : at[t][1] < Len(Tables[t].rootKind)}
           key  == [t \in open |-> Key(t, at[t][1] + 1)]
           equal == MergeGroup(open, key)
       IN  IF open = {}
           THEN /\ stage' = "anonymous"
                /\ UNCHANGED <<merge, table, lengths, walk, cursors, position, groups, ids, budget, verdict>>
           ELSE IF ~Affordable(Cardinality(open), 0) THEN Fail("resource")
           ELSE /\ groups' = Append(groups, [t \in equal |-> at[t][1] + 1])
                /\ position' = [t \in DOMAIN Tables |->
                                  IF t \in equal THEN <<at[t][1] + 1, at[t][2]>> ELSE at[t]]
                /\ budget' = Charged(Cardinality(open), 0)
                /\ UNCHANGED <<merge, stage, table, lengths, walk, cursors, ids, verdict>>

Coordinates == UNION {{<<t, n>> : n \in {m \in Nodes(Tables[t]) : Tag(Tables[t], m) = "AnonymousIndividual"}} :
                         t \in DOMAIN Tables}

Parts(x) == AnonymousParts(Tables[x[1]], x[2])

LeastOf(open) == CHOOSE x \in open : \A y \in open : ~PartsLess(Parts(y), Parts(x))

\* compare_effective_anonymous_nodes reads both scopes and both keys.
CompareWork(x, y) == 1 + 2 + Len(Parts(x)[2]) + Len(Parts(y)[2])

\* One round: every open coordinate against the least before it, in the order
\* of tables and nodes, and then against the least of all.
RoundWork(open) ==
    LET before(x) == {y \in open : y[1] < x[1] \/ (y[1] = x[1] /\ y[2] < x[2])}
    IN  MapThenSumSet(LAMBDA x : CompareWork(x, LeastOf(open))
                                 + (IF before(x) = {} THEN 0 ELSE CompareWork(x, LeastOf(before(x)))),
                      open)

\* assign_anonymous_positions: the least unnumbered individual and every
\* coordinate equal to it take the next number.
AssignPosition ==
    /\ stage = "anonymous"
    /\ LET open  == Coordinates \ DOMAIN ids
           equal == {x \in open : Parts(x) = Parts(LeastOf(open))}
           next  == Cardinality({ids[x] : x \in DOMAIN ids})
       IN  IF open = {}
           THEN /\ stage' = "done" /\ verdict' = "ok"
                /\ UNCHANGED <<merge, table, lengths, walk, cursors, position, groups, ids, budget>>
           ELSE IF ~Affordable(RoundWork(open), 0) THEN Fail("resource")
           ELSE /\ ids' = ids @@ [x \in equal |-> next]
                /\ budget' = Charged(RoundWork(open), 0)
                /\ UNCHANGED <<merge, stage, table, lengths, walk, cursors, position, groups, verdict>>

\* consume sees the cancellation flag at the next charge.
CancelMerge == stage # "done" /\ Fail("cancelled")

MergeInit ==
    /\ merge \in {Prepared(Union[m]) : m \in DOMAIN Union}
    /\ stage = IF ElementBytes.table * Len(Tables) > merge.maxSpace THEN "done" ELSE "build"
    /\ verdict = IF stage = "done" THEN "resource" ELSE "running"
    /\ table = 1 /\ lengths = <<>> /\ groups = <<>> /\ ids = <<>>
    /\ position = [t \in DOMAIN Tables |-> <<0, 0>>]
    /\ walk = [initial |-> 0, color |-> <<>>, events |-> <<>>]
    /\ cursors = [job |-> 0, left |-> <<>>, right |-> <<>>, spelled |-> <<>>, byte |-> <<>>, open |-> FALSE,
                  capacity |-> <<0, 0>>]
    /\ budget = [work |-> 0, space |-> ElementBytes.table * Len(Tables)]

MergeStep ==
    \/ Build \/ WalkInitial \/ WalkEvent \/ BuildOriginal \/ NextJob
    \/ NextByteLeft \/ NextByteRight \/ CompareBytes
    \/ NextGroup \/ AssignPosition

MergeNext == MergeStep \/ CancelMerge

MergeSpec == MergeInit /\ [][MergeNext]_mergeVars

-----------------------------------------------------------------------------
(* Properties.                                                             *)

\* The task stacks spell the recursive encoding: at any moment the bytes read
\* so far are a prefix of both encodings, and an empty stack means the end.
CursorsSpell ==
    stage = "order" /\ Comparing =>
        LET enc  == IF JobMapped(cursors.job) THEN merge.mapped[table] ELSE merge.plain[table]
            read == Len(cursors.spelled)
            ok(side, n, stack) ==
                /\ IsPrefix(cursors.spelled, enc[n])
                /\ Len(cursors.byte) >= side =>
                      IF cursors.byte[side] = -1 THEN Len(enc[n]) = read
                      ELSE Len(enc[n]) > read /\ enc[n][read + 1] = cursors.byte[side]
                /\ stack = <<>> => Len(enc[n]) <= read + (IF Len(cursors.byte) >= side THEN 1 ELSE 0)
        IN  ok(1, JobPair(cursors.job)[1], cursors.left) /\ ok(2, JobPair(cursors.job)[2], cursors.right)

\* The workspace counter is the size of what is alive: the fixed vectors, the
\* lengths of the tables built, a table built again without its maps until its
\* pairs are checked, the walk's colours and events, and both cursor stacks.  A release that
\* misses or doubles would end in "accounting underflow" or refuse a merge.
WorkspaceExact ==
    verdict = "running" =>
        LET of(t) == IF t \in DOMAIN Tables THEN Tables[t] ELSE Columns
            built == MapThenSumSet(LAMBDA t : LengthSpace(of(t)), DOMAIN lengths)
        IN  budget.space =
                ElementBytes.table * Len(Tables) + built
                + (IF stage = "walk" THEN WalkSpace(Columns) ELSE 0)
                + (IF Len(lengths) >= Len(Tables) /\ (stage # "walk" \/ Original) THEN HeaderSpace ELSE 0)
                + ElementBytes.task * (cursors.capacity[1] + cursors.capacity[2])

InOrder(pairs, enc) == \A i \in DOMAIN pairs : Lexicographic(enc[pairs[i][1]], enc[pairs[i][2]])

\* A merge is accepted exactly when every table is sound and its sets and
\* roots are sorted with and without the scope maps; a table that only the
\* maps bring out of order is "unsupported" (the caller falls back), never
\* "malformed".
VerdictExact ==
    verdict \in {"ok", "malformed", "unsupported"} =>
        LET sound  == \A t \in DOMAIN Tables : merge.mapped[t] # <<>>
            plain  == {t \in DOMAIN Tables : ~InOrder(merge.pairs[t], merge.plain[t])}
            mapped == {t \in DOMAIN Tables : ~InOrder(merge.pairs[t], merge.mapped[t])}
        IN  verdict = IF ~sound THEN "malformed"
                      ELSE IF plain \cup mapped = {} THEN "ok"
                      ELSE IF (CHOOSE t \in plain \cup mapped : \A u \in plain \cup mapped : t <= u) \in plain
                      THEN "malformed" ELSE "unsupported"

\* The groups are the roots the postings select in all tables, each in exactly one
\* group, in strictly increasing canonical order, and a group holds every
\* table that selects this root.
GroupsExact ==
    stage \in {"groups", "anonymous"} \/ verdict = "ok" =>
        LET selected(t) ==
                IF Tables[t].included # <<>> THEN ToSet(Tables[t].included)
                ELSE DOMAIN Tables[t].rootKind \ ToSet(Tables[t].excluded)
            key(g) == LET t == CHOOSE u \in DOMAIN g : TRUE IN Key(t, g[t])
        IN  /\ \A i \in 1 .. Len(groups) - 1 : RootLess(key(groups[i]), key(groups[i + 1]))
            /\ \A i \in DOMAIN groups : \A t \in DOMAIN Tables : \A r \in selected(t) :
                  (t \in DOMAIN groups[i] /\ groups[i][t] = r) <=> Key(t, r) = key(groups[i])
            /\ stage # "groups" => \A t \in DOMAIN Tables : \A r \in selected(t) :
                  \E i \in DOMAIN groups : t \in DOMAIN groups[i] /\ groups[i][t] = r

\* Anonymous numbers follow the effective scope and key: equal individuals of
\* different tables share a number, and the numbers have no gap.
NumbersCanonical ==
    stage = "anonymous" \/ verdict = "ok" =>
        /\ \A x, y \in DOMAIN ids : (ids[x] < ids[y]) <=> PartsLess(Parts(x), Parts(y))
        /\ {ids[x] : x \in DOMAIN ids} = 0 .. Cardinality({ids[x] : x \in DOMAIN ids}) - 1
        /\ verdict = "ok" => DOMAIN ids = Coordinates

\* What the merge hands to the compiler is exact: the groups and the numbers.
ResultExact == GroupsExact /\ NumbersCanonical

\* Byte equality is structural equality: two roots of tables without scope
\* maps share a group exactly when structurally_equal_node finds them equal.
\* Deduplication by bytes (the merge) and by structure (the selection of root
\* annotations) can never disagree.
BytesDecideStructure ==
    verdict = "ok" =>
        \A t, u \in {v \in DOMAIN Tables : Tables[v].scopeMaps = <<>>} :
            \A i \in DOMAIN Tables[t].rootId, j \in DOMAIN Tables[u].rootId :
                merge.mapped[t][Tables[t].rootId[i]] = merge.mapped[u][Tables[u].rootId[j]]
                <=> StructurallyEqual(Tables[t], Tables[t].rootId[i], Tables[u], Tables[u].rootId[j])

=============================================================================
