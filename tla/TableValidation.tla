-------------------------- MODULE TableValidation --------------------------
(***************************************************************************)
(* The preflight of one structural table: validate_generic, then           *)
(* validate_supported_nodes, which ends with three walks that reject        *)
(* cyclic annotations, class expressions and data ranges without            *)
(* recursion.  Each walk is a depth-first search with an explicit stack of  *)
(* enter and exit events and three colours (0 new, 1 entered, 2 left); a    *)
(* node with several parents may wait on the stack more than once.          *)
(*                                                                         *)
(* columns  the table, never written            stage   the current check    *)
(* at       the next start node of the walk    colors  one colour per node   *)
(* stack    pending events <<node, "enter" or "exit">>, top last             *)
(* work     events popped in this walk (work_index)                         *)
(* verdict  "running", then the result of the preflight                      *)
(***************************************************************************)
EXTENDS OwlSignature, EdgeOrder

CONSTANT Table      \* the tables handed to the compiler, by name

\* A view of typed arrays: numbers are unsigned, a tag and a kind are codes.
IsTable(c) ==
    /\ {c.tag, c.fkind, c.ikind, c.arena} \subseteq Seq(STRING)
    /\ {c.offset, c.fval, c.flen, c.ival, c.ilen} \subseteq Seq(Nat)

ASSUME TableAssumption == \A x \in DOMAIN Table : IsTable(Table[x])

VARIABLES columns, stage, at, colors, stack, work, verdict

tableVars == <<columns, stage, at, colors, stack, work, verdict>>

Stages == <<"generic", "nodes", "annotation", "class", "data", "done">>
Walks == {"annotation", "class", "data"}

NextStage(s) == Stages[1 + CHOOSE i \in DOMAIN Stages : Stages[i] = s]

-----------------------------------------------------------------------------
(* The graph of each walk.                                                 *)

WalkTags(walk) ==
    CASE walk = "annotation" -> {"Annotation"}
      [] walk = "class" -> RecursiveClassTags
      [] walk = "data" -> RecursiveDataRangeTags

OnWalk(c, walk, n) == Tag(c, n) \in WalkTags(walk)

\* recursive_class_single_child: complement 1, quantified 2, cardinality 3.
SingleChild(c, n) ==
    Ref(c, n, CASE Tag(c, n) = "ObjectComplementOf" -> 1
                [] Tag(c, n) \in {"ObjectSomeValuesFrom", "ObjectAllValuesFrom"} -> 2
                [] OTHER -> 3)

AnnotationChildren(c, n) == Items(c, n, 3)

ClassChildren(c, n) == IF Tag(c, n) \in AggregateTags THEN Items(c, n, 1) ELSE <<SingleChild(c, n)>>

DataRangeChildren(c, n) ==
    IF Tag(c, n) = "DataComplementOf" THEN <<Ref(c, n, 1)>> ELSE Items(c, n, 1)

\* The children of a node that are on the walk, in field order.
Children(c, walk, n) ==
    LET all == CASE walk = "annotation" -> AnnotationChildren(c, n)
                 [] walk = "class" -> ClassChildren(c, n)
                 [] walk = "data" -> DataRangeChildren(c, n)
    IN  Picked(all, {i \in DOMAIN all : OnWalk(c, walk, all[i])})

\* The scan in front of each walk that skips a table without nesting.
NeedsWalk(c, walk) ==
    \E n \in Nodes(c) : /\ OnWalk(c, walk, n)
                        /\ walk = "data" \/ Children(c, walk, n) # <<>>

-----------------------------------------------------------------------------
TableInit ==
    /\ columns \in {Table[x] : x \in DOMAIN Table}
    /\ stage = "generic" /\ at = 1 /\ stack = <<>> /\ colors = <<>> /\ work = 0
    /\ verdict = "running"

Running(s) == stage = s /\ verdict = "running"

\* One check of the whole table: fail with its error or go to the next.
Conclude(v) ==
    /\ verdict' = IF v = "ok" THEN "running" ELSE v
    /\ stage' = IF v = "ok" THEN NextStage(stage) ELSE stage
    /\ UNCHANGED <<columns, at, colors, stack, work>>

CheckGeneric == Running("generic") /\ Conclude(ValidateGeneric(columns))

CheckNodes == Running("nodes") /\ Conclude(ValidateNodes(columns))

SkipWalk(walk) == Running(walk) /\ colors = <<>> /\ ~NeedsWalk(columns, walk) /\ Conclude("ok")

StartWalk(walk) ==
    /\ Running(walk) /\ colors = <<>> /\ NeedsWalk(columns, walk)
    /\ colors' = [n \in Nodes(columns) |-> 0]
    /\ at' = 1 /\ work' = 0
    /\ UNCHANGED <<columns, stage, stack, verdict>>

\* The start nodes of the outer loop that are still to be queued.
PendingStarts(walk) == {n \in at .. NodeCount(columns) : OnWalk(columns, walk, n) /\ colors[n] # 2}

QueueStart(walk) ==
    /\ Running(walk) /\ colors # <<>> /\ stack = <<>> /\ PendingStarts(walk) # {}
    /\ LET n == Min(PendingStarts(walk)) IN stack' = <<<<n, "enter">>>> /\ at' = n + 1
    /\ UNCHANGED <<columns, stage, colors, work, verdict>>

EndWalk(walk) ==
    /\ Running(walk) /\ colors # <<>> /\ stack = <<>> /\ PendingStarts(walk) = {}
    /\ stage' = NextStage(stage) /\ colors' = <<>> /\ work' = 0
    /\ UNCHANGED <<columns, at, stack, verdict>>

Cyclic == verdict' = "malformed" /\ UNCHANGED <<columns, stage, at, colors, stack>>

\* Mutant: a child that was left already counts as a cycle.
ClosesShared(kids, after) == \E m \in ToSet(kids) : after[m] # 0

\* A child that is entered and not left closes a cycle.
Closes(kids, after) == \E m \in ToSet(kids) : after[m] = 1

\* Mutant: a node that is left may be entered again.
LeftForgotten(n) == [colors EXCEPT ![n] = 0]

Left(n) == [colors EXCEPT ![n] = 2]

\* Entering a new node: its exit event, then its children, last child first.
Enter(walk, n, rest) ==
    LET kids  == Children(columns, walk, n)
        last  == Reverse(kids)
        after == [colors EXCEPT ![n] = 1]
        fresh == Picked(last, {i \in DOMAIN last : after[last[i]] = 0})
    IN  IF Closes(kids, after) THEN Cyclic
        ELSE /\ colors' = after
             /\ stack' = rest \o <<<<n, "exit">>>> \o [i \in DOMAIN fresh |-> <<fresh[i], "enter">>]
             /\ UNCHANGED <<columns, stage, at, verdict>>

\* The inner loop: pop one event.
PopEvent(walk) ==
    /\ Running(walk) /\ stack # <<>>
    /\ work' = work + 1
    /\ LET n == Last(stack)[1]  exiting == Last(stack)[2] = "exit"  rest == Front(stack)
       IN  \/ exiting /\ colors' = Left(n) /\ stack' = rest /\ UNCHANGED <<columns, stage, at, verdict>>
           \/ ~exiting /\ colors[n] = 2 /\ stack' = rest /\ UNCHANGED <<columns, stage, at, colors, verdict>>
           \/ ~exiting /\ colors[n] = 1 /\ Cyclic
           \/ ~exiting /\ colors[n] = 0 /\ Enter(walk, n, rest)

\* check_cancel, polled in every loop of the preflight.
CancelPreflight ==
    /\ verdict = "running" /\ stage # "done"
    /\ verdict' = "cancelled"
    /\ UNCHANGED <<columns, stage, at, colors, stack, work>>

Accept == Running("done") /\ verdict' = "ok" /\ UNCHANGED <<columns, stage, at, colors, stack, work>>

WalkStep(walk) ==
    SkipWalk(walk) \/ StartWalk(walk) \/ QueueStart(walk) \/ EndWalk(walk) \/ PopEvent(walk)

TableNext ==
    \/ CheckGeneric \/ CheckNodes \/ (\E walk \in Walks : WalkStep(walk))
    \/ Accept \/ CancelPreflight

TableSpec == TableInit /\ [][TableNext]_tableVars

-----------------------------------------------------------------------------
(* Properties.                                                             *)

\* A finite graph has no cycle when taking away the nodes without a successor,
\* as often as there are nodes, leaves none.
NoCycle(S, successors) ==
    LET left[k \in 0 .. Cardinality(S)] ==
            IF k = 0 THEN S ELSE LET prev == left[k - 1] IN {n \in prev : successors[n] \cap prev # {}}
    IN  left[Cardinality(S)] = {}

\* The nodes of a walk, and the references between them, by their place.
OnNodes(walk) == {n \in Nodes(columns) : OnWalk(columns, walk, n)}

WalkGraph(walk) == [n \in OnNodes(walk) |-> ToSet(Children(columns, walk, n))]

References(walk) == UNION {{n} \X DOMAIN Children(columns, walk, n) : n \in OnNodes(walk)}

\* A walk rejects a table exactly for a cycle.  An accepted table is acyclic over
\* ALL references, although each walk sees the references of one family only, so
\* no later traversal of encoded_direct.rs can loop; and a sub-expression shared
\* by several parents, queued more than once, is no cycle.
CyclesExact ==
    /\ verdict = "ok" => NoCycle(Nodes(columns), [n \in Nodes(columns) |-> ChildSet(columns, n)])
    /\ (verdict = "malformed" /\ stage \in Walks) => ~NoCycle(OnNodes(stage), WalkGraph(stage))

\* The parts cover the whole, and each element of it belongs to one part.
Partition(part, whole) ==
    /\ UNION {part[x] : x \in DOMAIN part} = whole
    /\ \A x, y \in DOMAIN part : x # y => part[x] \cap part[y] = {}

CollectionFields(c) == {f \in DOMAIN c.fkind : c.fkind[f] \in {"set", "sequence"}}

\* The scalars of a table, in a field or in an item of a collection, and the
\* bytes of the arena each of them owns.
ScalarKinds == {"text", "bytes", "integer", "enum"}

Scalars(c) ==
    {<<"field", f>> : f \in {g \in DOMAIN c.fkind : c.fkind[g] \in ScalarKinds}}
    \cup {<<"item", k>> : k \in {j \in DOMAIN c.ikind : c.ikind[j] \in ScalarKinds}}

Span(c, x) ==
    IF x[1] = "field" THEN c.fval[x[2]] + 1 .. c.fval[x[2]] + c.flen[x[2]]
    ELSE c.ival[x[2]] + 1 .. c.ival[x[2]] + c.ilen[x[2]]

\* After validate_generic every field belongs to one node, every item to one
\* collection field, every byte of the arena to one scalar, and every reference
\* is in range: no accessor of DirectColumns fails on a checked table.
GenericPartition ==
    stage = "nodes" =>
        LET c == columns
        IN  /\ Partition([n \in Nodes(c) |-> FieldsOf(c, n)], DOMAIN c.fkind)
            /\ Partition([f \in CollectionFields(c) |-> ItemIndexes(c, f)], DOMAIN c.ikind)
            /\ Partition([x \in Scalars(c) |-> Span(c, x)], DOMAIN c.arena)
            /\ \A f \in DOMAIN c.fkind : c.fkind[f] = "node" => c.fval[f] \in Nodes(c)
            /\ \A k \in DOMAIN c.ikind : c.ikind[k] = "node" => c.ival[k] \in Nodes(c)

\* The node checks of the compiler, one method per constructor, accept exactly
\* the tables whose every node fits the OWL 2 signature of its constructor.
NodesExact ==
    /\ (stage = "annotation" /\ colors = <<>>) =>
          \A n \in Nodes(columns) : Conforms(columns, n) /\ Canonical(columns, n)
    /\ (stage = "nodes" /\ verdict \in {"malformed", "unsupported"}) =>
          \E n \in Nodes(columns) : ~Conforms(columns, n) \/ ~Canonical(columns, n)

\* Between two start nodes a walk has popped at most one enter event per reference
\* and start node and one exit event per node, however often nodes are shared.
WorkBounded ==
    (stage \in Walks /\ colors # <<>> /\ stack = <<>>) =>
        work <= 2 * Cardinality(OnNodes(stage)) + Cardinality(References(stage))
=============================================================================
