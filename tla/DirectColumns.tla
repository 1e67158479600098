--------------------------- MODULE DirectColumns ---------------------------
(***************************************************************************)
(* The encoded structural table of the native compiler: a read-only view   *)
(* of eleven flat columns (struct DirectColumns of encoded_direct.rs).     *)
(* Node n owns the fields offsets[n]+1 .. offsets[n+1]; a collection field  *)
(* owns the items value+1 .. value+length; a scalar field or item owns the  *)
(* cells value+1 .. value+length of the scalar arena.  Offsets and values   *)
(* keep the code's zero-based numbers, node identifiers its one-based ones. *)
(*                                                                         *)
(* A table is a record                                                     *)
(*   rootKind, rootId        the roots, canonical order                    *)
(*   included, excluded      root postings (1-based positions)             *)
(*   scopeMaps               a chain of maps, each a sequence of rows      *)
(*                           <<source scope, target scope>>                *)
(*   tag, offset             one tag per node, one offset more than nodes  *)
(*   fkind, fval, flen       the fields      ikind, ival, ilen  the items  *)
(*   arena                   the scalar bytes, one abstract token a cell   *)
(*                                                                         *)
(* Every check returns a verdict: "ok" or the KernelError it fails with.    *)
(***************************************************************************)
EXTENDS Integers, Sequences, FiniteSets, SequencesExt

CONSTANTS
    Alphabet,       \* the tokens of the arena in code order
    Uppercase,      \* the tokens lower-casing changes
    MaxIriBytes     \* DirectCompileOptions.max_iri_bytes

ASSUME ColumnsAssumption == MaxIriBytes \in Nat /\ IsInjective(Alphabet)

\* The `?` operator: the first verdict that is not "ok" ends the function.
a && b == IF a = "ok" THEN b ELSE a

Need(test) == IF test THEN "ok" ELSE "malformed"

\* The same function; the comparison makes TLC compute each value once.
Tabulated(f) == CHOOSE g \in {f} : g = f

\* The concatenation of a list of sequences, by halves.
Joined(parts) ==
    LET part[from \in 0 .. Len(parts), to \in 0 .. Len(parts)] ==
            IF to = from THEN <<>>
            ELSE IF to = from + 1 THEN parts[to]
            ELSE LET half == (from + to) \div 2 IN part[from, half] \o part[half, to]
    IN  part[0, Len(parts)]

Earliest(verdicts) ==
    LET bad == {i \in DOMAIN verdicts : verdicts[i] # "ok"}
    IN  IF bad = {} THEN "ok" ELSE verdicts[CHOOSE i \in bad : \A j \in bad : i <= j]

\* The verdict of a loop that returns at its first failing element.
FirstError(s, V(_)) == Earliest(Tabulated([i \in DOMAIN s |-> V(s[i])]))

StrictlyIncreasing(s) == \A i \in 1 .. Len(s) - 1 : s[i] < s[i + 1]

-----------------------------------------------------------------------------
(* Byte strings and their order.                                           *)

Code(t) == CHOOSE i \in DOMAIN Alphabet : Alphabet[i] = t

\* Slice order: the first differing byte decides, a proper prefix is smaller.
BytesLess(x, y) ==
    \/ Len(x) < Len(y) /\ \A i \in DOMAIN x : x[i] = y[i]
    \/ \E i \in DOMAIN x \cap DOMAIN y :
          /\ \A j \in 1 .. i - 1 : x[j] = y[j]
          /\ Code(x[i]) < Code(y[i])

\* LEB128: low seven bits first, the high bit marks a continuation.
Varint(v) ==
    LET len == CHOOSE k \in 1 .. 5 : v < 128 ^ k /\ (k = 1 \/ v >= 128 ^ (k - 1))
    IN  [i \in 1 .. len |-> ((v \div 128 ^ (i - 1)) % 128) + (IF i < len THEN 128 ELSE 0)]

\* compare_canonical_varints: the encodings are compared, not the numbers.
VarintLess(v, w) ==
    LET x == Varint(v)  y == Varint(w)
    IN  \/ Len(x) < Len(y) /\ \A i \in DOMAIN x : x[i] = y[i]
        \/ \E i \in DOMAIN x \cap DOMAIN y :
              (\A j \in 1 .. i - 1 : x[j] = y[j]) /\ x[i] < y[i]

-----------------------------------------------------------------------------
(* Access to the columns.                                                  *)

NodeCount(c) == Len(c.tag)
Nodes(c) == 1 .. NodeCount(c)

Tag(c, n) == IF n \in Nodes(c) THEN c.tag[n] ELSE "absent"

FieldsOf(c, n) == IF n \in Nodes(c) THEN c.offset[n] + 1 .. c.offset[n + 1] ELSE {}

Exact(c, n, arity) == Need(n \in Nodes(c) /\ c.offset[n + 1] - c.offset[n] = arity)

\* The place of a field, 0 when the node or the field is not there.
Field(c, n, i) ==
    IF n \in Nodes(c) /\ c.offset[n] + i <= c.offset[n + 1] THEN c.offset[n] + i ELSE 0

\* The node a field refers to, 0 when the field is no node reference.
RefAt(c, f) ==
    IF f # 0 /\ c.fkind[f] = "node" /\ c.flen[f] = 0 /\ c.fval[f] \in Nodes(c) THEN c.fval[f] ELSE 0

Ref(c, n, i) == RefAt(c, Field(c, n, i))

ItemIndexes(c, f) == c.fval[f] + 1 .. c.fval[f] + c.flen[f]

ItemNode(c, k) ==
    IF k <= Len(c.ikind) /\ c.ikind[k] = "node" /\ c.ilen[k] = 0 /\ c.ival[k] \in Nodes(c)
    THEN c.ival[k] ELSE 0

ItemsAt(c, f) == [k \in 1 .. c.flen[f] |-> ItemNode(c, c.fval[f] + k)]

Items(c, n, i) == ItemsAt(c, Field(c, n, i))

CollectionAt(c, f, kind, minimum) ==
    Need(/\ f # 0 /\ c.fkind[f] = kind
         /\ c.fval[f] + c.flen[f] <= Len(c.ikind)
         /\ c.flen[f] >= minimum
         /\ \A k \in ItemIndexes(c, f) : ItemNode(c, k) # 0)

Collection(c, n, i, kind, minimum) == CollectionAt(c, Field(c, n, i), kind, minimum)

NodeSequence(c, n, i, minimum) == Collection(c, n, i, "sequence", minimum)

NodeSet(c, n, i, minimum) ==
    Collection(c, n, i, "set", minimum) && Need(StrictlyIncreasing(Items(c, n, i)))

ScalarFits(c, f, kind) == f # 0 /\ c.fkind[f] = kind /\ c.fval[f] + c.flen[f] <= Len(c.arena)

HasScalar(c, n, i, kind) == ScalarFits(c, Field(c, n, i), kind)

ScalarAt(c, f) == SubSeq(c.arena, c.fval[f] + 1, c.fval[f] + c.flen[f])

Scalar(c, n, i) == ScalarAt(c, Field(c, n, i))

\* A minimal little-endian integer: not empty, no trailing zero byte.
MinimalInteger(s) == Need(s # <<>> /\ ~(Len(s) > 1 /\ Last(s) = "0"))

CanonicalInteger(c, n, i) ==
    Need(HasScalar(c, n, i, "integer")) && MinimalInteger(Scalar(c, n, i))

\* The nodes a node refers to through a node field or a collection item.
ChildSet(c, n) ==
    LET fields == {Ref(c, n, i) : i \in 1 .. Cardinality(FieldsOf(c, n))}
        items  == UNION {{ItemNode(c, k) : k \in ItemIndexes(c, f)} :
                            f \in {g \in FieldsOf(c, n) : c.fkind[g] \in {"set", "sequence"}}}
    IN  (fields \cup items) \ {0}

-----------------------------------------------------------------------------
(* Root selection by postings: INCLUDE postings when there are any,         *)
(* EXCLUDE postings otherwise, found by binary search.                      *)

LowerBound(p, target) ==
    LET search[s \in 0 .. Len(p), e \in 0 .. Len(p)] ==
            LET middle == s + (e - s) \div 2
            IN  IF s >= e THEN s
                ELSE IF p[middle + 1] < target THEN search[middle + 1, e]
                ELSE search[s, middle]
    IN  search[0, Len(p)]

RootIsSelected(c, position) ==
    LET including == c.included # <<>>
        postings  == IF including THEN c.included ELSE c.excluded
        k         == LowerBound(postings, position)
        found     == k < Len(postings) /\ postings[k + 1] = position
    IN  found <=> including

SelectedRootCount(c) ==
    IF c.included # <<>> THEN Len(c.included) ELSE Len(c.rootKind) - Len(c.excluded)

SelectedRoots(c) == SelectSeq([i \in DOMAIN c.rootKind |-> i], LAMBDA i : RootIsSelected(c, i))

-----------------------------------------------------------------------------
(* Anonymous individuals.  The chain of scope maps is applied in order, one *)
(* lookup in each.                                                          *)

Remap(c, scope) ==
    FoldLeft(LAMBDA s, m : IF \E k \in DOMAIN m : m[k][1] = s
                           THEN (CHOOSE r \in ToSet(m) : r[1] = s)[2] ELSE s,
             scope, c.scopeMaps)

\* The document scope is bytes32 (one token here), the local key not empty.
Anonymous(c, n) ==
    Need(Tag(c, n) = "AnonymousIndividual") && Exact(c, n, 2) &&
    Need(/\ HasScalar(c, n, 1, "bytes") /\ HasScalar(c, n, 2, "bytes")
         /\ Len(Scalar(c, n, 1)) = 1 /\ Scalar(c, n, 2) # <<>>)

AnonymousParts(c, n) == <<Remap(c, Scalar(c, n, 1)[1]), Scalar(c, n, 2)>>

\* The order of individuals: scope, then encoded key length, then key.
PartsLess(x, y) ==
    \/ Code(x[1]) < Code(y[1])
    \/ x[1] = y[1] /\ VarintLess(Len(x[2]), Len(y[2]))
    \/ x[1] = y[1] /\ Len(x[2]) = Len(y[2]) /\ BytesLess(x[2], y[2])

\* compare_anonymous_nodes of two nodes of one table.
AnonymousLess(c, m, n) == PartsLess(AnonymousParts(c, m), AnonymousParts(c, n))

-----------------------------------------------------------------------------
(* validate_generic: the columns alone, before any tag is interpreted.      *)

ColumnLengths(c) ==
    Need(/\ Len(c.rootId) = Len(c.rootKind)
         /\ c.included = <<>> \/ c.excluded = <<>>)

ScopeMapRows(c) ==
    FirstError(c.scopeMaps,
               LAMBDA m : Need(/\ \A k \in DOMAIN m : m[k][1] # m[k][2]
                               /\ StrictlyIncreasing([k \in DOMAIN m |-> Code(m[k][1])])))

OffsetsCover(c) ==
    Need(/\ Len(c.offset) = NodeCount(c) + 1
         /\ Len(c.fval) = Len(c.fkind) /\ Len(c.flen) = Len(c.fkind)
         /\ Len(c.ival) = Len(c.ikind) /\ Len(c.ilen) = Len(c.ikind)
         /\ c.offset[1] = 0
         /\ \A i \in 1 .. NodeCount(c) : c.offset[i] <= c.offset[i + 1]
         /\ Last(c.offset) = Len(c.fkind))

RootsCanonical(c) ==
    Need(/\ \A i \in DOMAIN c.rootKind : c.rootKind[i] \in 1 .. 3 /\ c.rootId[i] \in Nodes(c)
         /\ \A i \in 1 .. Len(c.rootKind) - 1 :
               \/ c.rootKind[i] < c.rootKind[i + 1]
               \/ c.rootKind[i] = c.rootKind[i + 1] /\ c.rootId[i] < c.rootId[i + 1])

PostingsCanonical(c) ==
    FirstError(<<c.included, c.excluded>>,
               LAMBDA p : Need(/\ StrictlyIncreasing(p)
                               /\ \A k \in DOMAIN p : p[k] \in 1 .. Len(c.rootKind)))

\* Mutant: a scalar may start anywhere.
LeafCursorGapped(c, kind, value, length, cursor) ==
    CASE kind = "none" -> IF value = 0 /\ length = 0 THEN cursor ELSE -1
      [] kind = "node" -> IF length = 0 /\ value \in Nodes(c) THEN cursor ELSE -1
      [] kind \in {"text", "bytes", "integer", "enum"} ->
            IF length <= Len(c.arena) - cursor THEN cursor + length ELSE -1
      [] OTHER -> -1

\* validate_leaf: the scalar cursor after one leaf, -1 when the leaf is bad.
LeafCursor(c, kind, value, length, cursor) ==
    CASE kind = "none" -> IF value = 0 /\ length = 0 THEN cursor ELSE -1
      [] kind = "node" -> IF length = 0 /\ value \in Nodes(c) THEN cursor ELSE -1
      [] kind \in {"text", "bytes", "integer", "enum"} ->
            IF value = cursor /\ length <= Len(c.arena) - cursor THEN cursor + length ELSE -1
      [] OTHER -> -1

\* The scalar cursor over the items of one collection.
ItemCursor(c, first, length, cursor) ==
    LET scan[j \in 0 .. length] ==
            IF j = 0 THEN cursor
            ELSE LET s == scan[j - 1]  k == first + j
                 IN  IF s = -1 THEN -1 ELSE LeafCursor(c, c.ikind[k], c.ival[k], c.ilen[k], s)
    IN  scan[length]

\* Both cursors after one collection field, which starts at the item cursor;
\* the items of a set are node references in strictly increasing order.
CollectionCursor(c, f, here) ==
    LET end    == here[1] + c.flen[f]
        scalar == ItemCursor(c, here[1], c.flen[f], here[2])
        fits   == c.fval[f] = here[1] /\ end <= Len(c.ikind)
        sorted == c.fkind[f] = "set" =>
                     /\ \A k \in here[1] + 1 .. end : c.ikind[k] = "node"
                     /\ StrictlyIncreasing(SubSeq(c.ival, here[1] + 1, end))
    IN  IF fits /\ sorted /\ scalar # -1 THEN <<end, scalar>> ELSE <<-1, -1>>

FieldCursor(c, f, here) ==
    LET scalar == LeafCursor(c, c.fkind[f], c.fval[f], c.flen[f], here[2])
    IN  IF here[1] = -1 THEN here
        ELSE IF c.fkind[f] \in {"set", "sequence"} THEN CollectionCursor(c, f, here)
        ELSE IF scalar = -1 THEN <<-1, -1>> ELSE <<here[1], scalar>>

\* Both cursors, or the mark of a bad field.
Cursors == (Nat \X Nat) \cup {<<-1, -1>>}

\* The item and the scalar cursor advance field by field to the very end; the
\* loop is halved to keep the recursion flat.
CursorsCover(c) ==
    LET fields == Len(c.fkind)
        after[r \in [from : 0 .. fields, to : 0 .. fields, here : Cursors]] ==
            IF r.to <= r.from THEN r.here
            ELSE IF r.to = r.from + 1 THEN FieldCursor(c, r.to, r.here)
            ELSE LET half  == (r.from + r.to) \div 2
                     there == after[[from |-> r.from, to |-> half, here |-> r.here]]
                 IN  after[[from |-> half, to |-> r.to, here |-> there]]
    IN  Need(after[[from |-> 0, to |-> fields, here |-> <<0, 0>>]] = <<Len(c.ikind), Len(c.arena)>>)

ValidateGeneric(c) ==
    ColumnLengths(c) && ScopeMapRows(c) && OffsetsCover(c) && RootsCanonical(c)
    && PostingsCanonical(c) && CursorsCover(c)

-----------------------------------------------------------------------------
(* Leaves of the grammar: IRIs, entities and literals.                      *)

EntityKinds == {"class", "datatype", "object_property", "data_property",
                "annotation_property", "named_individual"}

Utf8(s) == "xFF" \notin ToSet(s)

Iri(c, n) ==
    Need(Tag(c, n) = "IRI") && Exact(c, n, 1) && Need(HasScalar(c, n, 1, "text")) &&
    (IF Len(Scalar(c, n, 1)) > MaxIriBytes THEN "resource" ELSE Need(Utf8(Scalar(c, n, 1))))

IriText(c, n) == Scalar(c, n, 1)

Entity(c, n) ==
    Need(Tag(c, n) = "Entity") && Exact(c, n, 2) &&
    Need(/\ HasScalar(c, n, 1, "enum") /\ Len(Scalar(c, n, 1)) = 1
         /\ Scalar(c, n, 1)[1] \in EntityKinds
         /\ Tag(c, Ref(c, n, 2)) = "IRI")

EntityKind(c, n) == Scalar(c, n, 1)[1]
EntityIri(c, n) == IriText(c, Ref(c, n, 2))
=============================================================================
