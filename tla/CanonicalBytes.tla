--------------------------- MODULE CanonicalBytes ---------------------------
(***************************************************************************)
(* The canonical encoding by which the native compiler orders and merges    *)
(* the nodes of different tables (mod canonical_merge), as operators: the   *)
(* components of a node, the precomputed lengths, the task stack of the     *)
(* byte cursor, the order on roots, and one round of the k-way merge.       *)
(* A cell of the arena is one byte, its place in the alphabet.           *)
(***************************************************************************)
EXTENDS NodeGrammar

CONSTANT IntegerByte        \* integer token -> its byte

ASSUME IntegerByteAssumption == \A t \in DOMAIN IntegerByte : IntegerByte[t] \in 0 .. 255

Numbered(first, tags) ==
    [t \in ToSet(tags) |-> first - 1 + (CHOOSE i \in DOMAIN tags : tags[i] = t)]

ExpressionNumber ==
    Numbered(1, <<"IRI", "Entity", "AnonymousIndividual", "Literal", "Annotation">>)
    @@ Numbered(10, <<"ObjectInverseOf", "ObjectPropertyChain">>)
    @@ Numbered(20, <<"FacetRestriction", "DataIntersectionOf", "DataUnionOf", "DataComplementOf",
                      "DataOneOf", "DatatypeRestriction">>)
    @@ Numbered(30, <<"ObjectIntersectionOf", "ObjectUnionOf", "ObjectComplementOf", "ObjectOneOf",
                      "ObjectSomeValuesFrom", "ObjectAllValuesFrom", "ObjectHasValue", "ObjectHasSelf",
                      "ObjectMinCardinality", "ObjectMaxCardinality", "ObjectExactCardinality",
                      "DataSomeValuesFrom", "DataAllValuesFrom", "DataHasValue", "DataMinCardinality",
                      "DataMaxCardinality", "DataExactCardinality">>)
    @@ Numbered(140, <<"Variable", "ClassAtom", "DataRangeAtom", "ObjectPropertyAtom",
                       "DataPropertyAtom", "BuiltInAtom", "SameIndividualAtom",
                       "DifferentIndividualsAtom", "SWRLRule">>)

AxiomNumber ==
    Numbered(60, <<"Declaration", "SubClassOf", "EquivalentClasses", "DisjointClasses", "DisjointUnion">>)
    @@ Numbered(70, <<"SubObjectPropertyOf", "EquivalentObjectProperties", "DisjointObjectProperties",
                      "InverseObjectProperties", "ObjectPropertyDomain", "ObjectPropertyRange",
                      "FunctionalObjectProperty", "InverseFunctionalObjectProperty",
                      "ReflexiveObjectProperty", "IrreflexiveObjectProperty",
                      "SymmetricObjectProperty", "AsymmetricObjectProperty",
                      "TransitiveObjectProperty">>)
    @@ Numbered(90, <<"SubDataPropertyOf", "EquivalentDataProperties", "DisjointDataProperties",
                      "DataPropertyDomain", "DataPropertyRange", "FunctionalDataProperty">>)
    @@ Numbered(100, <<"DatatypeDefinition", "HasKey">>)
    @@ Numbered(110, <<"SameIndividual", "DifferentIndividuals", "ClassAssertion",
                       "ObjectPropertyAssertion", "NegativeObjectPropertyAssertion",
                       "DataPropertyAssertion", "NegativeDataPropertyAssertion">>)
    @@ Numbered(120, <<"AnnotationAssertion", "SubAnnotationPropertyOf",
                       "AnnotationPropertyDomain", "AnnotationPropertyRange">>)

TagNumber == ExpressionNumber @@ AxiomNumber

KindNumber == Numbered(0, <<"none", "node", "text", "bytes", "integer", "enum", "set", "sequence">>)

-----------------------------------------------------------------------------
(* Components.                                                             *)

\* canonical_component of field or item k: its kind and what it holds, a
\* node, the bytes of a scalar or the item range of a collection.  Its checks of
\* UTF-8, enum and minimal integer are left out: validate_generic and the
\* preflight of the nodes have made them before any merge.
Component(c, k, item) ==
    LET kind  == IF item THEN c.ikind[k] ELSE c.fkind[k]
        value == IF item THEN c.ival[k] ELSE c.fval[k]
        len   == IF item THEN c.ilen[k] ELSE c.flen[k]
    IN  [kind |-> kind, node |-> IF kind = "node" THEN value ELSE 0,
         range |-> IF kind \in {"set", "sequence"} THEN <<value, len>> ELSE <<0, 0>>,
         text |-> IF kind \in {"text", "bytes", "enum", "integer"}
                  THEN SubSeq(c.arena, value + 1, value + len) ELSE <<>>]

\* anonymous_parts: the first field of an anonymous individual is remapped.
RemapScope(c, component) == [component EXCEPT !.text = <<Remap(c, component.text[1])>>]

VarintWidth(v) == CHOOSE w \in 1 .. 5 : v < 128 ^ w /\ (w = 1 \/ v >= 128 ^ (w - 1))

BitLength(b) == CHOOSE k \in 0 .. 8 : b < 2 ^ k /\ (k = 0 \/ b >= 2 ^ (k - 1))

\* integer_varint_chunks: seven-bit groups of a little-endian integer.
IntegerChunks(s) ==
    LET top == IntegerByte[Last(s)]
    IN  IF top = 0 THEN 1 ELSE (8 * (Len(s) - 1) + BitLength(top) + 6) \div 7

\* Mutant: a group that straddles two bytes loses the bits of the second.
IntegerChunkNarrow(s, chunk, chunks) ==
    LET at  == 7 * chunk
        low == IF at \div 8 + 1 <= Len(s) THEN IntegerByte[s[at \div 8 + 1]] ELSE 0
    IN  ((low \div 2 ^ (at % 8)) % 128) + (IF chunk + 1 = chunks THEN 0 ELSE 128)

\* The byte of one group: seven bits that straddle at most two bytes.
IntegerChunk(s, chunk, chunks) ==
    LET at    == 7 * chunk
        low   == IF at \div 8 + 1 <= Len(s) THEN IntegerByte[s[at \div 8 + 1]] ELSE 0
        high  == IF at \div 8 + 2 <= Len(s) THEN IntegerByte[s[at \div 8 + 2]] ELSE 0
    IN  (((low + 256 * high) \div 2 ^ (at % 8)) % 128) + (IF chunk + 1 = chunks THEN 0 ELSE 128)

\* component_length with the lengths of the children known.
ComponentLength(c, sizes, k, item) ==
    LET x == Component(c, k, item)
        framed(n) == VarintWidth(n) + n
        element(j) == LET y == Component(c, j, TRUE)
                      IN  IF x.kind = "set" THEN framed(sizes[y.node])
                          ELSE IF y.kind = "node" THEN 1 + framed(sizes[y.node])
                          ELSE IF y.kind = "integer" THEN 1 + IntegerChunks(y.text)
                          ELSE IF y.kind = "none" THEN 1 ELSE 1 + framed(Len(y.text))
        total[j \in 0 .. x.range[2]] ==
            IF j = 0 THEN 1 + VarintWidth(x.range[2]) ELSE total[j - 1] + element(x.range[1] + j)
    IN  CASE x.kind = "none" -> 1
          [] x.kind = "node" -> 1 + framed(sizes[x.node])
          [] x.kind = "integer" -> 1 + IntegerChunks(x.text)
          [] x.kind \in {"set", "sequence"} -> total[x.range[2]]
          [] OTHER -> 1 + framed(Len(x.text))

\* The exit of a node in the length walk.
NodeLength(c, sizes, n) ==
    LET sum[f \in c.offset[n] .. c.offset[n + 1]] ==
            IF f = c.offset[n] THEN VarintWidth(TagNumber[c.tag[n]])
            ELSE sum[f - 1] + ComponentLength(c, sizes, f, FALSE)
    IN  sum[c.offset[n + 1]]

-----------------------------------------------------------------------------
(* The byte cursor: a stack of tasks, the top at the head.                  *)

ByteTask(b) == <<"byte", b>>
VarintTask(v) == <<"varint", v>>
NodeTask(n) == <<"node", n>>

\* schedule_node: the items of a set carry no marker.
ScheduleNode(sizes, n, marked) ==
    (IF marked THEN <<ByteTask(KindNumber["node"])>> ELSE <<>>)
    \o <<VarintTask(sizes[n]), NodeTask(n)>>

ScheduleComponent(sizes, x) ==
    CASE x.kind = "none" -> <<ByteTask(KindNumber["none"])>>
      [] x.kind = "node" -> ScheduleNode(sizes, x.node, TRUE)
      [] x.kind = "integer" ->
            <<ByteTask(KindNumber["integer"]), <<"integer", x.text, 0, IntegerChunks(x.text)>>>>
      [] x.kind \in {"set", "sequence"} ->
            <<ByteTask(KindNumber[x.kind]), VarintTask(x.range[2]),
              <<"collection", x.range[1], 0, x.range[2], x.kind = "set">>>>
      [] OTHER ->
            <<ByteTask(KindNumber[x.kind]), VarintTask(Len(x.text))>>
            \o (IF x.text = <<>> THEN <<>> ELSE <<<<"slice", x.text, 1>>>>)

\* The tasks that replace a popped task, and the byte it yields if any.
Replace(c, sizes, task) ==
    CASE task[1] = "byte" -> <<>>
      [] task[1] = "varint" -> IF task[2] < 128 THEN <<>> ELSE <<VarintTask(task[2] \div 128)>>
      [] task[1] = "slice" ->
            IF task[3] < Len(task[2]) THEN <<<<"slice", task[2], task[3] + 1>>>> ELSE <<>>
      [] task[1] = "integer" ->
            IF task[3] + 1 < task[4] THEN <<<<"integer", task[2], task[3] + 1, task[4]>>>> ELSE <<>>
      [] task[1] = "node" ->
            LET n == task[2]
            IN  <<VarintTask(TagNumber[c.tag[n]])>>
                \o [i \in 1 .. c.offset[n + 1] - c.offset[n] |->
                      <<"component", c.offset[n] + i, i = 1 /\ c.tag[n] = "AnonymousIndividual">>]
      [] task[1] = "component" ->
            LET x == Component(c, task[2], FALSE)
            IN  ScheduleComponent(sizes, IF task[3] THEN RemapScope(c, x) ELSE x)
      [] task[1] = "collection" ->
            LET x == Component(c, task[2] + task[3] + 1, TRUE)
            IN  IF task[3] >= task[4] THEN <<>>
                ELSE (IF task[5] THEN ScheduleNode(sizes, x.node, FALSE)
                                 ELSE ScheduleComponent(sizes, x))
                     \o <<<<"collection", task[2], task[3] + 1, task[4], task[5]>>>>

TaskByte(task) ==
    CASE task[1] = "byte" -> <<task[2]>>
      [] task[1] = "varint" -> <<(task[2] % 128) + (IF task[2] < 128 THEN 0 ELSE 128)>>
      [] task[1] = "slice" -> <<Code(task[2][task[3]])>>
      [] task[1] = "integer" -> <<IntegerChunk(task[2], task[3], task[4])>>
      [] OTHER -> <<>>

-----------------------------------------------------------------------------
(* What the cursor spells, as a recursion over the acyclic graph.           *)

Framed(kind, bytes) == <<KindNumber[kind]>> \o Varint(Len(bytes)) \o bytes

IntegerValue(s) ==
    LET value[i \in 0 .. Len(s)] ==
            IF i = 0 THEN 0 ELSE IntegerByte[s[Len(s) - i + 1]] + 256 * value[i - 1]
    IN  value[Len(s)]

\* A node spells its tag, then its fields.
Encoding(c) ==
    LET spell(bytes, x) ==
            CASE x.kind = "none" -> <<KindNumber["none"]>>
              [] x.kind = "node" -> Framed("node", bytes[x.node])
              [] x.kind = "integer" -> <<KindNumber["integer"]>> \o Varint(IntegerValue(x.text))
              [] OTHER -> Framed(x.kind, [i \in DOMAIN x.text |-> Code(x.text[i])])
        items(bytes, x) ==
            LET upto[j \in 0 .. x.range[2]] ==
                    IF j = 0 THEN <<>>
                    ELSE LET y == Component(c, x.range[1] + j, TRUE)
                         IN  upto[j - 1] \o (IF x.kind = "set" THEN Varint(Len(bytes[y.node])) \o bytes[y.node]
                                             ELSE spell(bytes, y))
            IN  upto[x.range[2]]
        field(bytes, n, f) ==
            LET x == Component(c, f, FALSE)
            IN  IF x.kind \in {"set", "sequence"}
                THEN <<KindNumber[x.kind]>> \o Varint(x.range[2]) \o items(bytes, x)
                ELSE spell(bytes, IF f = c.offset[n] + 1 /\ c.tag[n] = "AnonymousIndividual"
                                  THEN RemapScope(c, x) ELSE x)
        node(bytes, n) ==
            LET upto[f \in c.offset[n] .. c.offset[n + 1]] ==
                    IF f = c.offset[n] THEN Varint(TagNumber[c.tag[n]])
                    ELSE upto[f - 1] \o field(bytes, n, f)
            IN  upto[c.offset[n + 1]]
        bytes[n \in Nodes(c)] == node(bytes, n)
    IN  bytes

\* The lexicographic order of bytes, a proper prefix first.
Lexicographic(x, y) ==
    \/ Len(x) < Len(y) /\ SubSeq(y, 1, Len(x)) = x
    \/ \E i \in 1 .. Len(x) :
          i <= Len(y) /\ x[i] < y[i] /\ \A j \in 1 .. i - 1 : x[j] = y[j]

\* compare_roots: the root kind first, then the encoding of the node.
RootLess(x, y) == x[1] < y[1] \/ (x[1] = y[1] /\ Lexicographic(x[2], y[2]))

-----------------------------------------------------------------------------
(* structurally_equal_node: a pair of nodes and the pairs below it, compared *)
(* one by one and without any scope map; the tables are acyclic.            *)

\* Mutant: the bytes of the scalars are not compared.
CorrespondingByKind(c, m, d, n) ==
    /\ c.tag[m] = d.tag[n]
    /\ c.offset[m + 1] - c.offset[m] = d.offset[n + 1] - d.offset[n]
    /\ \A i \in 1 .. c.offset[m + 1] - c.offset[m] :
          LET x == Component(c, c.offset[m] + i, FALSE)  y == Component(d, d.offset[n] + i, FALSE)
          IN  x.kind = y.kind /\ x.range[2] = y.range[2]

Corresponding(c, m, d, n) ==
    LET fm == c.offset[m]  fn == d.offset[n]
        same(x, y) == x.kind = y.kind /\ x.text = y.text
    IN  /\ c.tag[m] = d.tag[n]
        /\ c.offset[m + 1] - fm = d.offset[n + 1] - fn
        /\ \A i \in 1 .. c.offset[m + 1] - fm :
              LET x == Component(c, fm + i, FALSE)  y == Component(d, fn + i, FALSE)
              IN  /\ same(x, y) /\ x.range[2] = y.range[2]
                  /\ \A j \in 1 .. x.range[2] :
                        same(Component(c, x.range[1] + j, TRUE), Component(d, y.range[1] + j, TRUE))

PairedChildren(c, m, d, n) ==
    LET fm == c.offset[m]  fn == d.offset[n]
        pair(x, y) == IF x.kind = "node" THEN {<<x.node, y.node>>} ELSE {}
    IN  UNION {LET x == Component(c, fm + i, FALSE)  y == Component(d, fn + i, FALSE)
               IN  pair(x, y) \cup UNION {pair(Component(c, x.range[1] + j, TRUE),
                                               Component(d, y.range[1] + j, TRUE)) : j \in 1 .. x.range[2]}
               : i \in 1 .. c.offset[m + 1] - fm}

StructurallyEqual(c, m, d, n) ==
    LET equal[p \in Nodes(c) \X Nodes(d)] ==
            Corresponding(c, p[1], d, p[2]) /\ \A q \in PairedChildren(c, p[1], d, p[2]) : equal[q]
    IN  equal[<<m, n>>]

-----------------------------------------------------------------------------
(* validate_table: adjacent items of every set and adjacent roots.          *)

SetPairs(c) ==
    Joined([f \in DOMAIN c.fkind |->
        IF c.fkind[f] # "set" THEN <<>>
        ELSE [k \in 1 .. c.flen[f] - 1 |-> <<c.ival[c.fval[f] + k], c.ival[c.fval[f] + k + 1]>>]])

RootPairs(c) ==
    LET all == [i \in 1 .. Len(c.rootId) - 1 |-> <<c.rootId[i], c.rootId[i + 1], c.rootKind[i], c.rootKind[i + 1]>>]
    IN  SelectSeq(all, LAMBDA p : p[3] = p[4])

Pairs(c) ==
    LET roots == RootPairs(c) IN SetPairs(c) \o [i \in DOMAIN roots |-> <<roots[i][1], roots[i][2]>>]

Mapped(c) == c.scopeMaps # <<>>

WithoutMaps(c) == [c EXCEPT !.scopeMaps = <<>>]

-----------------------------------------------------------------------------
(* One round of the k-way merge.                                           *)

\* selected_root: both cursors advance to the next selected root; start 0
\* stands before the first root, and the result is <<start, postings read>>.
SelectedRoot(c, start, posting) ==
    LET including == c.included # <<>>
        list      == IF including THEN c.included ELSE c.excluded
        limit     == Len(c.rootKind)
        skip(p, root) == CHOOSE k \in p .. Len(list) :
                            /\ k = Len(list) \/ list[k + 1] >= root
                            /\ \A j \in p + 1 .. k : list[j] < root
        scan[r \in start .. limit] ==
            LET last  == IF r = start THEN <<FALSE, posting>> ELSE scan[r - 1]
                entry == last[2]
                k     == skip(entry, r + 1)
                hit   == k < Len(list) /\ list[k + 1] = r + 1
                next  == IF hit /\ ~including THEN k + 1 ELSE k
            IN  IF last[1] THEN last
                ELSE IF r = limit THEN <<TRUE, entry, limit>>
                ELSE <<hit <=> including, next, r>>
    IN  <<scan[limit][3], scan[limit][2]>>

\* Mutant: equal candidates of other tables stay for the next round.
MergeGroupSingle(open, key) == {CHOOSE t \in open : \A u \in open : ~RootLess(key[u], key[t])}

\* The tables whose candidate equals the minimum; key(t) is the candidate's
\* root kind and encoding, and only tables in "open" still have one.
MergeGroup(open, key) ==
    LET least == CHOOSE t \in open : \A u \in open : ~RootLess(key[u], key[t])
    IN  {t \in open : key[t] = key[least]}
=============================================================================
