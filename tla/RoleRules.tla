----------------------------- MODULE RoleRules -----------------------------
(***************************************************************************)
(* Role axioms of the native compiler: the OWL API hash code of an axiom,   *)
(* the order a Java HashSet would iterate in, and the role state the rows   *)
(* build when they are applied in that order.  Hash codes are the 32-bit    *)
(* words of the code, kept as a pair <<high, low>> of 16-bit halves.        *)
(***************************************************************************)
EXTENDS NodeGrammar

LOCAL INSTANCE Bitwise

CONSTANT CodeUnits      \* token -> <<UTF-16 units of the namespace, of the rest>>

Half == 65536

\* wrapping_add and wrapping_mul(31) of i32, through the unsigned word.
Add32(x, y) ==
    LET low == x[2] + y[2] IN <<(x[1] + y[1] + low \div Half) % Half, low % Half>>

Times31(x) ==
    LET low == 31 * x[2] IN <<(31 * x[1] + low \div Half) % Half, low % Half>>

Word(n) == <<n \div Half, n % Half>>

\* combine_hash, and java_string_hash as its instance with seed 0.
CombineHash(seed, components) ==
    LET fold[i \in 0 .. Len(components)] ==
            IF i = 0 THEN seed ELSE Add32(Times31(fold[i - 1]), components[i])
    IN  fold[Len(components)]

JavaStringHash(units) == CombineHash(Word(0), [i \in DOMAIN units |-> Word(units[i])])

\* owlapi_iri_hash splits behind the last '#', '/' or ':'.
OwlapiIriHash(text) ==
    LET parts == CodeUnits[text[1]]
    IN  Add32(JavaStringHash(parts[1]), JavaStringHash(parts[2]))

\* A lexical form or an anonymous key is hashed whole.
TextHash(text) == LET parts == CodeUnits[text[1]] IN JavaStringHash(parts[1] \o parts[2])

PropertyHash(c, n) ==
    LET named == CombineHash(Word(4153), <<OwlapiIriHash(PropertyIri(c, n))>>)
    IN  IF Tag(c, n) = "Entity" THEN named ELSE CombineHash(Word(4241), <<named>>)

ValueHash(c, n) ==
    CASE Tag(c, n) = "IRI" -> OwlapiIriHash(IriText(c, n))
      [] Tag(c, n) = "Literal" -> TextHash(Scalar(c, n, 1))
      [] OTHER -> TextHash(Scalar(c, n, 2))

\* annotation_set_hash: a wrapping sum, as the hash code of a Java set is.
SetHash(c, n, i) ==
    LET items == Items(c, n, i)
        one(a) == CombineHash(Word(6311), <<OwlapiIriHash(EntityIri(c, Ref(c, a, 1))),
                                            ValueHash(c, Ref(c, a, 2))>>)
        sum[k \in 0 .. Len(items)] ==
            IF k = 0 THEN Word(0) ELSE Add32(sum[k - 1], one(items[k]))
    IN  sum[Len(items)]

RoleAxiomHash(c, n) ==
    LET first == PropertyHash(c, Ref(c, n, 1))  second == PropertyHash(c, Ref(c, n, 2))
        notes == SetHash(c, n, 3)
    IN  IF Tag(c, n) = "SubObjectPropertyOf"
        THEN CombineHash(Word(1823), <<first, second, notes>>)
        ELSE CombineHash(Word(1229), <<Add32(first, second), notes>>)

\* HashMap.spread: the upper half folded into the lower one.
Spread(x) == <<x[1], x[2] ^^ x[1]>>

\* role_axiom_row at its place in the canonical order.
RoleAxiomRow(c, n, order) ==
    [tag |-> Tag(c, n), first |-> PropertyIri(c, Ref(c, n, 1)),
     second |-> PropertyIri(c, Ref(c, n, 2)), spread |-> Spread(RoleAxiomHash(c, n)), order |-> order]

-----------------------------------------------------------------------------
(* The role state: two association lists, modelled as functions on IRIs.    *)

NoRoles == [subroles |-> <<>>, inverses |-> <<>>]

SubrolesFor(roles, p) == IF p \in DOMAIN roles.subroles THEN roles.subroles[p] ELSE <<>>

InverseFor(roles, p) == IF p \in DOMAIN roles.inverses THEN <<roles.inverses[p]>> ELSE <<>>

\* Mutant: the inverse is emitted and not counted.
EdgeCountForward(roles, p) == 1 + Len(SubrolesFor(roles, p))

EdgeCount(roles, p) == 1 + Len(SubrolesFor(roles, p)) + Len(InverseFor(roles, p))

\* RoleState.apply: a sub-property axiom replaces the list of the
\* super-property by the sub-property and the list recorded under the
\* SUB-property so far; the reproduced mOWL behaviour.
ApplyRow(roles, row) ==
    IF row.tag = "SubObjectPropertyOf"
    THEN [roles EXCEPT !.subroles =
            (row.second :> (<<row.first>> \o SubrolesFor(roles, row.first))) @@ @]
    ELSE [roles EXCEPT !.inverses =
            (row.second :> row.first) @@ (row.first :> row.second) @@ @]

\* cancellable_sort_unstable_by: a heap sort, so only a total order decides.
Swap(s, i, j) == [s EXCEPT ![i] = s[j], ![j] = s[i]]

SiftDown(s, root, end, Less(_, _)) ==
    LET step(v, r) ==
            LET child == IF 2 * r < end /\ Less(v[2 * r], v[2 * r + 1]) THEN 2 * r + 1 ELSE 2 * r
            IN  IF r = 0 \/ 2 * r > end THEN <<v, 0>>
                ELSE IF Less(v[r], v[child]) THEN <<Swap(v, r, child), child>> ELSE <<v, 0>>
        run[k \in 0 .. Len(s)] ==
            IF k = 0 THEN <<s, root>> ELSE LET before == run[k - 1] IN step(before[1], before[2])
    IN  run[Len(s)][1]

HeapSort(s, Less(_, _)) ==
    LET n == Len(s)
        heap[k \in 0 .. n \div 2] ==
            IF k = 0 THEN s ELSE SiftDown(heap[k - 1], n \div 2 - k + 1, n, Less)
        out[k \in 0 .. n - 1] ==
            IF k = 0 THEN heap[n \div 2] ELSE SiftDown(Swap(out[k - 1], 1, n - k + 1), 1, n - k, Less)
    IN  IF n < 2 THEN s ELSE out[n - 1]

\* The table of a Java HashMap: 16 buckets, doubled beyond a load of 3/4.
TableCapacity(count) ==
    LET size[k \in 0 .. 20] ==
            IF k = 0 THEN 16
            ELSE LET before == size[k - 1] IN IF count > (before \div 4) * 3 THEN 2 * before ELSE before
    IN  size[20]

WordLess(x, y) == x[1] < y[1] \/ (x[1] = y[1] /\ x[2] < y[2])

RowPrecedes(capacity, x, y) ==
    LET b(r) == r.spread[2] % capacity
    IN  \/ b(x) < b(y)
        \/ b(x) = b(y) /\ WordLess(x.spread, y.spread)
        \/ b(x) = b(y) /\ x.spread = y.spread /\ x.order < y.order

\* build_role_state_from_rows on top of the retained roles.
BuildRoleState(rows, axioms, retained) ==
    LET sorted == HeapSort(rows, LAMBDA x, y : RowPrecedes(TableCapacity(axioms), x, y))
        state[i \in 0 .. Len(sorted)] ==
            IF i = 0 THEN retained ELSE ApplyRow(state[i - 1], sorted[i])
    IN  state[Len(sorted)]
=============================================================================
