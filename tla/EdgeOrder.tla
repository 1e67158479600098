------------------------------- MODULE EdgeOrder -------------------------------
(***************************************************************************)
(* Selecting and sorting edges.  An edge is the rank of its canonical key. *)
(* Both operators say which edge is at the k-th place of the result, in a  *)
(* form that the prover can expand.                                        *)
(***************************************************************************)
EXTENDS Naturals, Sequences, FiniteSets, SequencesExt

\* The k-th smallest of some places.
Nth(places, k) ==
  CHOOSE i \in places : Cardinality({ j \in places : j <= i }) = k

\* The edges of a sequence at some of its places, in the sequence's order.
Picked(s, places) == [k \in 1..Cardinality(places) |-> s[Nth(places, k)]]

\* How many edges of a sequence come before an edge, and up to it.
Below(s, e) == Cardinality({ i \in DOMAIN s : s[i] < e })

UpTo(s, e) == Cardinality({ i \in DOMAIN s : s[i] <= e })

\* list.sort and sort_unstable: the k-th smallest edge at place k.  Edges with one
\* key are equal, so stability makes no difference.
Sorted(s) ==
  [k \in DOMAIN s |-> CHOOSE e \in ToSet(s) : Below(s, e) < k /\ k <= UpTo(s, e)]

=============================================================================
