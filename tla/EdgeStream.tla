------------------------------ MODULE EdgeStream ------------------------------
(***************************************************************************)
(* What an edge iterator promises, whatever machinery produces it.         *)
(*                                                                         *)
(* The promise is the in-memory reference policy of compiler.py            *)
(* (iter_projected_edges): the raw edges of one compilation, in encounter  *)
(* or canonical order, with duplicates preserved or coalesced, together    *)
(* with exact statistics once the last edge has been taken.  An iterator   *)
(* may stop early (failure, cancellation, close), but what it handed out   *)
(* until then is always a prefix of the reference result.                  *)
(*                                                                         *)
(* An edge is the rank of its canonical key (source, relation,             *)
(* destination as UTF-8 bytes): the key is injective, so the order on      *)
(* edges is a strict total order and a number stands for the whole edge.   *)
(***************************************************************************)
EXTENDS EdgeOrder

VARIABLES
  input,        \* the raw edges of the compilation, in encounter order
  order,        \* "canonical" or "encounter"
  duplicates,   \* "preserve" or "unique"
  delivered,    \* the edges the consumer has received
  outcome,      \* "none" while the iterator is open
  statistics    \* <<raw, distinct>>, once published

streamVars == <<input, order, duplicates, delivered, outcome, statistics>>

NoStatistics == <<>>

\* Edge.__eq__ / dict.fromkeys: the first encounter of every distinct edge.
FirstEncounters(s) ==
  Picked(s, { i \in DOMAIN s : \A j \in 1..(i - 1) : s[j] # s[i] })

\* iter_projected_edges: coalesce if "unique", then sort if canonical.
Reference(s, dup) ==
  LET values == IF dup = "unique" THEN FirstEncounters(s) ELSE s
  IN  IF order = "canonical" THEN Sorted(values) ELSE values

ReferenceStatistics(s) == <<Len(s), Cardinality(ToSet(s))>>

-----------------------------------------------------------------------------

\* The consumer receives the next edge of the reference result.
Yield ==
  /\ outcome = "none"
  /\ Len(delivered) < Len(Reference(input, duplicates))
  /\ delivered' = Append(delivered, Reference(input, duplicates)[Len(delivered) + 1])
  /\ UNCHANGED <<input, order, duplicates, outcome, statistics>>

\* StopIteration, only after every edge; the statistics become exact here.
Exhaust ==
  /\ outcome = "none"
  /\ delivered = Reference(input, duplicates)
  /\ outcome' = "complete"
  /\ statistics' = ReferenceStatistics(input)
  /\ UNCHANGED <<input, order, duplicates, delivered>>

\* An exception or an early close: no statistics, nothing more delivered.
Stop ==
  /\ outcome = "none"
  /\ outcome' \in {"failed", "cancelled", "closed"}
  /\ UNCHANGED <<input, order, duplicates, delivered, statistics>>

Init ==
  /\ input \in Seq(Nat)
  /\ order \in {"canonical", "encounter"}
  /\ duplicates \in {"preserve", "unique"}
  /\ delivered = <<>>
  /\ outcome = "none"
  /\ statistics = NoStatistics

Next == Yield \/ Exhaust \/ Stop

Spec == Init /\ [][Next]_streamVars

=============================================================================
