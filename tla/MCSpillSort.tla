------------------------------ MODULE MCSpillSort ------------------------------
(* SpillSort on small instances, and its promise to the consumer.          *)
EXTENDS SpillSort

\* Edge 2 is longer than the others, so limits can fall between edges.
MCRecordBytes == [ e \in Edges |-> IF e = 2 THEN 2 ELSE 1 ]

Promise == INSTANCE EdgeStream WITH order <- "canonical"

\* The external sort implements the in-memory reference policy: what the
\* consumer has received is at every step a prefix of the sorted (and
\* coalesced) raw edges, and exhaustion publishes exact statistics.
ImplementsReference == Promise!Spec

\* Runs are verified only when their last record has been read, so damaged
\* edges may reach the consumer; but a stream that completes normally was
\* exact, damage or not.
CompleteIsExact ==
  outcome = "complete" =>
    /\ delivered = Promise!Reference(input, duplicates)
    /\ statistics = Promise!ReferenceStatistics(input)

=============================================================================
