--------------------------- MODULE MCEncounterIndex ----------------------------
(* EncounterIndex on small instances, and its promise to the consumer.     *)
EXTENDS EncounterIndex

\* Nobody reads the statistics of an iterator that did not complete: _report is
\* reached only after the last edge.
Promise == INSTANCE EdgeStream
           WITH order <- "encounter",
                statistics <- IF outcome = "complete" THEN statistics ELSE <<>>

\* Encounter streaming implements the in-memory reference policy: on both
\* sides of the spill the consumer receives exactly the edges of the reference
\* loop, in its order, and exhaustion publishes exact statistics.
ImplementsReference == Promise!Spec

=============================================================================
