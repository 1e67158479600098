---------------------------- MODULE MCNativePolicy -----------------------------
(* NativePolicy on small instances, and its promise to the consumer.       *)
EXTENDS NativePolicy

\* A passthrough is asked for no statistics: its end is a stop to this promise, and
\* PassesThrough says that all edges were delivered by then.
Promise == INSTANCE EdgeStream
           WITH outcome <- IF passthrough /\ outcome = "complete" THEN "closed" ELSE outcome

\* The native processor implements the in-memory reference policy: batching, the
\* reversed vector that is popped from its end and the set of seen edges are
\* invisible to the consumer, and the statistics of a complete run are exact.
ImplementsReference == Promise!Spec

=============================================================================
