-------------------------- MODULE MCProjectorCalls --------------------------
(***************************************************************************)
(* ProjectorCalls for TLC: two calls with every pair of requests, and three *)
(* calls when all are stateful, since role maps that pass from call to call *)
(* need three to go wrong in the middle.                                    *)
(***************************************************************************)
EXTENDS ProjectorCalls

CONSTANT Third   \* the call that only takes part when all are stateful

AllStateful == \A c \in Calls : Scala(c)

\* Otherwise the third call is an iterator nobody ever advances ...
MCInit ==
  Init /\ (AllStateful \/ request[Third] = [mode |-> "isolated", kind |-> "iterate"])

\* ... which is dropped before the others start.
Takes(c) ==
  \/ AllStateful
  \/ c = Third /\ DropUnstarted(c)
  \/ c # Third /\ pc[Third] = "end"

MCNext == (\E c \in Calls : Takes(c) /\ Step(c)) \/ Returned

MCSpec ==
  /\ MCInit /\ [][MCNext]_vars
  /\ \A c \in Calls : WF_vars(Step(c) /\ pc[c] \notin {"idle", "iterate"})

=============================================================================
