---------------------------- MODULE MCDispatcher ----------------------------
(* Three threads with one identifier that is used again and again, and two *)
(* threads with two.  No step of the fairness conditions leaves the bound. *)
EXTENDS Dispatcher

CONSTANTS OneID, Pair

Bound ==
  \/ allocated \subseteq {OneID}
  \/ \A t \in Threads \ Pair : pc[t] = "idle"
=============================================================================
