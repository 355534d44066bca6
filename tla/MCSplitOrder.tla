---------------------------- MODULE MCSplitOrder ----------------------------
(***************************************************************************)
(* Instances of SplitOrder for TLC.                                        *)
(***************************************************************************)
EXTENDS SplitOrder

CONSTANTS o1, o2, d2

\* A liveness run may not use symmetry sets: the orders begin in one order instead, and
\* the second deposit has a row of the server that is not reserved.
InOrder == (At(o1, "idle") => At(o2, "idle")) /\ server[d2] = "false"
==============================================================================
