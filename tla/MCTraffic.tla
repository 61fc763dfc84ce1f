------------------------------- MODULE MCTraffic -------------------------------
(* Traffic on two control planes that send each other their state. *)
EXTENDS Traffic

CONSTANTS A, B   \* control planes

HomeIsA == [n \in NodeIDs |-> A]
================================================================================
