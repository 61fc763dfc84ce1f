----------------------------- MODULE MCPeerStore ------------------------------
(* PeerStore on two control planes.  As in a deployment, both machines     *)
(* have joined at the first, which knows the second from that; the second  *)
(* is started with the first as its peer.                                  *)
EXTENDS PeerStore

CONSTANTS A, B   \* control planes

BKnowsA == [r \in Replicas |-> IF r = B THEN {A} ELSE {}]
AllAtA == [r \in Replicas |-> IF r = A THEN Replicas ELSE {}]
===============================================================================
