----------------------------- MODULE MCMembership -----------------------------
(* Membership on small sets of control planes, nodes and tokens. *)
EXTENDS Membership

CONSTANTS A, B, X   \* control planes

Mesh == [r \in Replicas |-> Replicas \ {r}]

(* X polls A and B, B polls A: enough for the copies of one token to reach *)
(* X by two ways.                                                          *)
Chain == [r \in Replicas |-> IF r = X THEN {A, B} ELSE IF r = B THEN {A} ELSE {}]

OneUseOnly == {1}
UsesAnyway == {0, 2}
ThreeUses == {3}

(* Some of the behaviours of Spec: every join response is lost, no POST    *)
(* arrives and the nodes do nothing but join.                              *)
PullNext ==
    \/ \E r \in Replicas, t \in TokenIDs :
         \/ \E asked \in UsesAsked, ttl \in TTLs : CreateJoinToken(r, t, asked, ttl)
         \/ \E n \in NodeIDs : \E q \in Requests(r, n, now) :
              /\ Stamp
              /\ Admitted(q)
              /\ JoinNode(q, FALSE)
              /\ UNCHANGED waiting
    \/ \E r \in Replicas :
         \/ \E p \in Peers[r] : FetchState(r, p) \/ MergeFetched(r, p)
         \/ PostFails(r)
PullSpec == Init /\ [][PullNext]_vars
===============================================================================
