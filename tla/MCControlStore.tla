---------------------------- MODULE MCControlStore ----------------------------
(* ControlStore on two nodes and one client. *)
EXTENDS ControlStore

Good == [NoNetwork EXCEPT !.latency = 20, !.bandwidth = 100000000]
Poor == [NoNetwork EXCEPT !.latency = 400, !.bandwidth = 5000000]

GoodAndPoor == {Good, Poor}
GoodOnly == {Good}
AnyGap == {-1, 50}
===============================================================================
