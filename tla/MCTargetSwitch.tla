---------------------------- MODULE MCTargetSwitch ----------------------------
(* TargetSwitch on two nodes and one client. *)
EXTENDS TargetSwitch

Good == [NoNetwork EXCEPT !.latency = 20, !.bandwidth = 100000000]

GoodOnly == {Good}
===============================================================================
