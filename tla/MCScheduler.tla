------------------------------ MODULE MCScheduler ------------------------------
(* SchedulerLaws over bounded inputs. *)
EXTENDS SchedulerLaws

(* Either side of several of the tables' thresholds. *)
Rates == {0, 500000, 4000000, 30000000, 60000000}
ThresholdNetworks ==
    [latency : {0, 20, 21, 150, 501}, down : Rates, up : Rates, rx : {0, 2000000},
     tx : {0}, bandwidth : {0, 25000000}]

(* Three nodes that differ, or do not, in every field. *)
CloseNodes ==
    [id : 1..3, score : {0, 20}, clientCount : {0, 1}, proxyCount : {0, 1},
     latency : {0, 1}, bandwidth : {0, 1}]
================================================================================
