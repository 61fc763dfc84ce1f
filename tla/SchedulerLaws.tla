----------------------------- MODULE SchedulerLaws -----------------------------
(***************************************************************************)
(* The laws of scoring and ranking: two networks, or three nodes of one    *)
(* store, are drawn from the sets given and compared.                      *)
(***************************************************************************)
EXTENDS Scheduler

CONSTANTS
    Networks,   \* measurements to compare
    Nodes,      \* what ranking reads of nodes
    Gaps,       \* migration score gaps
    Counts      \* client and proxy counts a node may come to have

ASSUME DrawnAssumption == Networks \subseteq Network /\ Nodes \subseteq NodeView
ASSUME MovesAssumption == Gaps \subseteq Int /\ Counts \subseteq Nat

VARIABLES
    law,      \* what is compared: networks by their score, or nodes by rank
    a, b, c

vars == <<law, a, b, c>>

(* Two networks, with whether the measurement is stale, or three nodes.    *)
Init ==
    \/ law = "score" /\ a \in Networks /\ b \in Networks /\ c \in BOOLEAN
    \/ /\ law = "rank" /\ a \in Nodes
       /\ b \in {x \in Nodes : x.id # a.id}
       /\ c \in {x \in Nodes : x.id \notin {a.id, b.id}}

SwapNetworks == law = "score" /\ a' = b /\ b' = a /\ c' = ~c /\ UNCHANGED law

RotateNodes == law = "rank" /\ a' = b /\ b' = c /\ c' = a /\ UNCHANGED law

Spec == Init /\ [][SwapNetworks \/ RotateNodes]_vars

-----------------------------------------------------------------------------
(* A score is a percentage, and a stale measurement never scores better    *)
(* than the same measurement fresh, nor above 40.                          *)
StaleScoresLow ==
    law = "score" =>
        /\ Score(a, c) \in 0..100
        /\ HasMeasurement(a) => Score(a, TRUE) <= Score(a, FALSE) /\ Score(a, TRUE) <= 40

Known(network) == network.latency > 0 /\ EffectiveBandwidth(network) >= 1000000

(* Between two networks whose latency and bandwidth are known, one that is *)
(* no slower in either scores no lower.                                    *)
FasterScoresHigher ==
    law = "score" =>
        (Known(a) /\ Known(b) /\ a.latency <= b.latency
           /\ EffectiveBandwidth(a) >= EffectiveBandwidth(b)
             => Score(a, c) >= Score(b, c))

(* A client that follows a recommendation from a to b is not sent back, or *)
(* on to the third node, while no score changes, however many clients      *)
(* moved with it: the score gap is a hysteresis.                           *)
NoPingPong ==
    law = "rank" =>
        \A gap \in Gaps, clients, proxies \in Counts :
            LET before == {a, b, c}
                after == {[a EXCEPT !.clientCount = 0, !.proxyCount = 0],
                          [b EXCEPT !.clientCount = clients, !.proxyCount = proxies], c}
            IN  Best(before).id = b.id /\ ShouldMigrate(before, a.id, gap)
                  => ~ShouldMigrate(after, b.id, gap)
================================================================================
