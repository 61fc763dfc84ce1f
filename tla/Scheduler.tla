------------------------------- MODULE Scheduler -------------------------------
(***************************************************************************)
(* How the control plane scores and ranks proxy nodes (service.go).        *)
(* Pure operators: ControlStore applies them to the store's state, and     *)
(* SchedulerProofs states their laws.                                      *)
(***************************************************************************)
EXTENDS Integers

(* A NetworkStatus: milliseconds and bits per second, 0 where unmeasured.  *)
Network == [latency : Nat, down : Nat, up : Nat, rx : Nat, tx : Nat, bandwidth : Nat]

NoNetwork == [latency |-> 0, down |-> 0, up |-> 0, rx |-> 0, tx |-> 0, bandwidth |-> 0]

HasMeasurement(network) == \E field \in DOMAIN network : network[field] > 0

Greatest(S) == CHOOSE x \in S : \A y \in S : y <= x

(* effectiveBandwidth: the slower probed direction; with one direction     *)
(* only, the largest number known.                                         *)
EffectiveBandwidth(network) ==
    IF network.bandwidth > 0 THEN network.bandwidth
    ELSE IF network.down > 0 /\ network.up > 0
         THEN IF network.down < network.up THEN network.down ELSE network.up
    ELSE Greatest({network.down, network.up, network.rx, network.tx})

(* The first step of a table that applies to a value. *)
LatencyScore(ms) ==
    CASE ms <= 0   -> 50
      [] ms \in 1..20    -> 100
      [] ms \in 21..50   -> 90
      [] ms \in 51..100  -> 75
      [] ms \in 101..200 -> 55
      [] ms \in 201..500 -> 30
      [] ms > 500  -> 15

(* Mutant of BandwidthScore: two bands of the table are swapped. *)
BandwidthScoreSwapped(bps) ==
    LET mbps == bps \div 1000000
    IN  CASE mbps >= 1000      -> 100
          [] mbps \in 500..999 -> 95
          [] mbps \in 100..499 -> 85
          [] mbps \in 50..99   -> 60
          [] mbps \in 20..49   -> 75
          [] mbps \in 10..19   -> 50
          [] mbps \in 5..9     -> 40
          [] mbps \in 1..4     -> 25
          [] mbps <= 0         -> 50

(* The table's last branch, 10 for `bandwidthMbps > 0`, is never reached:  *)
(* the quotient is an integer.                                             *)
BandwidthScore(bps) ==
    LET mbps == bps \div 1000000
    IN  CASE mbps >= 1000      -> 100
          [] mbps \in 500..999 -> 95
          [] mbps \in 100..499 -> 85
          [] mbps \in 50..99   -> 75
          [] mbps \in 20..49   -> 60
          [] mbps \in 10..19   -> 50
          [] mbps \in 5..9     -> 40
          [] mbps \in 1..4     -> 25
          [] mbps <= 0         -> 50

(* Mutant of Score: a stale measurement is raised to 40, not capped. *)
ScoreStaleRaised(network, stale) ==
    IF ~HasMeasurement(network) THEN 50
    ELSE LET score == (LatencyScore(network.latency) * 45
                        + BandwidthScore(EffectiveBandwidth(network)) * 55 + 50) \div 100
         IN  IF stale /\ score < 40 THEN 40 ELSE score

(* scoreNetworkStatus *)
Score(network, stale) ==
    IF ~HasMeasurement(network) THEN 50
    ELSE LET score == (LatencyScore(network.latency) * 45
                        + BandwidthScore(EffectiveBandwidth(network)) * 55 + 50) \div 100
         IN  IF stale /\ score > 40 THEN 40 ELSE score

-----------------------------------------------------------------------------
(* What ranking reads of a node. *)
NodeView ==
    [id : Nat, score : Nat, clientCount : Nat, proxyCount : Nat, latency : Nat,
     bandwidth : Nat]

(* An unknown latency ranks after every known one. *)
CloserThan(x, y) ==
    /\ x.latency # y.latency
    /\ x.latency # 0
    /\ y.latency = 0 \/ x.latency < y.latency

(* sortNodesByPreference's comparison *)
Precedes(x, y) ==
    \/ x.score > y.score
    \/ /\ x.score = y.score
       /\ \/ x.clientCount < y.clientCount
          \/ /\ x.clientCount = y.clientCount
             /\ \/ x.proxyCount < y.proxyCount
                \/ /\ x.proxyCount = y.proxyCount
                   /\ \/ CloserThan(x, y)
                      \/ /\ x.latency = y.latency
                         /\ \/ x.bandwidth > y.bandwidth
                            \/ x.bandwidth = y.bandwidth /\ x.id < y.id

(* The first of a non-empty set of ranked nodes. *)
Best(views) == CHOOSE x \in views : \A y \in views \ {x} : Precedes(x, y)

-----------------------------------------------------------------------------
(* Mutant of EffectiveGap: a gap of 0 is taken as it is. *)
EffectiveGapRaw(gap) == gap

EffectiveGap(gap) == IF gap <= 0 THEN 15 ELSE gap

(* Mutant of ShouldMigrate: a client whose node is offline is passed over. *)
ShouldMigrateScoreOnly(online, from, gap) ==
    \E current \in online :
        /\ current.id = from
        /\ Best(online).id # from
        /\ Best(online).score - current.score >= EffectiveGap(gap)

(* applyMigrationRecommendationsLocked: should a client of the node `from` *)
(* move to the best of the online nodes?                                   *)
ShouldMigrate(online, from, gap) ==
    \/ \A view \in online : view.id # from
    \/ \E current \in online :
          /\ current.id = from
          /\ Best(online).id # from
          /\ Best(online).score - current.score >= EffectiveGap(gap)

(* Mutant of Pinned: a pending target counts as well. *)
PinnedPending(onlineIDs, preferred, state, node) ==
    IF preferred \in onlineIDs THEN preferred
    ELSE IF node \in onlineIDs THEN node
    ELSE 0

(* pinnedNode: the node a client keeps, 0 if none.  A                     *)
(* manual target comes first, then the node the client is on.              *)
Pinned(onlineIDs, preferred, state, node) ==
    IF state = "manual" /\ preferred \in onlineIDs THEN preferred
    ELSE IF node \in onlineIDs THEN node
    ELSE 0
================================================================================
