--------------------------- MODULE SchedulerProofs ---------------------------
(***************************************************************************)
(* Laws of the ranking, for all scores, counts, latencies and bandwidths.  *)
(***************************************************************************)
EXTENDS Scheduler, FiniteSetTheorems, WellFoundedInduction, TLAPS

(* Numbers the ranking is made of *)

LEMMA GreatestIsNat ==
    ASSUME NEW a \in Nat, NEW b \in Nat, NEW c \in Nat, NEW d \in Nat
    PROVE  Greatest({a, b, c, d}) \in Nat
<1>1. \E x \in {a, b, c, d} : \A y \in {a, b, c, d} : y <= x
  OBVIOUS
<1>2. QED
  BY <1>1 DEF Greatest

LEMMA BandwidthIsNat ==
    ASSUME NEW network \in Network
    PROVE  EffectiveBandwidth(network) \in Nat
  BY GreatestIsNat DEF EffectiveBandwidth, Network

(* The tables give percentages, whatever is measured. *)
LEMMA TablesArePercentages ==
    ASSUME NEW ms \in Nat, NEW bps \in Nat
    PROVE  LatencyScore(ms) \in 15..100 /\ BandwidthScore(bps) \in 25..100
<1>1. LatencyScore(ms) \in 15..100
  BY DEF LatencyScore
<1>2. \A mbps \in Int :
         \/ mbps >= 1000 \/ mbps \in 500..999 \/ mbps \in 100..499 \/ mbps \in 50..99
         \/ mbps \in 20..49 \/ mbps \in 10..19 \/ mbps \in 5..9 \/ mbps \in 1..4 \/ mbps <= 0
  OBVIOUS
<1>3. bps \div 1000000 \in Int
  OBVIOUS
<1>4. BandwidthScore(bps) \in 25..100
  BY <1>2, <1>3 DEF BandwidthScore
<1>5. QED
  BY <1>1, <1>4

(* What a latency and a bandwidth are worth together. *)
Weighed(latency, bandwidth) == (latency * 45 + bandwidth * 55 + 50) \div 100

LEMMA WeighedIsBetween ==
    ASSUME NEW x \in 0..100, NEW y \in 0..100
    PROVE  Weighed(x, y) \in 0..100
  BY DEF Weighed

(* The score of a measurement is the weighed one, a stale one's at most 40.*)
LEMMA ScoreIsWeighed ==
    ASSUME NEW network \in Network, NEW stale \in BOOLEAN
    PROVE  LET weighed == Weighed(LatencyScore(network.latency),
                                  BandwidthScore(EffectiveBandwidth(network)))
           IN  /\ weighed \in 0..100
               /\ HasMeasurement(network) =>
                    Score(network, stale) = IF stale /\ weighed > 40 THEN 40 ELSE weighed
               /\ ~HasMeasurement(network) => Score(network, stale) = 50
<1>1. network.latency \in Nat /\ EffectiveBandwidth(network) \in Nat
  BY BandwidthIsNat DEF Network
<1>2. /\ LatencyScore(network.latency) \in 0..100
      /\ BandwidthScore(EffectiveBandwidth(network)) \in 0..100
  BY <1>1, TablesArePercentages
<1>3. QED
  BY <1>2, WeighedIsBetween DEF Score, Weighed

LEMMA ScoreIsPercentage ==
    ASSUME NEW network \in Network, NEW stale \in BOOLEAN
    PROVE  Score(network, stale) \in 0..100
  BY ScoreIsWeighed

LEMMA ScoreIsNat ==
    ASSUME NEW network \in Network, NEW stale \in BOOLEAN
    PROVE  Score(network, stale) \in Nat
  BY ScoreIsPercentage

(* A table is monotonic where its value is known: less latency and more    *)
(* bandwidth are worth no less.                                            *)
LEMMA LatencyIsMonotonic ==
    ASSUME NEW x \in Nat, NEW y \in Nat, 0 < x, x <= y
    PROVE  LatencyScore(x) >= LatencyScore(y)
  BY DEF LatencyScore

(* The bandwidth's table by its thresholds alone. *)
LEMMA BandwidthSteps ==
    ASSUME NEW bps \in Nat, NEW mbps \in Int, mbps = bps \div 1000000, 1 <= mbps
    PROVE  BandwidthScore(bps) =
             IF mbps < 5 THEN 25 ELSE IF mbps < 10 THEN 40 ELSE IF mbps < 20 THEN 50
             ELSE IF mbps < 50 THEN 60 ELSE IF mbps < 100 THEN 75 ELSE IF mbps < 500 THEN 85
             ELSE IF mbps < 1000 THEN 95 ELSE 100
  BY DEF BandwidthScore

LEMMA BandwidthIsMonotonic ==
    ASSUME NEW x \in Nat, NEW y \in Nat, 1000000 <= y, y <= x
    PROVE  BandwidthScore(x) >= BandwidthScore(y)
<1>1. PICK p \in Int, q \in Int :
         p = x \div 1000000 /\ q = y \div 1000000 /\ 1 <= q /\ q <= p
  OBVIOUS
<1>2. QED
  BY <1>1, BandwidthSteps

LEMMA WeighedIsMonotonic ==
    ASSUME NEW x \in 0..100, NEW y \in 0..100, NEW u \in 0..100, NEW v \in 0..100,
           x >= u, y >= v
    PROVE  Weighed(x, y) >= Weighed(u, v)
  BY DEF Weighed

-----------------------------------------------------------------------------
(* The order of the ranking *)

(* CloserThan orders known latencies and puts the unknown one last. *)
LEMMA CloserThanOrder ==
    ASSUME NEW x \in NodeView, NEW y \in NodeView, NEW z \in NodeView
    PROVE  /\ CloserThan(x, y) => ~CloserThan(y, x)
           /\ x.latency # y.latency => CloserThan(x, y) \/ CloserThan(y, x)
           /\ CloserThan(x, y) => x.latency # y.latency
           /\ CloserThan(x, y) /\ CloserThan(y, z) => CloserThan(x, z)
           /\ CloserThan(x, y) /\ y.latency = z.latency => CloserThan(x, z)
           /\ x.latency = y.latency /\ CloserThan(y, z) => CloserThan(x, z)
BY DEF CloserThan, NodeView

(* The comparison sort.Slice is given is a strict total order on the nodes *)
(* of a store, whose ids differ: the ranking is a function of the store's  *)
(* state and not of the order a Go map is walked in.                       *)
THEOREM RankingIsStrictOrder ==
    ASSUME NEW x \in NodeView, NEW y \in NodeView, NEW z \in NodeView
    PROVE  /\ ~Precedes(x, x)
           /\ x.id # y.id => (Precedes(x, y) <=> ~Precedes(y, x))
           /\ Precedes(x, y) /\ Precedes(y, z) => Precedes(x, z)
<1>1. /\ x.score \in Nat /\ y.score \in Nat /\ z.score \in Nat
      /\ x.clientCount \in Nat /\ y.clientCount \in Nat /\ z.clientCount \in Nat
      /\ x.proxyCount \in Nat /\ y.proxyCount \in Nat /\ z.proxyCount \in Nat
      /\ x.bandwidth \in Nat /\ y.bandwidth \in Nat /\ z.bandwidth \in Nat
      /\ x.id \in Nat /\ y.id \in Nat /\ z.id \in Nat
  BY DEF NodeView
<1>2. ~Precedes(x, x)
  BY <1>1, CloserThanOrder DEF Precedes
<1>3. x.id # y.id => (Precedes(x, y) <=> ~Precedes(y, x))
  BY <1>1, CloserThanOrder DEF Precedes
<1>4. ASSUME Precedes(x, y), Precedes(y, z)
      PROVE  Precedes(x, z)
  BY <1>1, <1>4, CloserThanOrder DEF Precedes
<1>5. QED
  BY <1>2, <1>3, <1>4

-----------------------------------------------------------------------------
(* The nodes of a store that can be chosen from: at least one, no two with *)
(* the same id.                                                            *)
StoreViews(views) ==
    /\ views \subseteq NodeView /\ IsFiniteSet(views) /\ views # {}
    /\ \A x, y \in views : x.id = y.id => x = y

HasBest(views) == \E x \in views : \A y \in views \ {x} : Precedes(x, y)

LEMMA LeastNat ==
    ASSUME NEW N \in SUBSET Nat, N # {}
    PROVE  \E k \in N : \A j \in N : k <= j
<1>1. PICK k \in N : \A j \in N : ~(<<j, k>> \in OpToRel(<, Nat))
  BY NatLessThanWellFounded, WFMin
<1>2. \A j \in N : ~(j < k)
  BY <1>1 DEF OpToRel
<1>3. QED
  BY <1>2

(* There is a first node.  The smallest set without one would have one     *)
(* with a node taken out.                                                  *)
LEMMA BestExists ==
    ASSUME NEW views, StoreViews(views)
    PROVE  HasBest(views)
<1> DEFINE Bad == {T \in SUBSET views : T # {} /\ ~HasBest(T)}
           Sizes == {Cardinality(T) : T \in Bad}
<1>1. SUFFICES ASSUME views \in Bad PROVE FALSE
  BY DEF StoreViews
<1>2. \A T \in SUBSET views : IsFiniteSet(T) /\ Cardinality(T) \in Nat
  BY FS_Subset, FS_CardinalityType DEF StoreViews
<1>3. Sizes \in SUBSET Nat /\ Sizes # {}
  BY <1>1, <1>2
<1>4. PICK k \in Sizes : \A j \in Sizes : k <= j
  <2> HIDE DEF Sizes
  <2>1. QED
    BY <1>3, LeastNat
<1>5. PICK T \in Bad : \A U \in Bad : Cardinality(T) <= Cardinality(U)
  BY <1>4
<1>6. PICK x \in T : TRUE
  OBVIOUS
<1> DEFINE U == T \ {x}
<1>7. U \in SUBSET views /\ T = U \cup {x} /\ x \in NodeView /\ U \subseteq NodeView
  BY <1>6 DEF StoreViews
<1>8. Cardinality(U) = Cardinality(T) - 1 /\ Cardinality(T) \in Nat
  BY <1>2, <1>6, FS_RemoveElement
<1>9. U \notin Bad
  BY <1>5, <1>7, <1>8, <1>2
<1>10. CASE U = {}
  <2>1. T = {x}
    BY <1>7, <1>10
  <2>2. HasBest(T)
    BY <2>1 DEF HasBest
  <2>3. QED
    BY <2>2
<1>11. CASE U # {}
  <2>1. PICK m \in U : \A y \in U \ {m} : Precedes(m, y)
    BY <1>7, <1>9, <1>11 DEF HasBest
  <2>2. m \in NodeView /\ m # x /\ m.id # x.id
    BY <1>6, <1>7, <2>1 DEF StoreViews
  <2>3. CASE Precedes(m, x)
    <3>1. \A y \in T \ {m} : Precedes(m, y)
      BY <1>7, <2>1, <2>3
    <3>2. QED
      BY <1>7, <2>1, <3>1 DEF HasBest
  <2>4. CASE Precedes(x, m)
    <3>1. \A y \in T \ {x} : Precedes(x, y)
      <4>1. TAKE y \in T \ {x}
      <4>2. CASE y = m
        BY <2>4, <4>2
      <4>3. CASE y # m
        <5>1. Precedes(m, y) /\ y \in NodeView
          BY <1>7, <2>1, <4>3
        <5>2. QED
          BY <1>7, <2>2, <2>4, <5>1, RankingIsStrictOrder
      <4>4. QED
        BY <4>2, <4>3
    <3>2. QED
      BY <1>6, <3>1 DEF HasBest
  <2>5. QED
    BY <1>7, <2>2, <2>3, <2>4, RankingIsStrictOrder
<1>12. QED
  BY <1>10, <1>11

(* The first of the sorted nodes is one of them, it comes before all       *)
(* others, and its score is the highest.                                   *)
THEOREM BestIsFirst ==
    ASSUME NEW views, StoreViews(views)
    PROVE  /\ Best(views) \in views
           /\ \A x \in views \ {Best(views)} : Precedes(Best(views), x)
           /\ \A x \in views : x.score <= Best(views).score
<1>1. HasBest(views)
  BY BestExists
<1>2. /\ Best(views) \in views
      /\ \A y \in views \ {Best(views)} : Precedes(Best(views), y)
  BY <1>1 DEF HasBest, Best
<1>3. \A x \in views : x.score \in Nat
  BY DEF StoreViews, NodeView
<1>4. \A x \in views \ {Best(views)} : x.score <= Best(views).score
  BY <1>2, <1>3 DEF Precedes
<1>5. QED
  BY <1>2, <1>3, <1>4

(* The recommendation to leave an online node for a better one is not      *)
(* reversed while ids and scores stay what they are, whatever the move did *)
(* to the nodes' counts: the effective gap is positive.                    *)
THEOREM GapIsHysteresis ==
    ASSUME NEW before, StoreViews(before),
           NEW after, StoreViews(after),
           \A x \in after : \E y \in before : y.id = x.id /\ y.score = x.score,
           \A x \in before : \E y \in after : y.id = x.id /\ y.score = x.score,
           NEW from \in Nat, NEW gap \in Int,
           ShouldMigrate(before, from, gap)
    PROVE  ~ShouldMigrate(after, Best(before).id, gap)
<1>1. PICK target \in after : target.id = Best(before).id /\ target.score = Best(before).score
  BY BestIsFirst
<1>2. \A x \in after : x.score <= target.score
  BY <1>1, BestIsFirst DEF StoreViews
<1>3. Best(after).score <= target.score /\ Best(after).score \in Nat /\ target.score \in Nat
  BY <1>1, <1>2, BestIsFirst DEF StoreViews, NodeView
<1>4. \A x \in after : x.id = target.id => x = target
  BY DEF StoreViews
<1>5. EffectiveGap(gap) \in Int /\ EffectiveGap(gap) > 0
  BY DEF EffectiveGap
<1>6. SUFFICES ASSUME ShouldMigrate(after, target.id, gap) PROVE FALSE
  BY <1>1
<1>7. \E current \in after :
         current.id = target.id /\ Best(after).score - current.score >= EffectiveGap(gap)
  BY <1>6 DEF ShouldMigrate
<1>8. Best(after).score - target.score >= EffectiveGap(gap)
  BY <1>4, <1>7
<1>9. QED
  BY <1>3, <1>5, <1>8
==============================================================================
