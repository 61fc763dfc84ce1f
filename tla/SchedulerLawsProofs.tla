------------------------- MODULE SchedulerLawsProofs -------------------------
(***************************************************************************)
(* The laws of scoring and ranking hold of every set of networks, of       *)
(* nodes, of gaps and of counts.                                           *)
(***************************************************************************)
EXTENDS SchedulerLaws, SchedulerProofs

(* What is compared is measurements, or three nodes of one store. *)
TypeOK ==
    /\ law \in {"score", "rank"}
    /\ law = "score" => a \in Networks /\ b \in Networks /\ c \in BOOLEAN
    /\ law = "rank" => /\ a \in Nodes /\ b \in Nodes /\ c \in Nodes
                       /\ a.id # b.id /\ a.id # c.id /\ b.id # c.id

LEMMA InitTypeOK == Init => TypeOK
  BY DEF Init, TypeOK

LEMMA StepKeepsTypeOK == TypeOK /\ [SwapNetworks \/ RotateNodes]_vars => TypeOK'
<1>1. SUFFICES ASSUME TypeOK, [SwapNetworks \/ RotateNodes]_vars PROVE TypeOK'
  OBVIOUS
<1>2. CASE SwapNetworks
  <2>1. c' \in BOOLEAN
    BY <1>2 DEF SwapNetworks
  <2>2. QED
    BY <1>1, <1>2, <2>1 DEF SwapNetworks, TypeOK
<1>3. CASE RotateNodes
  BY <1>1, <1>3 DEF RotateNodes, TypeOK
<1>4. CASE UNCHANGED vars
  BY <1>1, <1>4 DEF vars, TypeOK
<1>5. QED
  BY <1>1, <1>2, <1>3, <1>4

LEMMA AlwaysTypeOK == Spec => []TypeOK
  BY InitTypeOK, StepKeepsTypeOK, PTL DEF Spec

-----------------------------------------------------------------------------
LEMMA StaleIsCapped ==
    ASSUME NEW network \in Network, HasMeasurement(network)
    PROVE  Score(network, TRUE) <= Score(network, FALSE) /\ Score(network, TRUE) <= 40
<1> DEFINE weighed == Weighed(LatencyScore(network.latency),
                              BandwidthScore(EffectiveBandwidth(network)))
<1>1. \A stale \in BOOLEAN : Score(network, stale) = IF stale /\ weighed > 40 THEN 40 ELSE weighed
  BY ScoreIsWeighed
<1>2. weighed \in 0..100
  BY ScoreIsWeighed
<1> HIDE DEF weighed
<1>3. PICK fresh \in BOOLEAN, stale \in BOOLEAN : fresh = FALSE /\ stale = TRUE
  OBVIOUS
<1>4. Score(network, fresh) = weighed
  BY <1>1, <1>3
<1>5. Score(network, stale) = IF weighed > 40 THEN 40 ELSE weighed
  BY <1>1, <1>3
<1>6. Score(network, stale) <= Score(network, fresh) /\ Score(network, stale) <= 40
  BY <1>2, <1>4, <1>5
<1>7. QED
  BY <1>3, <1>6

(* Every score is a percentage; age never raises it, and caps it at 40     *)
(* (scoreNetworkStatus).                                                   *)
THEOREM StaleScoresAreLow == Spec => []StaleScoresLow
<1>1. TypeOK => StaleScoresLow
  <2>1. SUFFICES ASSUME TypeOK, law = "score" PROVE StaleScoresLow
    BY DEF StaleScoresLow
  <2>2. a \in Network /\ c \in BOOLEAN
    BY <2>1, DrawnAssumption DEF TypeOK
  <2>3. Score(a, c) \in 0..100
    BY <2>2, ScoreIsPercentage
  <2>4. HasMeasurement(a) => Score(a, TRUE) <= Score(a, FALSE) /\ Score(a, TRUE) <= 40
    BY <2>2, StaleIsCapped
  <2>5. QED
    BY <2>3, <2>4 DEF StaleScoresLow
<1>2. QED
  BY <1>1, AlwaysTypeOK, PTL

(* A network that is no slower, in latency and bandwidth, than another one *)
(* of which both are known scores no lower: no step of the tables, no      *)
(* rounding of the division goes the wrong way (scoreNetworkStatus).       *)
THEOREM FasterScoresAreHigher == Spec => []FasterScoresHigher
<1>1. TypeOK => FasterScoresHigher
  <2>1. SUFFICES ASSUME TypeOK, law = "score", Known(a), Known(b), a.latency <= b.latency,
                        EffectiveBandwidth(a) >= EffectiveBandwidth(b)
                 PROVE  Score(a, c) >= Score(b, c)
    BY DEF FasterScoresHigher
  <2>2. a \in Network /\ b \in Network /\ c \in BOOLEAN
    BY <2>1, DrawnAssumption DEF TypeOK
  <2>3. \A x \in Network : Known(x) => HasMeasurement(x)
    BY DEF Known, HasMeasurement, Network
  <2>4. /\ a.latency \in Nat /\ EffectiveBandwidth(a) \in Nat
        /\ b.latency \in Nat /\ EffectiveBandwidth(b) \in Nat
    BY <2>2, BandwidthIsNat DEF Network
  <2> DEFINE la == LatencyScore(a.latency)
             lb == LatencyScore(b.latency)
             ba == BandwidthScore(EffectiveBandwidth(a))
             bb == BandwidthScore(EffectiveBandwidth(b))
  <2>5. la >= lb
    BY <2>1, <2>4, LatencyIsMonotonic DEF Known
  <2>6. ba >= bb
    BY <2>1, <2>4, BandwidthIsMonotonic DEF Known
  <2>7. la \in 0..100 /\ lb \in 0..100 /\ ba \in 0..100 /\ bb \in 0..100
    <3>1. la \in 15..100 /\ lb \in 15..100 /\ ba \in 25..100 /\ bb \in 25..100
      BY <2>4, TablesArePercentages
    <3> HIDE DEF la, lb, ba, bb
    <3>2. QED
      BY <3>1
  <2>8. /\ Score(a, c) = IF c /\ Weighed(la, ba) > 40 THEN 40 ELSE Weighed(la, ba)
        /\ Score(b, c) = IF c /\ Weighed(lb, bb) > 40 THEN 40 ELSE Weighed(lb, bb)
    BY <2>1, <2>2, <2>3, ScoreIsWeighed
  <2> HIDE DEF la, lb, ba, bb
  <2>9. Weighed(la, ba) >= Weighed(lb, bb) /\ Weighed(la, ba) \in Int /\ Weighed(lb, bb) \in Int
    <3>1. Weighed(la, ba) >= Weighed(lb, bb)
      BY <2>5, <2>6, <2>7, WeighedIsMonotonic
    <3>2. Weighed(la, ba) \in 0..100 /\ Weighed(lb, bb) \in 0..100
      BY <2>7, WeighedIsBetween
    <3>3. QED
      BY <3>1, <3>2
  <2>10. QED
    BY <2>8, <2>9
<1>2. QED
  BY <1>1, AlwaysTypeOK, PTL

(* Three nodes of one store can be ranked. *)
LEMMA ThreeAreRanked ==
    ASSUME NEW x \in NodeView, NEW y \in NodeView, NEW z \in NodeView,
           x.id # y.id, x.id # z.id, y.id # z.id
    PROVE  StoreViews({x, y, z})
<1>1. IsFiniteSet({x, y, z})
  <2>1. IsFiniteSet({x}) /\ IsFiniteSet({y}) /\ IsFiniteSet({z})
    BY FS_Singleton
  <2>2. IsFiniteSet({x} \cup {y})
    BY <2>1, FS_Union
  <2>3. IsFiniteSet(({x} \cup {y}) \cup {z})
    BY <2>1, <2>2, FS_Union
  <2>4. ({x} \cup {y}) \cup {z} = {x, y, z}
    OBVIOUS
  <2>5. QED
    BY <2>3, <2>4
<1>2. QED
  BY <1>1 DEF StoreViews

(* The effective gap keeps a client where a recommendation took it, also   *)
(* when a third node is online and whatever counts the move left           *)
(* (applyMigrationRecommendationsLocked).                                  *)
THEOREM GapsEndPingPong == Spec => []NoPingPong
<1>1. TypeOK => NoPingPong
  <2>1. SUFFICES ASSUME TypeOK, law = "rank",
                        NEW gap \in Gaps, NEW clients \in Counts, NEW proxies \in Counts
                 PROVE  LET before == {a, b, c}
                            after == {[a EXCEPT !.clientCount = 0, !.proxyCount = 0],
                                      [b EXCEPT !.clientCount = clients, !.proxyCount = proxies],
                                      c}
                        IN  Best(before).id = b.id /\ ShouldMigrate(before, a.id, gap)
                              => ~ShouldMigrate(after, b.id, gap)
    BY DEF NoPingPong
  <2> DEFINE a2 == [a EXCEPT !.clientCount = 0, !.proxyCount = 0]
             b2 == [b EXCEPT !.clientCount = clients, !.proxyCount = proxies]
             before == {a, b, c}
             after == {a2, b2, c}
  <2>2. /\ a \in NodeView /\ b \in NodeView /\ c \in NodeView /\ gap \in Int
        /\ clients \in Nat /\ proxies \in Nat
        /\ a.id # b.id /\ a.id # c.id /\ b.id # c.id
    BY <2>1, DrawnAssumption, MovesAssumption DEF TypeOK
  <2>3. /\ a2 \in NodeView /\ a2.id = a.id /\ a2.score = a.score
        /\ b2 \in NodeView /\ b2.id = b.id /\ b2.score = b.score
    BY <2>2 DEF NodeView
  <2> HIDE DEF a2, b2
  <2>4. StoreViews(before) /\ StoreViews(after)
    BY <2>2, <2>3, ThreeAreRanked
  <2>5. /\ \A x \in after : \E y \in before : y.id = x.id /\ y.score = x.score
        /\ \A x \in before : \E y \in after : y.id = x.id /\ y.score = x.score
    BY <2>3
  <2>6. a.id \in Nat
    BY <2>2 DEF NodeView
  <2> HIDE DEF before, after
  <2>7. ShouldMigrate(before, a.id, gap) => ~ShouldMigrate(after, Best(before).id, gap)
    BY <2>2, <2>4, <2>5, <2>6, GapIsHysteresis
  <2>8. QED
    BY <2>7 DEF before, after, a2, b2
<1>2. QED
  BY <1>1, AlwaysTypeOK, PTL
==============================================================================
