----------------------------- MODULE TrafficProofs -----------------------------
(***************************************************************************)
(* Traffic, for any control planes, nodes, intervals and caps: the lists   *)
(* of samples, what is known of the samples in them, and the sums the      *)
(* console shows.                                                          *)
(***************************************************************************)
EXTENDS Traffic, SequenceTheorems, FiniteSetTheorems, TLAPS

(* Lists in order *)

(* A strict order of S, no two of whose elements are equal in it. *)
StrictOrder(S, order) ==
    /\ \A x \in S : <<x, x>> \notin order
    /\ \A x, y \in S : x # y => <<x, y>> \in order \/ <<y, x>> \in order
    /\ \A x, y, z \in S : <<x, y>> \in order /\ <<y, z>> \in order => <<x, z>> \in order

(* What comes before an element. *)
Below(S, order, x) == {y \in S : <<y, x>> \in order}

LEMMA PartIsSmaller ==
    ASSUME NEW S, IsFiniteSet(S), NEW T, T \subseteq S
    PROVE  IsFiniteSet(T) /\ Cardinality(T) \in Nat /\ Cardinality(T) <= Cardinality(S)
<1>1. T \in SUBSET S
  OBVIOUS
<1>2. IsFiniteSet(T) /\ Cardinality(T) <= Cardinality(S)
  BY <1>1, FS_Subset
<1>3. QED
  BY <1>2, FS_CardinalityType

LEMMA BelowGrows ==
    ASSUME NEW S, IsFiniteSet(S), NEW order, StrictOrder(S, order)
    PROVE  /\ \A x \in S : Cardinality(Below(S, order, x)) \in 0..(Cardinality(S) - 1)
           /\ \A x, y \in S : <<x, y>> \in order =>
                Cardinality(Below(S, order, x)) < Cardinality(Below(S, order, y))
<1>1. ASSUME NEW x \in S
      PROVE  /\ IsFiniteSet(Below(S, order, x))
             /\ Cardinality(Below(S, order, x)) \in 0..(Cardinality(S) - 1)
  <2>1. Below(S, order, x) \subseteq S \ {x}
    BY DEF StrictOrder, Below
  <2>2. /\ IsFiniteSet(S \ {x}) /\ Cardinality(S \ {x}) = Cardinality(S) - 1
        /\ Cardinality(S) \in Nat
    BY FS_RemoveElement, FS_CardinalityType
  <2>3. /\ IsFiniteSet(Below(S, order, x)) /\ Cardinality(Below(S, order, x)) \in Nat
        /\ Cardinality(Below(S, order, x)) <= Cardinality(S \ {x})
    BY <2>1, <2>2, PartIsSmaller
  <2>4. QED
    BY <2>2, <2>3
<1>2. ASSUME NEW x \in S, NEW y \in S, <<x, y>> \in order
      PROVE  Cardinality(Below(S, order, x)) < Cardinality(Below(S, order, y))
  <2>1. Below(S, order, x) \subseteq Below(S, order, y) \ {x} /\ x \in Below(S, order, y)
    BY <1>2 DEF StrictOrder, Below
  <2>2. /\ IsFiniteSet(Below(S, order, y)) /\ Cardinality(Below(S, order, y)) \in Nat
        /\ Cardinality(Below(S, order, x)) \in Nat
    BY <1>1
  <2>3. /\ IsFiniteSet(Below(S, order, y) \ {x})
        /\ Cardinality(Below(S, order, y) \ {x}) = Cardinality(Below(S, order, y)) - 1
    BY <2>1, <2>2, FS_RemoveElement
  <2>4. Cardinality(Below(S, order, x)) <= Cardinality(Below(S, order, y) \ {x})
    BY <2>1, <2>3, PartIsSmaller
  <2>5. QED
    BY <2>2, <2>3, <2>4
<1>3. QED
  BY <1>1, <1>2

(* An element's place is the number of those before it: Listed has every   *)
(* element once, in order.                                                 *)
LEMMA ListedInOrder ==
    ASSUME NEW S, IsFiniteSet(S), NEW order, StrictOrder(S, order)
    PROVE  /\ Cardinality(S) \in Nat
           /\ Listed(S, order) \in [1..Cardinality(S) -> S]
           /\ \A x \in S : \E i \in 1..Cardinality(S) : Listed(S, order)[i] = x
           /\ \A i, j \in 1..Cardinality(S) :
                i < j => <<Listed(S, order)[i], Listed(S, order)[j]>> \in order
<1>1. PICK n \in Nat : n = Cardinality(S)
  BY FS_CardinalityType
<1>2. PICK place : place = [x \in S |-> Cardinality(Below(S, order, x)) + 1]
  OBVIOUS
<1>3. PICK s : s = Listed(S, order)
  OBVIOUS
<1>4. /\ \A x \in S : place[x] \in 1..n
      /\ \A x, y \in S : <<x, y>> \in order => place[x] < place[y]
  BY <1>1, <1>2, BelowGrows
<1>5. ASSUME NEW x \in S, NEW y \in S, place[x] = place[y]
      PROVE  x = y
  <2>1. ~(place[x] < place[y]) /\ ~(place[y] < place[x])
    BY <1>4, <1>5
  <2>2. QED
    BY <1>4, <2>1 DEF StrictOrder
<1>6. \A i \in 1..n : \E x \in S : place[x] = i
  <2>1. place \in Injection(S, 1..n)
    BY <1>2, <1>4, <1>5 DEF Injection, IsInjective
  <2>2. IsFiniteSet(1..n) /\ Cardinality(1..n) = n
    BY <1>1, FS_Interval
  <2>3. place \in Surjection(S, 1..n)
    BY <1>1, <2>1, <2>2, FS_Injection
  <2>4. QED
    BY <2>3 DEF Surjection
<1>7. ASSUME NEW i \in 1..n
      PROVE  s[i] \in S /\ place[s[i]] = i
  <2>1. \E x \in S : Cardinality(Below(S, order, x)) = i - 1
    BY <1>1, <1>2, <1>6, BelowGrows
  <2>2. s[i] = CHOOSE x \in S : Cardinality(Below(S, order, x)) = i - 1
    BY <1>1, <1>3 DEF Listed, Below
  <2>3. QED
    BY <1>2, <2>1, <2>2
<1>8. s \in [1..n -> S]
  BY <1>1, <1>3, <1>7 DEF Listed
<1>9. \A x \in S : s[place[x]] = x
  BY <1>4, <1>5, <1>7
<1>10. \A i, j \in 1..n : i < j => <<s[i], s[j]>> \in order
  <2> SUFFICES ASSUME NEW i \in 1..n, NEW j \in 1..n, i < j
               PROVE  <<s[i], s[j]>> \in order
    OBVIOUS
  <2>1. s[i] \in S /\ s[j] \in S /\ place[s[i]] = i /\ place[s[j]] = j
    BY <1>7
  <2>2. s[i] # s[j] /\ <<s[j], s[i]>> \notin order
    BY <1>4, <2>1
  <2>3. QED
    BY <2>1, <2>2 DEF StrictOrder
<1>11. QED
  BY <1>1, <1>3, <1>4, <1>8, <1>9, <1>10

(* What is left of a longer list are its last samples. *)
LEMMA CappedIsTail ==
    ASSUME NEW T, NEW s \in Seq(T)
    PROVE  /\ Capped(s) \in Seq(T)
           /\ Len(s) \in Nat /\ Len(Capped(s)) \in Nat
           /\ Len(Capped(s)) <= MaxSamples /\ Len(Capped(s)) <= Len(s)
           /\ Len(Capped(s)) < Len(s) => Len(Capped(s)) = MaxSamples
           /\ \A k \in 1..Len(Capped(s)) :
                /\ k + Len(s) - Len(Capped(s)) \in 1..Len(s)
                /\ Capped(s)[k] = s[k + Len(s) - Len(Capped(s))]
<1>1. Len(s) \in Nat /\ MaxSamples \in Nat \ {0}
  BY TrafficAssumption, LenProperties
<1>2. PICK m \in Nat : /\ m = Min({Len(s), MaxSamples})
                       /\ m <= Len(s) /\ m <= MaxSamples
                       /\ m = Len(s) \/ m = MaxSamples
  <2>1. \E m \in {Len(s), MaxSamples} : \A y \in {Len(s), MaxSamples} : m <= y
    BY <1>1
  <2>2. QED
    BY <1>1, <2>1 DEF Min
<1>3. \A i \in (Len(s) - m + 1)..Len(s) : s[i] \in T
  BY <1>1, <1>2, ElementOfSeq
<1>4. PICK a \in Int, b \in Int : a = Len(s) - m + 1 /\ b = Len(s) /\ b - a + 1 = m
  BY <1>1, <1>2
<1>5. PICK c : c = SubSeq(s, a, b)
  OBVIOUS
<1>6. /\ c \in Seq(T)
      /\ Len(c) = IF a <= b THEN b - a + 1 ELSE 0
      /\ \A k \in 1..b - a + 1 : c[k] = s[a + k - 1]
  <2>1. \A i \in a..b : s[i] \in T
    BY <1>3, <1>4
  <2>2. QED
    BY <1>5, <2>1, SubSeqProperties
<1>7. Len(c) = m /\ \A k \in 1..m : k + Len(s) - m \in 1..Len(s) /\ c[k] = s[k + Len(s) - m]
  <2>1. Len(c) = m
    BY <1>2, <1>4, <1>6
  <2>2. ASSUME NEW k \in 1..m
        PROVE  k + Len(s) - m \in 1..Len(s) /\ c[k] = s[k + Len(s) - m]
    <3>1. k \in 1..b - a + 1 /\ a + k - 1 = k + Len(s) - m
      BY <1>1, <1>2, <1>4
    <3>2. c[k] = s[a + k - 1]
      BY <1>6, <3>1
    <3>3. QED
      BY <1>1, <1>2, <3>1, <3>2
  <2>3. QED
    BY <2>1, <2>2
<1>8. Capped(s) = c
  BY <1>2, <1>4, <1>5 DEF Capped
<1>9. /\ Len(c) <= MaxSamples /\ Len(c) <= Len(s) /\ Len(c) \in Nat
      /\ Len(c) < Len(s) => Len(c) = MaxSamples
  BY <1>1, <1>2, <1>7
<1>10. \A k \in 1..Len(c) : k + Len(s) - Len(c) \in 1..Len(s) /\ c[k] = s[k + Len(s) - Len(c)]
  BY <1>7
<1>11. QED
  BY <1>1, <1>6, <1>8, <1>9, <1>10

(* Positions in their order, which is that of numbers. *)
LEMMA PositionsInOrder ==
    ASSUME NEW S, S \subseteq Nat, IsFiniteSet(S)
    PROVE  \E n \in Nat : \E f \in [1..n -> S] :
             /\ n = Cardinality(S) /\ f = Listed(S, {p \in S \X S : p[1] < p[2]})
             /\ \A x \in S : \E i \in 1..n : f[i] = x
             /\ \A i, j \in 1..n : i < j => f[i] < f[j]
<1>1. PICK order : order = {p \in S \X S : p[1] < p[2]}
  OBVIOUS
<1>2. \A x, y \in S : <<x, y>> \in order <=> x < y
  BY <1>1
<1>3. StrictOrder(S, order)
  BY <1>2 DEF StrictOrder
<1>0. PICK n \in Nat : n = Cardinality(S)
  BY FS_CardinalityType
<1>4. PICK f : n = Cardinality(S) /\ f = Listed(S, order)
  BY <1>0
<1>5. /\ f \in [1..n -> S]
      /\ \A x \in S : \E i \in 1..n : f[i] = x
      /\ \A i, j \in 1..n : i < j => <<f[i], f[j]>> \in order
  BY <1>3, <1>4, ListedInOrder
<1>6. \A i, j \in 1..n : i < j => f[i] < f[j]
  BY <1>2, <1>5
<1>7. f = Listed(S, {p \in S \X S : p[1] < p[2]})
  BY <1>1, <1>4
<1>8. QED
  <2> HIDE <1>1
  <2>1. QED
    BY <1>4, <1>5, <1>6, <1>7

(* The first and the last of some positions. *)
LEMMA EndPositions ==
    ASSUME NEW S, S # {}, IsFiniteSet(S), S \subseteq Nat
    PROVE  /\ \E i \in S : \A j \in S : i <= j
           /\ Max(S) \in S /\ \A i \in S : i <= Max(S)
<1>0. PICK n \in Nat : \E f \in [1..n -> S] :
        /\ \A x \in S : \E i \in 1..n : f[i] = x
        /\ \A i, j \in 1..n : i < j => f[i] < f[j]
  BY PositionsInOrder
<1>1. PICK f \in [1..n -> S] :
        /\ \A x \in S : \E i \in 1..n : f[i] = x
        /\ \A i, j \in 1..n : i < j => f[i] < f[j]
  BY <1>0
<1>2. n # 0
  <2>1. PICK x \in S : TRUE
    OBVIOUS
  <2>2. PICK i \in 1..n : f[i] = x
    BY <1>1, <2>1
  <2>3. QED
    BY <2>2
<1>3. 1 \in 1..n /\ n \in 1..n
  BY <1>2
<1>4. \A i \in 1..n : f[i] \in S /\ f[i] \in Nat
  <2>1. \A i \in 1..n : f[i] \in S
    BY <1>1
  <2>2. QED
    BY <2>1
<1>5. ASSUME NEW i \in 1..n
      PROVE  f[1] <= f[i] /\ f[i] <= f[n]
  <2>1. (i < n \/ i = n) /\ (1 < i \/ i = 1)
    OBVIOUS
  <2>2. f[i] <= f[n]
    BY <1>1, <1>3, <1>4, <2>1
  <2>3. f[1] <= f[i]
    BY <1>1, <1>3, <1>4, <2>1
  <2>4. QED
    BY <2>2, <2>3
<1>6. f[1] \in S /\ \A x \in S : f[1] <= x
  BY <1>1, <1>3, <1>4, <1>5
<1>7. f[n] \in S /\ \A x \in S : x <= f[n]
  BY <1>1, <1>3, <1>4, <1>5
<1>8. Max(S) \in S /\ \A i \in S : i <= Max(S)
  BY <1>7 DEF Max
<1>9. QED
  BY <1>6, <1>8

(* The samples of a list, each of them once or more often. *)
LEMMA RangeIsFinite ==
    ASSUME NEW T, NEW s \in Seq(T)
    PROVE  /\ IsFiniteSet(Range(s)) /\ Cardinality(Range(s)) \in Nat
           /\ Cardinality(Range(s)) <= Len(s)
           /\ (\A i, j \in 1..Len(s) : i < j => s[i] # s[j]) => Cardinality(Range(s)) = Len(s)
<1>1. Len(s) \in Nat /\ s \in [1..Len(s) -> T] /\ DOMAIN s = 1..Len(s)
  BY LenProperties
<1>2. s \in Surjection(1..Len(s), Range(s))
  BY <1>1 DEF Surjection, Range
<1>3. IsFiniteSet(1..Len(s)) /\ Cardinality(1..Len(s)) = Len(s)
  BY <1>1, FS_Interval
<1>4. /\ IsFiniteSet(Range(s)) /\ Cardinality(Range(s)) <= Len(s)
      /\ Cardinality(Range(s)) = Len(s) <=> s \in Injection(1..Len(s), Range(s))
  BY <1>2, <1>3, FS_Surjection
<1>5. ASSUME \A i, j \in 1..Len(s) : i < j => s[i] # s[j]
      PROVE  s \in Injection(1..Len(s), Range(s))
  <2>1. \A i, j \in 1..Len(s) : s[i] = s[j] => i = j
    BY <1>1, <1>5
  <2>2. QED
    BY <1>2, <2>1 DEF Injection, IsInjective, Surjection
<1>6. QED
  BY <1>4, <1>5, FS_CardinalityType

-----------------------------------------------------------------------------
(* What recording and merging leave of a list *)

(* A node's samples are in the order of their instants, and no sample is   *)
(* older than one before it by more than a report may be late.             *)
Ordered(s) ==
    \A i, j \in 1..Len(s) : i < j =>
        /\ s[i].node = s[j].node => s[i].at < s[j].at
        /\ s[i].at <= s[j].at + MaxDelay

(* s is left of the samples of K: what is retained and not in s gave way   *)
(* to a full list of samples that are newer, but for a lag.                *)
LeftOf(K, s, lag) ==
    /\ s \in Seq(TrafficSample) /\ Len(s) <= MaxSamples
    /\ Ordered(s)
    /\ Range(s) \subseteq {x \in K : Retained(x)}
    /\ \A x \in K : Retained(x) /\ x \notin Range(s) =>
         /\ Len(s) = MaxSamples
         /\ \A z \in Range(s) : x.at <= z.at + lag /\ (x.node = z.node => x.at < z.at)

LEMMA SamplesAreNumbers ==
    ASSUME NEW x \in TrafficSample
    PROVE  x.node \in NodeIDs /\ x.node \in Nat /\ x.at \in Nat /\ x.total \in Nat /\ x.delta \in Nat
<1>1. MaxClock \in Nat /\ MaxBytes \in Nat /\ NodeIDs \subseteq Nat
  BY TrafficAssumption
<1>2. Instant \subseteq Nat /\ Bytes \subseteq Nat
  BY <1>1 DEF Instant, Bytes
<1>3. QED
  BY <1>1, <1>2 DEF TrafficSample

LEMMA PruneLeaves ==
    ASSUME NEW s \in Seq(TrafficSample), Ordered(s)
    PROVE  LeftOf(Range(s), Prune(s), MaxDelay)
<1>1. PICK kept : kept = {i \in DOMAIN s : Retained(s[i])}
  OBVIOUS
<1>2. /\ Len(s) \in Nat /\ DOMAIN s = 1..Len(s)
      /\ \A i \in 1..Len(s) : s[i] \in TrafficSample
  BY LenProperties, ElementOfSeq
<1>3. kept \subseteq 1..Len(s) /\ IsFiniteSet(kept)
  <2>1. IsFiniteSet(1..Len(s)) /\ kept \subseteq 1..Len(s)
    BY <1>1, <1>2, FS_Interval
  <2>2. QED
    BY <2>1, PartIsSmaller
<1>4. kept \subseteq Nat
  BY <1>2, <1>3
<1>0. PICK n \in Nat : \E f \in [1..n -> kept] :
        /\ n = Cardinality(kept) /\ f = Listed(kept, {p \in kept \X kept : p[1] < p[2]})
        /\ \A x \in kept : \E i \in 1..n : f[i] = x
        /\ \A i, j \in 1..n : i < j => f[i] < f[j]
  BY <1>3, <1>4, PositionsInOrder
<1>5. PICK f \in [1..n -> kept] :
        /\ n = Cardinality(kept) /\ f = Listed(kept, {p \in kept \X kept : p[1] < p[2]})
        /\ \A x \in kept : \E i \in 1..n : f[i] = x
        /\ \A i, j \in 1..n : i < j => f[i] < f[j]
  BY <1>0
<1>6. \A i \in 1..n : f[i] \in 1..Len(s) /\ Retained(s[f[i]])
  BY <1>1, <1>3, <1>5
<1>7. PICK t : t = [k \in 1..n |-> s[f[k]]]
  OBVIOUS
<1>8. t \in Seq(TrafficSample) /\ Len(t) = n
  <2>1. t \in [1..n -> TrafficSample]
    BY <1>2, <1>6, <1>7
  <2>2. QED
    BY <2>1
<1>9. PICK c : c = Capped(t) /\ c = Prune(s)
  BY <1>1, <1>5, <1>7 DEF Prune
<1>10. /\ c \in Seq(TrafficSample) /\ Len(c) \in Nat
       /\ Len(c) <= MaxSamples /\ Len(c) <= n
       /\ Len(c) < n => Len(c) = MaxSamples
       /\ \A k \in 1..Len(c) : k + n - Len(c) \in 1..n /\ c[k] = t[k + n - Len(c)]
  BY <1>8, <1>9, CappedIsTail
<1>11. Len(c) \in Nat
  BY <1>10
<1>12. PICK g : g = [k \in 1..Len(c) |-> f[k + n - Len(c)]]
  OBVIOUS
<1>13. \A k \in 1..Len(c) : g[k] \in 1..Len(s) /\ c[k] = s[g[k]] /\ Retained(c[k])
  BY <1>6, <1>7, <1>10, <1>12
<1>14. ASSUME NEW i \in 1..Len(c), NEW j \in 1..Len(c), i < j
       PROVE  g[i] < g[j]
  <2>1. i + n - Len(c) < j + n - Len(c)
    BY <1>10, <1>14
  <2>2. QED
    BY <1>5, <1>10, <1>12, <2>1
<1>15. Ordered(c)
  BY <1>13, <1>14 DEF Ordered
<1>16. DOMAIN c = 1..Len(c)
  BY <1>10, LenProperties
<1>17. Range(c) \subseteq {x \in Range(s) : Retained(x)}
  BY <1>2, <1>13, <1>16 DEF Range
<1>18. ASSUME NEW x \in Range(s), Retained(x), x \notin Range(c)
       PROVE  /\ Len(c) = MaxSamples
              /\ \A z \in Range(c) : x.at <= z.at + MaxDelay /\ (x.node = z.node => x.at < z.at)
  <2>1. PICK i \in 1..Len(s) : x = s[i]
    BY <1>2 DEF Range
  <2>2. i \in kept
    BY <1>1, <1>2, <1>18, <2>1
  <2>3. PICK k \in 1..n : f[k] = i
    BY <1>5, <2>2
  <2>4. k <= n - Len(c)
    <3>1. SUFFICES ASSUME ~(k <= n - Len(c)) PROVE FALSE
      OBVIOUS
    <3>2. PICK l \in Int : l = k - (n - Len(c))
      <4>1. k - (n - Len(c)) \in Int
        BY <1>11
      <4>2. QED
        BY <4>1
    <3>3. l \in 1..Len(c) /\ l + n - Len(c) = k
      BY <1>10, <3>1, <3>2
    <3>4. c[l] = x
      BY <1>7, <1>10, <2>1, <2>3, <3>3
    <3>5. QED
      BY <1>16, <1>18, <3>3, <3>4 DEF Range
  <2>5. Len(c) = MaxSamples
    BY <1>10, <2>4
  <2>6. ASSUME NEW z \in Range(c)
        PROVE  x.at <= z.at + MaxDelay /\ (x.node = z.node => x.at < z.at)
    <3>1. PICK j \in 1..Len(c) : z = c[j]
      BY <1>16 DEF Range
    <3>2. k < j + n - Len(c)
      BY <1>10, <2>4, <3>1
    <3>3. i < g[j]
      BY <1>5, <1>10, <1>12, <2>3, <3>1, <3>2
    <3>4. QED
      BY <1>13, <2>1, <3>1, <3>3 DEF Ordered
  <2>7. QED
    BY <2>5, <2>6
<1>19. QED
  BY <1>9, <1>10, <1>15, <1>17, <1>18 DEF LeftOf

(* No two samples of K that differ are of one node and second. *)
Agree(K) == \A x, y \in K : x.node = y.node /\ x.at = y.at => x = y

LEMMA MergeLeaves ==
    ASSUME NEW local \in Seq(TrafficSample), NEW remote \in Seq(TrafficSample),
           Agree(Range(local) \cup Range(remote))
    PROVE  LeftOf(Range(local) \cup Range(remote), MergeSamples(local, remote), 0)
<1> DEFINE both == local \o remote
           Repeats(i) == \E j \in 1..(i - 1) :
                            both[j].node = both[i].node /\ both[j].at = both[i].at
           kept == {both[i] : i \in {j \in DOMAIN both : Retained(both[j]) /\ ~Repeats(j)}}
           order == {p \in kept \X kept : Before(p[1], p[2])}
<1>1. MergeSamples(local, remote) = Capped(Listed(kept, order))
  BY DEF MergeSamples
<1>2. /\ both \in Seq(TrafficSample) /\ Range(both) = Range(local) \cup Range(remote)
      /\ Len(both) \in Nat /\ DOMAIN both = 1..Len(both)
  BY ConcatProperties, RangeConcatenation, LenProperties
<1> HIDE DEF both
<1>3. \A x, y \in kept : <<x, y>> \in order <=> Before(x, y)
  OBVIOUS
<1> HIDE DEF order
<1>4. ASSUME NEW i \in 1..Len(both), Retained(both[i]), ~Repeats(i)
      PROVE  both[i] \in kept
  BY <1>2, <1>4
<1>5. kept \subseteq {x \in Range(both) : Retained(x)}
  BY <1>2 DEF Range
<1> HIDE DEF kept
<1>6. ASSUME NEW x \in Range(both), Retained(x)
      PROVE  x \in kept
  <2>1. PICK S : S = {j \in 1..Len(both) : both[j].node = x.node /\ both[j].at = x.at}
    OBVIOUS
  <2>2. S \subseteq 1..Len(both) /\ S \subseteq Nat
    BY <1>2, <2>1
  <2>3. S # {}
    BY <1>2, <2>1 DEF Range
  <2>4. IsFiniteSet(S)
    <3>1. IsFiniteSet(1..Len(both))
      BY <1>2, FS_Interval
    <3>2. QED
      BY <2>2, <3>1, PartIsSmaller
  <2>5. PICK i \in S : \A j \in S : i <= j
    BY <2>2, <2>3, <2>4, EndPositions
  <2>6. ~Repeats(i)
    BY <1>2, <2>1, <2>2, <2>5
  <2>7. both[i] = x
    BY <1>2, <2>1, <2>5 DEF Agree, Range
  <2>8. QED
    BY <1>4, <1>6, <2>2, <2>6, <2>7
<1>7. kept \subseteq TrafficSample /\ IsFiniteSet(kept)
  <2>1. IsFiniteSet(Range(both)) /\ Range(both) \subseteq TrafficSample
    BY <1>2, RangeIsFinite, RangeOfSeq
  <2>2. QED
    BY <1>5, <2>1, PartIsSmaller
<1>8. \A x \in kept : x.at \in Nat /\ x.node \in Nat
  BY <1>7, SamplesAreNumbers
<1>9. StrictOrder(kept, order)
  <2>1. \A x, y \in kept : x # y => Before(x, y) \/ Before(y, x)
    BY <1>2, <1>5, <1>8 DEF Agree, Before
  <2>2. \A x, y, z \in kept : Before(x, y) /\ Before(y, z) => Before(x, z)
    BY <1>8 DEF Before
  <2>3. \A x \in kept : ~Before(x, x)
    BY <1>8 DEF Before
  <2>4. QED
    BY <1>3, <2>1, <2>2, <2>3 DEF StrictOrder
<1>0. PICK n \in Nat : n = Cardinality(kept)
  BY <1>7, FS_CardinalityType
<1>10. PICK t : n = Cardinality(kept) /\ t = Listed(kept, order)
  BY <1>0
<1>11. /\ t \in [1..n -> kept]
       /\ \A x \in kept : \E i \in 1..n : t[i] = x
       /\ \A i, j \in 1..n : i < j => <<t[i], t[j]>> \in order
  <2>1. /\ Listed(kept, order) \in [1..Cardinality(kept) -> kept]
        /\ \A x \in kept : \E i \in 1..Cardinality(kept) : Listed(kept, order)[i] = x
        /\ \A i, j \in 1..Cardinality(kept) :
             i < j => <<Listed(kept, order)[i], Listed(kept, order)[j]>> \in order
    BY <1>7, <1>9, ListedInOrder
  <2>2. QED
    BY <1>10, <2>1
<1>12. \A i, j \in 1..n : i < j => Before(t[i], t[j])
  BY <1>3, <1>11
<1>13. t \in Seq(TrafficSample) /\ Len(t) = n
  <2>1. t \in [1..n -> TrafficSample]
    BY <1>7, <1>11
  <2>2. QED
    BY <2>1
<1>14. PICK c : c = Capped(t) /\ c = MergeSamples(local, remote)
  BY <1>1, <1>10
<1>15. /\ c \in Seq(TrafficSample) /\ Len(c) \in Nat
       /\ Len(c) <= MaxSamples /\ Len(c) <= n
       /\ Len(c) < n => Len(c) = MaxSamples
       /\ \A k \in 1..Len(c) : k + n - Len(c) \in 1..n /\ c[k] = t[k + n - Len(c)]
  BY <1>13, <1>14, CappedIsTail
<1>16. DOMAIN c = 1..Len(c)
  BY <1>15, LenProperties
<1>17. Range(c) \subseteq kept
  BY <1>11, <1>15, <1>16 DEF Range
<1>18. Ordered(c)
  <2> SUFFICES ASSUME NEW i \in 1..Len(c), NEW j \in 1..Len(c), i < j
               PROVE  /\ c[i].node = c[j].node => c[i].at < c[j].at
                      /\ c[i].at <= c[j].at + MaxDelay
    BY DEF Ordered
  <2>1. i + n - Len(c) < j + n - Len(c)
    BY <1>15
  <2>2. Before(c[i], c[j])
    BY <1>12, <1>15, <2>1
  <2>3. c[i] \in kept /\ c[j] \in kept /\ MaxDelay \in Nat
    BY <1>16, <1>17, TrafficAssumption DEF Range
  <2>4. QED
    BY <1>8, <2>2, <2>3 DEF Before
<1>19. ASSUME NEW x \in Range(both), Retained(x), x \notin Range(c)
       PROVE  /\ Len(c) = MaxSamples
              /\ \A z \in Range(c) : x.at <= z.at + 0 /\ (x.node = z.node => x.at < z.at)
  <2>1. PICK k \in 1..n : t[k] = x
    BY <1>6, <1>11, <1>19
  <2>2. k <= n - Len(c)
    <3>1. SUFFICES ASSUME ~(k <= n - Len(c)) PROVE FALSE
      OBVIOUS
    <3>2. Len(c) \in Nat
      BY <1>15
    <3>3. PICK l \in Int : l = k - (n - Len(c))
      <4>1. k - (n - Len(c)) \in Int
        BY <3>2
      <4>2. QED
        BY <4>1
    <3>4. l \in 1..Len(c) /\ l + n - Len(c) = k
      BY <1>15, <3>1, <3>3
    <3>5. c[l] = x
      BY <1>15, <2>1, <3>4
    <3>6. QED
      BY <1>16, <1>19, <3>4, <3>5 DEF Range
  <2>3. Len(c) = MaxSamples
    BY <1>15, <2>2
  <2>4. ASSUME NEW z \in Range(c)
        PROVE  x.at <= z.at + 0 /\ (x.node = z.node => x.at < z.at)
    <3>1. PICK j \in 1..Len(c) : z = c[j]
      BY <1>16 DEF Range
    <3>2. k < j + n - Len(c)
      BY <1>15, <2>2, <3>1
    <3>3. Before(x, z)
      BY <1>12, <1>15, <2>1, <3>1, <3>2
    <3>4. x \in kept /\ z \in kept
      BY <1>6, <1>17, <1>19
    <3>5. QED
      BY <1>8, <3>3, <3>4 DEF Before
  <2>5. QED
    BY <2>3, <2>4
<1>20. QED
  BY <1>2, <1>5, <1>14, <1>15, <1>17, <1>18, <1>19 DEF LeftOf

-----------------------------------------------------------------------------
(* What is known of the samples of all lists *)

AtHome(n) == Range(samples[Home[n]])

Copies ==
    {x \in TrafficSample : \/ \E r \in Replicas : x \in Range(samples[r])
                          \/ \E m \in wire : x \in Range(m.samples)}

(* A report in flight is not older than a report may be late. *)
Aged == \A report \in reports : report.at <= clock /\ clock <= report.at + MaxDelay

ListsOrdered ==
    /\ \A r \in Replicas : Ordered(samples[r])
    /\ \A m \in wire : Ordered(m.samples)

(* Two samples of a node are an interval apart, but for the lateness of    *)
(* the report that became the second.                                      *)
Spaced(C) ==
    /\ \A x \in C : x.at <= clock
    /\ \A x, y \in C : x.node = y.node /\ x # y =>
         x.at + Interval <= y.at + MaxDelay \/ y.at + Interval <= x.at + MaxDelay

(* At its home a node's newest samples are found, however many of them:    *)
(* if one is missing there, so are all older ones, and a merge does not    *)
(* bring them back, because they are too old or because the list is full   *)
(* of newer samples.                                                       *)
HomeIsNewest(C) ==
    \A y, p \in C : y.node = p.node /\ y.at < p.at /\ p \notin AtHome(p.node) =>
        /\ y \notin AtHome(p.node)
        /\ \/ ~Retained(y)
           \/ /\ Len(samples[Home[p.node]]) = MaxSamples
              /\ \A z \in AtHome(p.node) : y.at < z.at

(* A sample younger than an interval keeps its home from taking another. *)
HomeIsRecent(C) ==
    \A q \in C : \/ q.at + Interval <= clock
                 \/ \E z \in AtHome(q.node) : z.node = q.node /\ q.at <= z.at

ReportOf(x) == [node |-> x.node, at |-> x.at, total |-> x.total]

(* paid[p] is what p's node had carried when it reported p.  Counters grow *)
(* by what is carried at most, and a sample's delta is part of what its    *)
(* node has carried since any older sample.                                *)
PaidBy(paid, C) ==
    LET known == reports \cup {ReportOf(x) : x \in C}
    IN  /\ \A p \in known : /\ paid[p] <= carried[p.node]
                            /\ frps[p.node] - p.total <= carried[p.node] - paid[p]
        /\ \A p, q \in known : p.node = q.node /\ p.at < q.at =>
             paid[p] <= paid[q] /\ q.total - p.total <= paid[q] - paid[p]
        /\ \A x \in C : x.delta <= paid[ReportOf(x)]
        /\ \A x, y \in C : x.node = y.node /\ y.at < x.at =>
             x.delta <= paid[ReportOf(x)] - paid[ReportOf(y)]

Paid(C) == \E paid \in [Report -> Bytes] : PaidBy(paid, C)

TrafficInv ==
    /\ TypeOK /\ Aged /\ ListsOrdered
    /\ \A n \in NodeIDs : frps[n] <= carried[n]
    /\ Spaced(Copies) /\ HomeIsNewest(Copies) /\ HomeIsRecent(Copies) /\ Paid(Copies)

(* Constants and types *)

LEMMA ConstantsAreNumbers ==
    /\ Interval \in Nat \ {0} /\ Retention \in Nat \ {0} /\ MaxSamples \in Nat \ {0}
    /\ MaxDelay \in Nat /\ MaxBytes \in Nat /\ MaxClock \in Nat
    /\ 2 * MaxDelay < Interval /\ Interval <= Retention
    /\ NodeIDs \subseteq Nat /\ IsFiniteSet(NodeIDs)
    /\ \A n \in NodeIDs : Home[n] \in Replicas
<1>1. /\ Interval \in Nat \ {0} /\ Retention \in Nat \ {0} /\ MaxSamples \in Nat \ {0}
      /\ MaxDelay \in Nat /\ MaxBytes \in Nat /\ MaxClock \in Nat
  BY TrafficAssumption
<1>2. QED
  BY <1>1, TrafficAssumption

LEMMA CopiesAreSamples ==
    ASSUME TypeOK
    PROVE  /\ Copies \subseteq TrafficSample
           /\ \A r \in Replicas : Range(samples[r]) \subseteq Copies
           /\ \A m \in wire : Range(m.samples) \subseteq Copies
<1>1. \A r \in Replicas : Range(samples[r]) \subseteq TrafficSample
  BY RangeOfSeq DEF TypeOK
<1>2. \A m \in wire : Range(m.samples) \subseteq TrafficSample
  BY RangeOfSeq DEF TypeOK, State
<1>3. QED
  BY <1>1, <1>2 DEF Copies

LEMMA SpacedAgree ==
    ASSUME NEW C, C \subseteq TrafficSample, Spaced(C)
    PROVE  Agree(C)
<1> SUFFICES ASSUME NEW x \in C, NEW y \in C, x.node = y.node, x.at = y.at, x # y
             PROVE  FALSE
  BY DEF Agree
<1>1. x.at + Interval <= y.at + MaxDelay \/ y.at + Interval <= x.at + MaxDelay
  BY DEF Spaced
<1>2. x.at \in Nat
  BY SamplesAreNumbers
<1>3. QED
  BY <1>1, <1>2, ConstantsAreNumbers

(* The samples of a list differ. *)
LEMMA SamplesDiffer ==
    ASSUME NEW s \in Seq(TrafficSample), Ordered(s)
    PROVE  /\ \A i, j \in 1..Len(s) : i < j => s[i] # s[j]
           /\ \A i, j \in 1..Len(s) : i < j => s[i].node # s[j].node \/ s[i].at # s[j].at
<1> SUFFICES ASSUME NEW i \in 1..Len(s), NEW j \in 1..Len(s), i < j
             PROVE  s[i].node # s[j].node \/ s[i].at # s[j].at
  OBVIOUS
<1>1. s[i].at \in Nat /\ s[j].at \in Nat
  BY ElementOfSeq, SamplesAreNumbers
<1>2. QED
  BY <1>1 DEF Ordered

(* The samples of the other nodes within an interval are fewer than a full *)
(* list: of each node there are three at most.                             *)
LEMMA RoomForOthers ==
    ASSUME NEW s \in Seq(TrafficSample), Ordered(s), Spaced(Range(s)), Len(s) = MaxSamples,
           NEW n \in NodeIDs, NEW low \in Int,
           \A z \in Range(s) : z.node # n /\ low <= z.at /\ z.at < low + Interval + MaxDelay
    PROVE  FALSE
<1>1. PICK T : T = (NodeIDs \ {n}) \X (0..2)
  OBVIOUS
<1>2. IsFiniteSet(T) /\ Cardinality(T) < MaxSamples
  <2>1. /\ IsFiniteSet(NodeIDs \ {n}) /\ Cardinality(NodeIDs \ {n}) = Cardinality(NodeIDs) - 1
        /\ Cardinality(NodeIDs) \in Nat
    BY ConstantsAreNumbers, FS_RemoveElement, FS_CardinalityType
  <2>2. IsFiniteSet(0..2) /\ Cardinality(0..2) = 3
    <3>1. PICK a \in Int, b \in Int : a = 0 /\ b = 2
      OBVIOUS
    <3>2. IsFiniteSet(a..b) /\ Cardinality(a..b) = IF a > b THEN 0 ELSE b - a + 1
      BY FS_Interval
    <3>3. QED
      BY <3>1, <3>2
  <2>3. IsFiniteSet(T) /\ Cardinality(T) = (Cardinality(NodeIDs) - 1) * 3
    BY <1>1, <2>1, <2>2, FS_Product
  <2>4. 3 * (Cardinality(NodeIDs) - 1) < MaxSamples
    BY TrafficAssumption
  <2>5. QED
    BY <2>1, <2>3, <2>4, ConstantsAreNumbers
<1>3. Len(s) \in Nat /\ DOMAIN s = 1..Len(s)
  BY LenProperties
<1>4. PICK d \in Nat : d = Interval - MaxDelay
  <2>1. Interval - MaxDelay \in Nat
    BY ConstantsAreNumbers
  <2>2. QED
    BY <2>1
<1>5. PICK f : f = [i \in 1..Len(s) |->
                      <<s[i].node, IF s[i].at < low + d THEN 0
                                   ELSE IF s[i].at < low + d + d THEN 1 ELSE 2>>]
  OBVIOUS
<1>6. \A i \in 1..Len(s) : s[i] \in Range(s) /\ s[i].node \in NodeIDs /\ s[i].at \in Nat
  BY <1>3, ElementOfSeq, SamplesAreNumbers DEF Range
<1>7. f \in [1..Len(s) -> T]
  <2>1. \A i \in 1..Len(s) : s[i].node \in NodeIDs \ {n}
    BY <1>6
  <2>2. QED
    BY <1>1, <1>5, <2>1
<1>8. IsFiniteSet(1..Len(s)) /\ Cardinality(1..Len(s)) = Len(s)
  BY <1>3, FS_Interval
<1>9. PICK i \in 1..Len(s), j \in 1..Len(s) : i # j /\ f[i] = f[j]
  BY <1>2, <1>7, <1>8, FS_PigeonHole
<1>10. s[i] # s[j] /\ s[i].node = s[j].node
  <2>1. i < j \/ j < i
    BY <1>9
  <2>2. QED
    BY <1>5, <1>9, <2>1, SamplesDiffer
<1>11. s[i].at + Interval <= s[j].at + MaxDelay \/ s[j].at + Interval <= s[i].at + MaxDelay
  BY <1>6, <1>10 DEF Spaced
<1>12. /\ low <= s[i].at /\ s[i].at < low + Interval + MaxDelay
       /\ low <= s[j].at /\ s[j].at < low + Interval + MaxDelay
  BY <1>6
<1>13. \/ s[i].at < low + d /\ s[j].at < low + d
       \/ /\ ~(s[i].at < low + d) /\ s[i].at < low + d + d
          /\ ~(s[j].at < low + d) /\ s[j].at < low + d + d
       \/ ~(s[i].at < low + d + d) /\ ~(s[j].at < low + d + d)
  BY <1>5, <1>9
<1>14. PICK a \in Nat, b \in Nat : a = s[i].at /\ b = s[j].at
  BY <1>6
<1>15. a + Interval <= b + MaxDelay \/ b + Interval <= a + MaxDelay
  BY <1>11, <1>14
<1>16. low <= a /\ a < low + Interval + MaxDelay /\ low <= b /\ b < low + Interval + MaxDelay
  BY <1>12, <1>14
<1>17. \/ a < low + d /\ b < low + d
       \/ low + d <= a /\ a < low + d + d /\ low + d <= b /\ b < low + d + d
       \/ low + d + d <= a /\ low + d + d <= b
  BY <1>13, <1>14
<1>18. QED
  BY <1>4, <1>15, <1>16, <1>17, ConstantsAreNumbers

(* A full list that keeps all its samples takes no other. *)
LEMMA FullStays ==
    ASSUME NEW s \in Seq(TrafficSample), Ordered(s), Len(s) = MaxSamples,
           NEW c \in Seq(TrafficSample), Len(c) <= MaxSamples, Range(s) \subseteq Range(c)
    PROVE  Len(c) = MaxSamples /\ Range(c) = Range(s)
<1>1. Len(c) \in Nat /\ Len(s) \in Nat
  BY LenProperties
<1>2. /\ IsFiniteSet(Range(c)) /\ Cardinality(Range(c)) \in Nat
      /\ Cardinality(Range(c)) <= Len(c)
  BY RangeIsFinite
<1>3. Cardinality(Range(s)) = Len(s)
  BY RangeIsFinite, SamplesDiffer
<1>4. Cardinality(Range(s)) <= Cardinality(Range(c))
  BY <1>2, PartIsSmaller
<1>5. Len(c) = MaxSamples /\ Cardinality(Range(s)) = Cardinality(Range(c))
  BY <1>1, <1>2, <1>3, <1>4
<1>6. Range(s) \in SUBSET Range(c)
  OBVIOUS
<1>7. QED
  BY <1>2, <1>5, <1>6, FS_Subset

-----------------------------------------------------------------------------
(* A list of samples that recording or merging leaves *)

(* The control plane r keeps c, what is left of its list and of others,    *)
(* among them new samples N of nodes whose home it is.                     *)
Keeps(r, c, K, N) ==
    /\ samples' = [samples EXCEPT ![r] = c]
    /\ UNCHANGED <<clock, frps, carried>> /\ wire' \subseteq wire /\ reports' \subseteq reports
    /\ LeftOf(K, c, MaxDelay)
    /\ Range(samples[r]) \subseteq K /\ K \subseteq Copies \cup N
    /\ N \subseteq Range(c)
    /\ \A x \in N : /\ Home[x.node] = r /\ x.at <= clock
                   /\ \A q \in Copies : q.node = x.node => q.at < x.at

(* What a full list of newer samples has displaced stays away. *)
Displaces(r, c, K) ==
    \A y, p \in Copies :
        /\ y.node = p.node /\ Home[p.node] = r /\ y.at < p.at /\ p \notin K
        /\ y \notin Range(samples[r]) /\ Retained(y)
        /\ Len(samples[r]) = MaxSamples /\ \A z \in Range(samples[r]) : y.at < z.at
        => y \notin Range(c) /\ Len(c) = MaxSamples /\ \A z \in Range(c) : y.at < z.at

LEMMA KeepsCopies ==
    ASSUME TypeOK, NEW r \in Replicas, NEW c, NEW K, NEW N, Keeps(r, c, K, N)
    PROVE  /\ Copies' \subseteq Copies \cup N
           /\ samples'[r] = c /\ Range(c) \subseteq K /\ c \in Seq(TrafficSample)
           /\ \A n \in NodeIDs : AtHome(n)' = IF Home[n] = r THEN Range(c) ELSE AtHome(n)
           /\ \A q \in Copies \cup N : q \in TrafficSample /\ q.node \in NodeIDs /\ q.at \in Nat
<1>1. /\ samples \in [Replicas -> Seq(TrafficSample)] /\ samples' = [samples EXCEPT ![r] = c]
      /\ c \in Seq(TrafficSample) /\ Range(c) \subseteq K /\ wire' \subseteq wire
  BY DEF TypeOK, Keeps, LeftOf
<1>2. samples'[r] = c /\ \A p \in Replicas : p # r => samples'[p] = samples[p]
  BY <1>1
<1>3. Copies' \subseteq Copies \cup N
  <2> SUFFICES ASSUME NEW x \in Copies'
               PROVE  x \in Copies \cup N
    OBVIOUS
  <2>1. /\ x \in TrafficSample
        /\ \/ \E p \in Replicas : x \in Range(samples'[p])
           \/ \E m \in wire' : x \in Range(m.samples)
    BY DEF Copies, TrafficSample, Instant, Bytes
  <2>2. CASE x \in Range(c)
    BY <1>1, <2>2 DEF Keeps
  <2>3. CASE x \notin Range(c)
    BY <1>1, <1>2, <2>1, <2>3 DEF Copies
  <2>4. QED
    BY <2>2, <2>3
<1>4. \A n \in NodeIDs : AtHome(n)' = IF Home[n] = r THEN Range(c) ELSE AtHome(n)
  BY <1>2, ConstantsAreNumbers DEF AtHome
<1>5. Copies \cup N \subseteq TrafficSample
  BY <1>1, CopiesAreSamples, RangeOfSeq DEF Keeps
<1>6. QED
  BY <1>1, <1>2, <1>3, <1>4, <1>5, SamplesAreNumbers

LEMMA KeepsNewest ==
    ASSUME TrafficInv, NEW r \in Replicas, NEW c, NEW K, NEW N,
           Keeps(r, c, K, N), Displaces(r, c, K)
    PROVE  HomeIsNewest(Copies)'
<1>1. PICK C : C = Copies
  OBVIOUS
<1>2. /\ Copies' \subseteq C \cup N /\ samples'[r] = c /\ Range(c) \subseteq K
      /\ \A n \in NodeIDs : AtHome(n)' = IF Home[n] = r THEN Range(c) ELSE AtHome(n)
      /\ \A q \in C \cup N : q \in TrafficSample /\ q.node \in NodeIDs /\ q.at \in Nat
  BY <1>1, KeepsCopies DEF TrafficInv
<1>3. /\ clock' = clock /\ K \subseteq C \cup N /\ N \subseteq Range(c)
      /\ \A x \in N : Home[x.node] = r /\ \A q \in C : q.node = x.node => q.at < x.at
      /\ \A p \in Replicas : p # r => samples'[p] = samples[p]
  BY <1>1 DEF Keeps, TrafficInv, TypeOK
<1>4. \A q : Retained(q)' <=> Retained(q)
  BY <1>3 DEF Retained
<1>5. /\ \A x \in Range(c) : Retained(x)
      /\ \A x \in K : Retained(x) /\ x \notin Range(c) =>
           /\ Len(c) = MaxSamples
           /\ \A z \in Range(c) : x.at <= z.at + MaxDelay /\ (x.node = z.node => x.at < z.at)
  BY DEF Keeps, LeftOf
<1> SUFFICES ASSUME NEW y \in Copies', NEW p \in Copies',
                    y.node = p.node, y.at < p.at, p \notin AtHome(p.node)'
             PROVE  /\ y \notin AtHome(p.node)'
                    /\ \/ ~Retained(y)
                       \/ /\ Len(samples'[Home[p.node]]) = MaxSamples
                          /\ \A z \in AtHome(p.node)' : y.at < z.at
  BY <1>4 DEF HomeIsNewest
<1>6. y \in C \cup N /\ p \in C \cup N /\ p.node \in NodeIDs /\ Home[p.node] \in Replicas
  BY <1>2, ConstantsAreNumbers
<1>7. CASE Home[p.node] # r
  <2>1. y \in C /\ p \in C
    BY <1>3, <1>6, <1>7
  <2>2. AtHome(p.node)' = AtHome(p.node) /\ samples'[Home[p.node]] = samples[Home[p.node]]
    BY <1>2, <1>3, <1>6, <1>7
  <2>3. QED
    BY <1>1, <2>1, <2>2 DEF TrafficInv, HomeIsNewest
<1>8. CASE Home[p.node] = r
  <2>1. AtHome(p.node)' = Range(c) /\ AtHome(p.node) = Range(samples[r])
    BY <1>2, <1>6, <1>8 DEF AtHome
  <2>2. p \in C /\ y \in C
    BY <1>2, <1>3, <1>6, <2>1
  <2>3. CASE p \in K /\ ~Retained(p)
    <3>1. ~Retained(y)
      BY <1>2, <2>2, <2>3, ConstantsAreNumbers DEF Retained, TrafficInv, TypeOK, Instant
    <3>2. QED
      BY <1>5, <2>1, <3>1
  <2>4. CASE p \in K /\ Retained(p)
    <3>1. /\ Len(c) = MaxSamples
          /\ \A z \in Range(c) : p.at <= z.at + MaxDelay /\ (p.node = z.node => p.at < z.at)
      BY <1>5, <2>1, <2>4
    <3>2. y \notin Range(c)
      BY <1>2, <2>2, <3>1
    <3>3. y.at + Interval <= p.at + MaxDelay
      <4>1. y.at + Interval <= p.at + MaxDelay \/ p.at + Interval <= y.at + MaxDelay
        <5>1. y # p
          BY <1>2, <2>2
        <5>2. QED
          BY <1>1, <2>2, <5>1 DEF TrafficInv, Spaced
      <4>2. QED
        BY <1>2, <2>2, <4>1, ConstantsAreNumbers
    <3>4. ASSUME NEW z \in Range(c)
          PROVE  y.at < z.at
      <4>1. z.at \in Nat /\ p.at <= z.at + MaxDelay
        BY <1>2, <1>3, <3>1
      <4>2. QED
        BY <1>2, <2>2, <3>3, <4>1, ConstantsAreNumbers
    <3>5. QED
      BY <1>2, <1>8, <2>1, <3>1, <3>2, <3>4
  <2>5. CASE p \notin K
    <3>1. p \notin AtHome(p.node)
      BY <2>1, <2>5 DEF Keeps
    <3>2. /\ y \notin Range(samples[r])
          /\ \/ ~Retained(y)
             \/ Len(samples[r]) = MaxSamples /\ \A z \in Range(samples[r]) : y.at < z.at
      BY <1>1, <1>8, <2>1, <2>2, <3>1 DEF TrafficInv, HomeIsNewest
    <3>3. CASE ~Retained(y)
      BY <1>5, <2>1, <3>3
    <3>4. CASE Retained(y)
      <4>1. y \notin Range(c) /\ Len(c) = MaxSamples /\ \A z \in Range(c) : y.at < z.at
        BY <1>1, <1>8, <2>2, <2>5, <3>2, <3>4 DEF Displaces
      <4>2. QED
        BY <1>2, <1>8, <2>1, <4>1
    <3>5. QED
      BY <3>3, <3>4
  <2>6. QED
    BY <2>3, <2>4, <2>5
<1>9. QED
  BY <1>7, <1>8

LEMMA KeepsRecent ==
    ASSUME TrafficInv, NEW r \in Replicas, NEW c, NEW K, NEW N,
           Keeps(r, c, K, N), Spaced(Copies \cup N)
    PROVE  HomeIsRecent(Copies)'
<1>1. PICK C : C = Copies
  OBVIOUS
<1>2. /\ Copies' \subseteq C \cup N /\ Range(c) \subseteq K /\ c \in Seq(TrafficSample)
      /\ \A n \in NodeIDs : AtHome(n)' = IF Home[n] = r THEN Range(c) ELSE AtHome(n)
      /\ \A q \in C \cup N : q \in TrafficSample /\ q.node \in NodeIDs /\ q.at \in Nat
  BY <1>1, KeepsCopies DEF TrafficInv
<1>3. /\ clock' = clock /\ K \subseteq C \cup N /\ N \subseteq Range(c)
      /\ Range(samples[r]) \subseteq K
      /\ \A x \in N : Home[x.node] = r /\ x.at <= clock
  BY <1>1 DEF Keeps
<1>4. /\ Ordered(c) /\ \A x \in Range(c) : Retained(x)
      /\ \A x \in K : Retained(x) /\ x \notin Range(c) =>
           /\ Len(c) = MaxSamples
           /\ \A z \in Range(c) : x.at <= z.at + MaxDelay /\ (x.node = z.node => x.at < z.at)
  BY DEF Keeps, LeftOf
<1>5. clock \in Nat /\ \A w \in Range(c) : w.at \in Nat /\ w.at <= clock
  <2>1. clock \in Nat
    BY ConstantsAreNumbers DEF TrafficInv, TypeOK, Instant
  <2>2. \A w \in C : w.at <= clock
    BY <1>1 DEF TrafficInv, Spaced
  <2>3. QED
    BY <1>2, <1>3, <2>1, <2>2
<1> SUFFICES ASSUME NEW q \in Copies', ~(q.at + Interval <= clock)
             PROVE  \E z \in AtHome(q.node)' : z.node = q.node /\ q.at <= z.at
  BY <1>3 DEF HomeIsRecent
<1>6. q \in C \cup N /\ q.node \in NodeIDs /\ q.at \in Nat
  BY <1>2
<1>7. CASE q \in N
  BY <1>2, <1>3, <1>6, <1>7
<1>8. CASE q \in C
  <2>1. PICK z \in AtHome(q.node) : z.node = q.node /\ q.at <= z.at
    BY <1>1, <1>8 DEF TrafficInv, HomeIsRecent
  <2>2. CASE Home[q.node] # r
    BY <1>2, <1>6, <2>1, <2>2
  <2>3. CASE Home[q.node] = r
    <3>1. z \in K /\ z \in C \cup N /\ z.at \in Nat
      BY <1>2, <1>3, <2>1, <2>3 DEF AtHome
    <3>2. CASE z \in Range(c)
      BY <1>2, <1>6, <2>1, <2>3, <3>2
    <3>3. CASE z \notin Range(c)
      <4>1. ~(z.at + Interval <= clock)
        BY <1>5, <1>6, <2>1, <3>1, ConstantsAreNumbers
      <4>2. Retained(z)
        BY <1>5, <3>1, <4>1, ConstantsAreNumbers DEF Retained
      <4>3. /\ Len(c) = MaxSamples
            /\ \A w \in Range(c) : z.at <= w.at + MaxDelay /\ (z.node = w.node => z.at < w.at)
        BY <1>4, <3>1, <3>3, <4>2
      <4>4. \E w \in Range(c) : w.node = q.node
        <5> SUFFICES ASSUME \A w \in Range(c) : w.node # q.node
                     PROVE  FALSE
          OBVIOUS
        <5>1. PICK low \in Int : low = z.at - MaxDelay
          <6>1. z.at - MaxDelay \in Int
            BY <3>1, ConstantsAreNumbers
          <6>2. QED
            BY <6>1
        <5>2. ASSUME NEW w \in Range(c)
              PROVE  w.node # q.node /\ low <= w.at /\ w.at < low + Interval + MaxDelay
          <6>1. w.at \in Nat /\ w.at <= clock /\ z.at <= w.at + MaxDelay
            BY <1>5, <4>3
          <6>2. QED
            BY <1>5, <3>1, <4>1, <5>1, <6>1, ConstantsAreNumbers
        <5>3. Spaced(Range(c))
          BY <1>1, <1>2, <1>3 DEF Spaced
        <5>4. QED
          BY <1>2, <1>4, <1>6, <4>3, <5>2, <5>3, RoomForOthers
      <4>5. PICK w \in Range(c) : w.node = q.node
        BY <4>4
      <4>6. q.at <= w.at
        BY <1>5, <1>6, <2>1, <3>1, <4>3, <4>5
      <4>7. QED
        BY <1>2, <1>6, <2>3, <4>5, <4>6
    <3>4. QED
      BY <3>2, <3>3
  <2>4. QED
    BY <2>2, <2>3
<1>9. QED
  BY <1>6, <1>7, <1>8

-----------------------------------------------------------------------------
(* A report that is recorded *)

Previous(s, n) == s[Max(PositionsOf(s, n))]

IsDue(s, report) ==
    PositionsOf(s, report.node) = {} \/ ~(clock - Previous(s, report.node).at < Interval)

Recorded(s, report) ==
    [node |-> report.node, at |-> report.at, total |-> report.total,
     delta |-> IF PositionsOf(s, report.node) = {} THEN 0
               ELSE PositiveDelta(Previous(s, report.node).total, report.total)]

LEMMA SampledIfDue ==
    ASSUME NEW s, NEW report
    PROVE  Sampled(s, report) =
             IF IsDue(s, report) THEN Prune(Append(s, Recorded(s, report))) ELSE s
BY DEF Sampled, IsDue, Recorded, Previous

(* The previous sample is the list's newest of its node. *)
LEMMA PreviousIsLast ==
    ASSUME NEW s \in Seq(TrafficSample), Ordered(s), NEW n
    PROVE  /\ PositionsOf(s, n) = {} => \A z \in Range(s) : z.node # n
           /\ PositionsOf(s, n) # {} =>
                /\ Previous(s, n) \in Range(s) /\ Previous(s, n).node = n
                /\ \A z \in Range(s) :
                     z.node = n => z = Previous(s, n) \/ z.at < Previous(s, n).at
<1>1. PICK S : S = PositionsOf(s, n)
  OBVIOUS
<1>2. Len(s) \in Nat /\ DOMAIN s = 1..Len(s)
  BY LenProperties
<1>3. S = {i \in 1..Len(s) : s[i].node = n}
  BY <1>1, <1>2 DEF PositionsOf
<1>4. S \subseteq Nat /\ IsFiniteSet(S)
  <2>1. IsFiniteSet(1..Len(s)) /\ S \subseteq 1..Len(s)
    BY <1>2, <1>3, FS_Interval
  <2>2. IsFiniteSet(S)
    BY <2>1, PartIsSmaller
  <2>3. QED
    BY <1>2, <2>1, <2>2
<1>5. S = {} => \A z \in Range(s) : z.node # n
  BY <1>2, <1>3 DEF Range
<1>6. ASSUME S # {}
      PROVE  /\ Previous(s, n) \in Range(s) /\ Previous(s, n).node = n
             /\ \A z \in Range(s) : z.node = n => z = Previous(s, n) \/ z.at < Previous(s, n).at
  <2>1. PICK last : last = Max(S) /\ last \in S /\ \A i \in S : i <= last
    BY <1>4, <1>6, EndPositions
  <2>2. Previous(s, n) = s[last]
    BY <1>1, <2>1 DEF Previous
  <2>3. last \in 1..Len(s) /\ s[last].node = n
    BY <1>3, <2>1
  <2>4. ASSUME NEW z \in Range(s), z.node = n
        PROVE  z = s[last] \/ z.at < s[last].at
    <3>1. PICK i \in 1..Len(s) : z = s[i]
      BY <1>2 DEF Range
    <3>2. i <= last
      BY <1>3, <2>1, <2>4, <3>1
    <3>3. CASE i < last
      BY <2>3, <2>4, <3>1, <3>3 DEF Ordered
    <3>4. CASE i = last
      BY <3>1, <3>4
    <3>5. QED
      BY <1>2, <2>3, <3>2, <3>3, <3>4
  <2>5. QED
    BY <1>2, <2>2, <2>3, <2>4 DEF Range
<1>7. QED
  BY <1>1, <1>5, <1>6

(* When a sample is due no copy of the node's samples is younger than an   *)
(* interval, wherever it is, and none is newer than the one the delta is   *)
(* taken from.                                                             *)
LEMMA DueIsLate ==
    ASSUME TrafficInv, NEW report \in reports, IsDue(samples[Home[report.node]], report)
    PROVE  LET n == report.node
               s == samples[Home[n]]
           IN  /\ \A q \in Copies : q.node = n => q.at + Interval <= clock
               /\ PositionsOf(s, n) # {} =>
                    /\ Previous(s, n) \in Copies /\ Previous(s, n).node = n
                    /\ \A q \in Copies :
                         q.node = n => q = Previous(s, n) \/ q.at < Previous(s, n).at
<1>1. PICK n, s : n = report.node /\ s = samples[Home[n]]
  OBVIOUS
<1>2. n \in NodeIDs /\ Home[n] \in Replicas
  BY <1>1, ConstantsAreNumbers DEF TrafficInv, TypeOK, Report
<1>3. s \in Seq(TrafficSample) /\ Ordered(s) /\ Range(s) \subseteq Copies /\ AtHome(n) = Range(s)
  BY <1>1, <1>2, CopiesAreSamples DEF TrafficInv, TypeOK, ListsOrdered, AtHome
<1>4. \A q \in Copies : q.at \in Nat
  BY SamplesAreNumbers DEF Copies
<1>5. clock \in Nat
  BY ConstantsAreNumbers DEF TrafficInv, TypeOK, Instant
<1>6. CASE PositionsOf(s, n) = {}
  <2>1. \A z \in AtHome(n) : z.node # n
    BY <1>3, <1>6, PreviousIsLast
  <2>2. \A q \in Copies : q.node = n => q.at + Interval <= clock
    BY <2>1 DEF TrafficInv, HomeIsRecent
  <2>3. QED
    BY <1>1, <1>6, <2>2
<1>7. CASE PositionsOf(s, n) # {}
  <2>1. PICK last : last = Previous(s, n)
    OBVIOUS
  <2>2. /\ last \in Range(s) /\ last.node = n
        /\ \A z \in Range(s) : z.node = n => z = last \/ z.at < last.at
    BY <1>3, <1>7, <2>1, PreviousIsLast
  <2>3. last \in Copies /\ last.at \in Nat
    BY <1>3, <1>4, <2>2
  <2>4. last.at + Interval <= clock
    <3>1. ~(clock - last.at < Interval)
      BY <1>1, <1>7, <2>1 DEF IsDue
    <3>2. QED
      BY <1>5, <2>3, <3>1, ConstantsAreNumbers
  <2>5. ASSUME NEW q \in Copies, q.node = n
        PROVE  q = last \/ q.at < last.at
    <3>1. CASE q \in Range(s)
      BY <2>2, <2>5, <3>1
    <3>2. CASE q \notin Range(s)
      <4>1. ~(last.at < q.at)
        BY <1>3, <2>2, <2>3, <2>5, <3>2 DEF TrafficInv, HomeIsNewest
      <4>2. q.at # last.at
        <5>1. Agree(Copies)
          BY CopiesAreSamples, SpacedAgree DEF TrafficInv
        <5>2. QED
          BY <2>2, <2>3, <2>5, <3>2, <5>1 DEF Agree
      <4>3. QED
        BY <1>4, <2>3, <4>1, <4>2
    <3>3. QED
      BY <3>1, <3>2
  <2>6. \A q \in Copies : q.node = n => q.at + Interval <= clock
    BY <1>4, <1>5, <2>3, <2>4, <2>5, ConstantsAreNumbers
  <2>7. QED
    BY <1>1, <2>1, <2>2, <2>3, <2>5, <2>6
<1>8. QED
  BY <1>6, <1>7

LEMMA RecordedIsNewest ==
    ASSUME TrafficInv, NEW report \in reports, NEW x,
           IsDue(samples[Home[report.node]], report),
           x = Recorded(samples[Home[report.node]], report)
    PROVE  /\ x \in TrafficSample /\ x.node = report.node /\ ReportOf(x) = report
           /\ x.at <= clock /\ clock <= x.at + MaxDelay /\ Retained(x)
           /\ \A q \in Copies : q.node = x.node => q.at < x.at /\ q.at + Interval <= x.at + MaxDelay
<1>1. PICK n, s : n = report.node /\ s = samples[Home[n]]
  OBVIOUS
<1>2. /\ report \in Report /\ report.node \in NodeIDs /\ report.at \in Nat /\ report.total \in Nat
      /\ report.total <= MaxBytes /\ Home[n] \in Replicas /\ clock \in Nat
      /\ report.at <= clock /\ clock <= report.at + MaxDelay
  BY <1>1, ConstantsAreNumbers DEF TrafficInv, TypeOK, Report, Instant, Bytes, Aged
<1>3. x = [node |-> n, at |-> report.at, total |-> report.total,
           delta |-> IF PositionsOf(s, n) = {} THEN 0
                     ELSE PositiveDelta(Previous(s, n).total, report.total)]
  BY <1>1 DEF Recorded
<1>4. x.delta \in Bytes
  <2>1. CASE PositionsOf(s, n) = {}
    BY <1>3, <2>1, ConstantsAreNumbers DEF Bytes
  <2>2. CASE PositionsOf(s, n) # {}
    <3>1. Previous(s, n) \in Copies
      BY <1>1, <2>2, DueIsLate
    <3>2. Previous(s, n).total \in Nat
      BY <3>1, SamplesAreNumbers DEF Copies
    <3>3. PositiveDelta(Previous(s, n).total, report.total) \in Bytes
      BY <1>2, <3>2, ConstantsAreNumbers DEF PositiveDelta, Bytes
    <3>4. QED
      BY <1>3, <2>2, <3>3
  <2>3. QED
    BY <2>1, <2>2
<1>5. x \in TrafficSample /\ x.node = n /\ x.at = report.at /\ x.total = report.total
  BY <1>1, <1>2, <1>3, <1>4 DEF TrafficSample, Report
<1>6. ReportOf(x) = report
  BY <1>1, <1>2, <1>5 DEF ReportOf, Report
<1>7. Retained(x)
  BY <1>2, <1>5, ConstantsAreNumbers DEF Retained
<1>8. \A q \in Copies : q.node = n => q.at < x.at /\ q.at + Interval <= x.at + MaxDelay
  <2> SUFFICES ASSUME NEW q \in Copies, q.node = n
               PROVE  q.at < x.at /\ q.at + Interval <= x.at + MaxDelay
    OBVIOUS
  <2>1. q.at + Interval <= clock
    BY <1>1, DueIsLate
  <2>2. q.at \in Nat
    BY SamplesAreNumbers DEF Copies
  <2>3. QED
    BY <1>2, <1>5, <2>1, <2>2, ConstantsAreNumbers
<1>9. QED
  BY <1>1, <1>2, <1>5, <1>6, <1>7, <1>8

LEMMA RecordedFits ==
    ASSUME TrafficInv, NEW report \in reports, NEW x, NEW s,
           s = samples[Home[report.node]], IsDue(s, report), x = Recorded(s, report)
    PROVE  /\ Append(s, x) \in Seq(TrafficSample) /\ Ordered(Append(s, x))
           /\ Range(Append(s, x)) = Range(s) \cup {x}
           /\ Spaced(Copies \cup {x})
<1>1. /\ x \in TrafficSample /\ x.node = report.node
      /\ x.at <= clock /\ clock <= x.at + MaxDelay
      /\ \A q \in Copies : q.node = x.node => q.at < x.at /\ q.at + Interval <= x.at + MaxDelay
  BY RecordedIsNewest
<1>2. Home[report.node] \in Replicas
  BY ConstantsAreNumbers DEF TrafficInv, TypeOK, Report
<1>3. s \in Seq(TrafficSample) /\ Ordered(s) /\ Range(s) \subseteq Copies
  BY <1>2, CopiesAreSamples DEF TrafficInv, TypeOK, ListsOrdered
<1>4. /\ \A q \in Copies : q.at \in Nat /\ q.at <= clock
      /\ x.at \in Nat /\ clock \in Nat
  BY <1>1, SamplesAreNumbers, ConstantsAreNumbers DEF Copies, TrafficInv, TypeOK, Spaced, Instant
<1>5. PICK t : t = Append(s, x)
  OBVIOUS
<1>6. /\ t \in Seq(TrafficSample) /\ Len(s) \in Nat /\ Len(t) = Len(s) + 1
      /\ \A i \in 1..Len(s) : t[i] = s[i] /\ s[i] \in Range(s)
      /\ t[Len(s) + 1] = x
      /\ DOMAIN t = 1..Len(t) /\ DOMAIN s = 1..Len(s)
  BY <1>1, <1>3, <1>5, AppendProperties, LenProperties DEF Range
<1>7. Range(t) = Range(s) \cup {x}
  <2>1. 1..Len(t) = (1..Len(s)) \cup {Len(s) + 1}
    BY <1>6
  <2>2. QED
    BY <1>6, <2>1 DEF Range
<1>8. Ordered(t)
  <2> SUFFICES ASSUME NEW i \in 1..Len(t), NEW j \in 1..Len(t), i < j
               PROVE  /\ t[i].node = t[j].node => t[i].at < t[j].at
                      /\ t[i].at <= t[j].at + MaxDelay
    BY DEF Ordered
  <2>1. i \in 1..Len(s)
    BY <1>6
  <2>2. CASE j \in 1..Len(s)
    BY <1>3, <1>6, <2>1, <2>2 DEF Ordered
  <2>3. CASE j = Len(s) + 1
    <3>1. t[j] = x /\ t[i] \in Copies
      BY <1>3, <1>6, <2>1, <2>3
    <3>2. t[i].at <= clock /\ t[i].at \in Nat
      BY <1>4, <3>1
    <3>3. t[i].at <= t[j].at + MaxDelay
      BY <1>1, <1>4, <3>1, <3>2, ConstantsAreNumbers
    <3>4. t[i].node = t[j].node => t[i].at < t[j].at
      BY <1>1, <3>1
    <3>5. QED
      BY <3>3, <3>4
  <2>4. QED
    BY <1>6, <2>2, <2>3
<1>9. Spaced(Copies \cup {x})
  BY <1>1, <1>4 DEF TrafficInv, Spaced
<1>10. QED
  BY <1>5, <1>6, <1>7, <1>8, <1>9

LEMMA ReportsAreKnown ==
    ASSUME TypeOK, NEW paid \in [Report -> Bytes]
    PROVE  /\ \A x \in TrafficSample : ReportOf(x) \in Report
           /\ \A p \in Report : /\ paid[p] \in Nat /\ paid[p] <= MaxBytes
                                /\ p.at \in Nat /\ p.total \in Nat /\ p.node \in NodeIDs
           /\ \A n \in NodeIDs : frps[n] \in Nat /\ carried[n] \in Nat /\ carried[n] <= MaxBytes
<1>1. \A x \in TrafficSample : ReportOf(x) \in Report
  BY DEF ReportOf, Report, TrafficSample
<1>2. \A p \in Report : /\ paid[p] \in Nat /\ paid[p] <= MaxBytes
                        /\ p.at \in Nat /\ p.total \in Nat /\ p.node \in NodeIDs
  <2>1. \A p \in Report : p.at \in Nat /\ p.total \in Nat /\ p.node \in NodeIDs
    BY ConstantsAreNumbers DEF Report, Bytes, Instant
  <2>2. \A p \in Report : paid[p] \in Bytes
    OBVIOUS
  <2>3. QED
    BY <2>1, <2>2, ConstantsAreNumbers DEF Bytes
<1>3. \A n \in NodeIDs : frps[n] \in Nat /\ carried[n] \in Nat /\ carried[n] <= MaxBytes
  BY ConstantsAreNumbers DEF TypeOK, Bytes
<1>4. QED
  BY <1>1, <1>2, <1>3
(* The delta of a new sample is part of what its node has carried since    *)
(* any older sample.                                                       *)
LEMMA RecordedIsPaid ==
    ASSUME TrafficInv, NEW report \in reports, NEW x,
           IsDue(samples[Home[report.node]], report),
           x = Recorded(samples[Home[report.node]], report)
    PROVE  Paid(Copies \cup {x})
<1>1. PICK n, s : n = report.node /\ s = samples[Home[n]]
  OBVIOUS
<1>2. PICK paid \in [Report -> Bytes] : PaidBy(paid, Copies)
  BY DEF TrafficInv, Paid
<1>3. PICK C, known : C = Copies /\ known = reports \cup {ReportOf(y) : y \in C}
  OBVIOUS
<1>4. /\ x \in TrafficSample /\ x.node = n /\ ReportOf(x) = report
      /\ \A q \in C : q.node = n => q.at < x.at
  BY <1>1, <1>3, RecordedIsNewest
<1>5. known = reports \cup {ReportOf(y) : y \in C \cup {x}}
  BY <1>3, <1>4
<1>6. /\ \A p \in known : p \in Report
      /\ \A y \in C : y \in TrafficSample /\ ReportOf(y) \in known
      /\ report \in known
  <2>1. C \subseteq TrafficSample /\ reports \subseteq Report
    BY <1>3 DEF Copies, TrafficInv, TypeOK
  <2>2. \A y \in C : ReportOf(y) \in Report
    BY <1>2, <2>1, ReportsAreKnown DEF TrafficInv
  <2>3. QED
    BY <1>3, <2>1, <2>2
<1>7. /\ \A p \in known : paid[p] \in Nat /\ p.at \in Nat /\ p.total \in Nat
      /\ \A y \in TrafficSample : y.delta \in Nat /\ y.at \in Nat /\ y.total \in Nat
  <2>1. \A p \in Report : paid[p] \in Nat /\ p.at \in Nat /\ p.total \in Nat
    BY <1>2, ReportsAreKnown DEF TrafficInv
  <2>2. QED
    BY <1>6, <2>1, SamplesAreNumbers
<1>8. /\ \A p, q \in known : p.node = q.node /\ p.at < q.at =>
           paid[p] <= paid[q] /\ q.total - p.total <= paid[q] - paid[p]
      /\ \A y \in C : y.delta <= paid[ReportOf(y)]
      /\ \A y, z \in C : y.node = z.node /\ z.at < y.at =>
           y.delta <= paid[ReportOf(y)] - paid[ReportOf(z)]
      /\ \A p \in known : /\ paid[p] <= carried[p.node]
                          /\ frps[p.node] - p.total <= carried[p.node] - paid[p]
  BY <1>2, <1>3 DEF PaidBy
<1>9. \A y : /\ ReportOf(y).node = y.node /\ ReportOf(y).at = y.at
             /\ ReportOf(y).total = y.total
  BY DEF ReportOf
<1>10. report.node = n /\ report.at = x.at /\ report.total = x.total
  BY <1>4, <1>9
<1>11. \A y \in C : y.node = n =>
         /\ paid[ReportOf(y)] <= paid[report]
         /\ x.total - y.total <= paid[report] - paid[ReportOf(y)]
  BY <1>4, <1>6, <1>8, <1>9, <1>10
<1>12. /\ x.delta <= paid[report]
       /\ \A y \in C : y.node = n => x.delta <= paid[report] - paid[ReportOf(y)]
  <2>1. CASE PositionsOf(s, n) = {}
    <3>1. x.delta = 0
      BY <1>1, <2>1 DEF Recorded
    <3>2. QED
      BY <1>6, <1>7, <1>11, <3>1
  <2>2. CASE PositionsOf(s, n) # {}
    <3>1. PICK last : last = Previous(s, n)
      OBVIOUS
    <3>2. /\ last \in C /\ last.node = n
          /\ \A q \in C : q.node = n => q = last \/ q.at < last.at
      BY <1>1, <1>3, <2>2, <3>1, DueIsLate
    <3>3. x.delta = PositiveDelta(last.total, report.total)
      BY <1>1, <2>2, <3>1 DEF Recorded
    <3>4. x.delta <= paid[report] - paid[ReportOf(last)]
      <4>1. /\ paid[ReportOf(last)] \in Nat /\ paid[report] \in Nat
            /\ last.total \in Nat /\ report.total \in Nat
        BY <1>6, <1>7, <3>2
      <4>2. x.delta = 0 \/ x.delta = report.total - last.total
        BY <3>3 DEF PositiveDelta
      <4>3. QED
        BY <1>10, <1>11, <3>2, <4>1, <4>2
    <3>5. ASSUME NEW y \in C, y.node = n
          PROVE  paid[ReportOf(y)] <= paid[ReportOf(last)]
      <4>1. CASE y = last
        BY <1>6, <1>7, <4>1
      <4>2. CASE y.at < last.at
        BY <1>6, <1>8, <1>9, <3>2, <3>5, <4>2
      <4>3. QED
        BY <3>2, <3>5, <4>1, <4>2
    <3>6. \A y \in C : paid[ReportOf(y)] \in Nat
      BY <1>6, <1>7
    <3>7. x.delta \in Nat /\ paid[report] \in Nat
      BY <1>4, <1>6, <1>7
    <3>8. QED
      BY <3>2, <3>4, <3>5, <3>6, <3>7
  <2>3. QED
    BY <2>1, <2>2
<1>13. PaidBy(paid, C \cup {x})
  <2>1. \A y \in C \cup {x} : y.delta <= paid[ReportOf(y)]
    BY <1>4, <1>8, <1>12
  <2>2. ASSUME NEW y \in C \cup {x}, NEW z \in C \cup {x}, y.node = z.node, z.at < y.at
        PROVE  y.delta <= paid[ReportOf(y)] - paid[ReportOf(z)]
    <3>1. CASE y \in C /\ z \in C
      BY <1>8, <2>2, <3>1
    <3>2. CASE y \in C /\ z = x
      <4>1. y.at < x.at /\ x.at < y.at /\ y.at \in Nat /\ x.at \in Nat
        BY <1>4, <1>6, <1>7, <2>2, <3>2
      <4>2. QED
        BY <4>1
    <3>3. CASE y = x /\ z \in C
      BY <1>4, <1>12, <2>2, <3>3
    <3>4. CASE y = x /\ z = x
      <4>1. x.at < x.at /\ x.at \in Nat
        BY <1>4, <1>7, <2>2, <3>4
      <4>2. QED
        BY <4>1
    <3>5. QED
      BY <3>1, <3>2, <3>3, <3>4
  <2>3. QED
    BY <1>5, <1>8, <2>1, <2>2 DEF PaidBy
<1>14. QED
  BY <1>2, <1>3, <1>13 DEF Paid
-----------------------------------------------------------------------------
(* The steps *)

(* A step of r that keeps what is left of the samples, and new ones that   *)
(* fit.                                                                    *)
LEMMA KeepsInv ==
    ASSUME TrafficInv, NEW r \in Replicas, NEW c, NEW K, NEW N,
           Keeps(r, c, K, N), Displaces(r, c, K), Spaced(Copies \cup N), Paid(Copies \cup N)
    PROVE  TrafficInv'
<1>1. /\ Copies' \subseteq Copies \cup N /\ samples'[r] = c /\ c \in Seq(TrafficSample)
  BY KeepsCopies DEF TrafficInv
<1>2. /\ samples' = [samples EXCEPT ![r] = c] /\ Len(c) <= MaxSamples /\ Ordered(c)
      /\ clock' = clock /\ frps' = frps /\ carried' = carried
      /\ wire' \subseteq wire /\ reports' \subseteq reports
  BY DEF Keeps, LeftOf
<1>3. TypeOK'
  <2>1. samples' \in [Replicas -> Seq(TrafficSample)] /\ \A p \in Replicas : Len(samples'[p]) <= MaxSamples
    BY <1>1, <1>2 DEF TrafficInv, TypeOK
  <2>2. QED
    BY <1>2, <2>1 DEF TrafficInv, TypeOK, Instant, Bytes, Report, State, TrafficSample
<1>4. Aged'
  BY <1>2 DEF TrafficInv, Aged
<1>5. ListsOrdered'
  <2>1. \A p \in Replicas : samples'[p] = c \/ samples'[p] = samples[p]
    BY <1>2 DEF TrafficInv, TypeOK
  <2>2. \A s : Ordered(s)' <=> Ordered(s)
    BY DEF Ordered
  <2>3. QED
    BY <1>2, <2>1, <2>2 DEF TrafficInv, ListsOrdered
<1>6. \A n \in NodeIDs : frps'[n] <= carried'[n]
  BY <1>2 DEF TrafficInv
<1>7. Spaced(Copies)'
  BY <1>1, <1>2 DEF Spaced
<1>8. HomeIsNewest(Copies)' /\ HomeIsRecent(Copies)'
  BY KeepsNewest, KeepsRecent
<1>9. Paid(Copies)'
  <2>1. PICK paid \in [Report -> Bytes] : PaidBy(paid, Copies \cup N)
    BY DEF Paid
  <2>2. \A x : ReportOf(x)' = ReportOf(x)
    BY DEF ReportOf
  <2>3. PaidBy(paid, Copies)'
    BY <1>1, <1>2, <2>1, <2>2 DEF PaidBy
  <2>4. QED
    BY <2>1, <2>3 DEF Paid, Report, Bytes, Instant
<1>10. QED
  BY <1>3, <1>4, <1>5, <1>6, <1>7, <1>8, <1>9 DEF TrafficInv

(* A new sample is in the list: those of other nodes are not as many.      *)
LEMMA RecordedStays ==
    ASSUME TrafficInv, NEW report \in reports, NEW x, NEW s, NEW c,
           s = samples[Home[report.node]], IsDue(s, report), x = Recorded(s, report),
           LeftOf(Range(s) \cup {x}, c, MaxDelay)
    PROVE  x \in Range(c)
<1>1. /\ x \in TrafficSample /\ x.node = report.node
      /\ x.at <= clock /\ clock <= x.at + MaxDelay /\ Retained(x)
  BY RecordedIsNewest
<1>2. Home[report.node] \in Replicas
  BY ConstantsAreNumbers DEF TrafficInv, TypeOK, Report
<1>3. Range(s) \subseteq Copies
  BY <1>2, CopiesAreSamples DEF TrafficInv
<1>4. /\ \A q \in Copies : q.at \in Nat /\ q.at <= clock
      /\ x.at \in Nat /\ clock \in Nat /\ x.node \in NodeIDs
  BY <1>1, SamplesAreNumbers, ConstantsAreNumbers DEF Copies, TrafficInv, TypeOK, Spaced, Instant
<1> SUFFICES ASSUME x \notin Range(c)
             PROVE  FALSE
  OBVIOUS
<1>5. /\ c \in Seq(TrafficSample) /\ Ordered(c) /\ Range(c) \subseteq Range(s) \cup {x}
      /\ Len(c) = MaxSamples
      /\ \A z \in Range(c) : x.at <= z.at + MaxDelay /\ (x.node = z.node => x.at < z.at)
  BY <1>1 DEF LeftOf
<1>6. PICK low \in Int : low = x.at - MaxDelay
  <2>1. x.at - MaxDelay \in Int
    BY <1>4, ConstantsAreNumbers
  <2>2. QED
    BY <2>1
<1>7. ASSUME NEW z \in Range(c)
      PROVE  z.node # x.node /\ low <= z.at /\ z.at < low + Interval + MaxDelay
  <2>1. z \in Copies
    BY <1>3, <1>5
  <2>2. z.at \in Nat /\ z.at <= clock /\ x.at <= z.at + MaxDelay
    BY <1>4, <1>5, <2>1
  <2>3. z.node # x.node
    <3>1. z.node = x.node => z.at < x.at
      BY <2>1, RecordedIsNewest
    <3>2. QED
      BY <1>4, <1>5, <2>2, <3>1
  <2>4. QED
    BY <1>1, <1>4, <1>6, <2>2, <2>3, ConstantsAreNumbers
<1>8. Spaced(Range(c))
  <2>1. Spaced(Copies \cup {x})
    BY RecordedFits
  <2>2. QED
    BY <1>3, <1>5, <2>1 DEF Spaced
<1>9. QED
  BY <1>4, <1>5, <1>7, <1>8, RoomForOthers

LEMMA RecordStep ==
    ASSUME TrafficInv, NEW report \in reports, RecordTraffic(report)
    PROVE  TrafficInv'
<1>1. PICK r, s : r = Home[report.node] /\ s = samples[r]
  OBVIOUS
<1>2. r \in Replicas
  BY <1>1, ConstantsAreNumbers DEF TrafficInv, TypeOK, Report
<1>3. s \in Seq(TrafficSample) /\ Ordered(s) /\ Range(s) \subseteq Copies /\ Len(s) <= MaxSamples
  BY <1>1, <1>2, CopiesAreSamples DEF TrafficInv, TypeOK, ListsOrdered
<1>4. /\ reports' \subseteq reports /\ samples' = [samples EXCEPT ![r] = Sampled(s, report)]
      /\ UNCHANGED <<clock, frps, carried, wire>>
  BY <1>1 DEF RecordTraffic
<1>5. CASE ~IsDue(s, report)
  <2>1. samples' = samples
    BY <1>1, <1>2, <1>4, <1>5, SampledIfDue DEF TrafficInv, TypeOK
  <2>2. TypeOK' /\ Aged' /\ ListsOrdered'
    BY <1>4, <2>1 DEF TrafficInv, TypeOK, Aged, ListsOrdered, Instant, Bytes, Report, State,
                      TrafficSample, Ordered
  <2>3. Copies' = Copies
    BY <1>4, <2>1 DEF Copies, TrafficSample, Instant, Bytes
  <2>4. Spaced(Copies)' /\ HomeIsNewest(Copies)' /\ HomeIsRecent(Copies)'
    BY <1>4, <2>1, <2>3 DEF TrafficInv, Spaced, HomeIsNewest, HomeIsRecent, AtHome, Retained
  <2>5. Paid(Copies)'
    <3>1. PICK paid \in [Report -> Bytes] : PaidBy(paid, Copies)
      BY DEF TrafficInv, Paid
    <3>2. PaidBy(paid, Copies)'
      BY <1>4, <2>3, <3>1 DEF PaidBy, ReportOf
    <3>3. QED
      BY <3>1, <3>2 DEF Paid, Report, Bytes, Instant
  <2>6. QED
    BY <1>4, <2>2, <2>4, <2>5 DEF TrafficInv
<1>6. CASE IsDue(s, report)
  <2>1. PICK x, c : x = Recorded(s, report) /\ c = Prune(Append(s, x))
    OBVIOUS
  <2>2. /\ x \in TrafficSample /\ x.node = report.node
        /\ x.at <= clock /\ clock <= x.at + MaxDelay /\ Retained(x)
        /\ \A q \in Copies : q.node = x.node => q.at < x.at /\ q.at + Interval <= x.at + MaxDelay
    BY <1>1, <1>6, <2>1, RecordedIsNewest
  <2>3. /\ Append(s, x) \in Seq(TrafficSample) /\ Ordered(Append(s, x))
        /\ Range(Append(s, x)) = Range(s) \cup {x}
        /\ Spaced(Copies \cup {x})
    BY <1>1, <1>6, <2>1, RecordedFits
  <2>4. LeftOf(Range(s) \cup {x}, c, MaxDelay)
    BY <2>1, <2>3, PruneLeaves
  <2>5. x \in Range(c)
    BY <1>1, <1>6, <2>1, <2>4, RecordedStays
  <2>6. Keeps(r, c, Range(s) \cup {x}, {x})
    BY <1>1, <1>3, <1>4, <1>6, <2>1, <2>2, <2>4, <2>5, SampledIfDue DEF Keeps
  <2>7. Displaces(r, c, Range(s) \cup {x})
    <3> SUFFICES ASSUME NEW y \in Copies, NEW p \in Copies,
                        y.node = p.node, Home[p.node] = r, y.at < p.at, p \notin Range(s) \cup {x},
                        y \notin Range(s), Retained(y),
                        Len(s) = MaxSamples, \A z \in Range(s) : y.at < z.at
                 PROVE  y \notin Range(c) /\ Len(c) = MaxSamples /\ \A z \in Range(c) : y.at < z.at
      BY <1>1 DEF Displaces
    <3>1. /\ \A q \in Copies : q.at \in Nat /\ q.at <= clock
          /\ x.at \in Nat /\ clock \in Nat
      BY <2>2, SamplesAreNumbers, ConstantsAreNumbers DEF Copies, TrafficInv, TypeOK, Spaced, Instant
    <3>2. y # x /\ y \notin Range(c)
      BY <2>2, <2>4, <3>1 DEF LeftOf
    <3>3. y.at < x.at
      <4>1. y.at + Interval <= p.at + MaxDelay
        <5>1. y.at + Interval <= p.at + MaxDelay \/ p.at + Interval <= y.at + MaxDelay
          BY <3>1 DEF TrafficInv, Spaced
        <5>2. QED
          BY <3>1, <5>1, ConstantsAreNumbers
      <4>2. QED
        BY <2>2, <3>1, <4>1, ConstantsAreNumbers
    <3>4. \A z \in Range(c) : y.at < z.at
      BY <2>4, <3>3 DEF LeftOf
    <3>5. Len(c) = MaxSamples
      <4>1. CASE Range(s) \subseteq Range(c)
        BY <1>3, <2>4, <4>1, FullStays DEF LeftOf
      <4>2. CASE ~(Range(s) \subseteq Range(c))
        <5>1. PICK h \in Range(s) : h \notin Range(c)
          BY <4>2
        <5>2. Retained(h)
          BY <1>3, <3>1, <5>1, ConstantsAreNumbers DEF Retained
        <5>3. QED
          BY <2>4, <5>1, <5>2 DEF LeftOf
      <4>3. QED
        BY <4>1, <4>2
    <3>6. QED
      BY <3>2, <3>4, <3>5
  <2>8. Paid(Copies \cup {x})
    BY <1>1, <1>6, <2>1, RecordedIsPaid
  <2>9. QED
    BY <1>2, <2>3, <2>6, <2>7, <2>8, KeepsInv
<1>7. QED
  BY <1>5, <1>6
LEMMA MergeStep ==
    ASSUME TrafficInv, NEW m \in wire, MergeState(m)
    PROVE  TrafficInv'
<1>1. PICK r, s, K : r = m.to /\ s = samples[r] /\ K = Range(s) \cup Range(m.samples)
  OBVIOUS
<1>2. r \in Replicas /\ m.samples \in Seq(TrafficSample)
  BY <1>1 DEF TrafficInv, TypeOK, State
<1>3. /\ s \in Seq(TrafficSample) /\ Ordered(s) /\ Len(s) <= MaxSamples
      /\ K \subseteq Copies /\ Copies \subseteq TrafficSample
  BY <1>1, <1>2, CopiesAreSamples DEF TrafficInv, TypeOK, ListsOrdered
<1>4. PICK c : c = MergeSamples(s, m.samples)
  OBVIOUS
<1>5. /\ samples' = [samples EXCEPT ![r] = c] /\ wire' \subseteq wire
      /\ UNCHANGED <<clock, frps, carried, reports>>
  BY <1>1, <1>4 DEF MergeState
<1>6. LeftOf(K, c, 0)
  <2>1. Agree(K)
    BY <1>3, SpacedAgree DEF Agree, TrafficInv
  <2>2. QED
    BY <1>1, <1>2, <1>3, <1>4, <2>1, MergeLeaves
<1>7. \A q \in Copies : q.at \in Nat
  BY <1>3, SamplesAreNumbers
<1>8. \A q \in Range(c) : q.at \in Nat
  BY <1>3, <1>6, <1>7 DEF LeftOf
<1>9. LeftOf(K, c, MaxDelay)
  <2>1. ASSUME NEW x \in K, NEW z \in Range(c), x.at <= z.at + 0
        PROVE  x.at <= z.at + MaxDelay
    <3>1. x.at \in Nat /\ z.at \in Nat
      BY <1>3, <1>7, <1>8
    <3>2. QED
      BY <2>1, <3>1, ConstantsAreNumbers
  <2>2. QED
    BY <1>6, <2>1 DEF LeftOf
<1>10. Keeps(r, c, K, {})
  BY <1>1, <1>3, <1>5, <1>9 DEF Keeps
<1>11. Displaces(r, c, K)
  <2> SUFFICES ASSUME NEW y \in Copies, y \notin Range(s), Retained(y),
                      Len(s) = MaxSamples, \A z \in Range(s) : y.at < z.at
               PROVE  y \notin Range(c) /\ Len(c) = MaxSamples /\ \A z \in Range(c) : y.at < z.at
    BY <1>1 DEF Displaces
  <2>1. CASE Range(s) \subseteq Range(c)
    <3>1. Len(c) = MaxSamples /\ Range(c) = Range(s)
      BY <1>3, <1>6, <2>1, FullStays DEF LeftOf
    <3>2. QED
      BY <3>1
  <2>2. CASE ~(Range(s) \subseteq Range(c))
    <3>1. PICK h \in Range(s) : h \notin Range(c)
      BY <2>2
    <3>2. h \in K /\ h.at \in Nat /\ y.at \in Nat /\ y.at < h.at
      BY <1>1, <1>3, <1>7, <3>1
    <3>3. Retained(h)
      <4>1. clock \in Nat
        BY ConstantsAreNumbers DEF TrafficInv, TypeOK, Instant
      <4>2. QED
        BY <3>2, <4>1, ConstantsAreNumbers DEF Retained
    <3>4. Len(c) = MaxSamples /\ \A z \in Range(c) : h.at <= z.at + 0
      BY <1>6, <3>1, <3>2, <3>3 DEF LeftOf
    <3>5. \A z \in Range(c) : y.at < z.at
      BY <1>8, <3>2, <3>4
    <3>6. QED
      BY <3>2, <3>4, <3>5
  <2>3. QED
    BY <2>1, <2>2
<1>12. Copies \cup {} = Copies
  OBVIOUS
<1>13. QED
  BY <1>2, <1>10, <1>11, <1>12, KeepsInv DEF TrafficInv

(* A step that leaves time and the lists alone, and sends no other list.   *)
LEMMA ListsStay ==
    ASSUME TrafficInv, clock' = clock, samples' = samples,
           \A m \in wire' : m \in State /\ (m \in wire \/ \E r \in Replicas : m.samples = samples[r])
    PROVE  /\ Copies' \subseteq Copies /\ ListsOrdered'
           /\ Spaced(Copies)' /\ HomeIsNewest(Copies)' /\ HomeIsRecent(Copies)'
<1>1. Copies' \subseteq Copies
  BY DEF Copies, TrafficSample, Instant, Bytes
<1>2. ListsOrdered'
  BY DEF TrafficInv, ListsOrdered, Ordered
<1>3. Spaced(Copies)' /\ HomeIsNewest(Copies)' /\ HomeIsRecent(Copies)'
  BY <1>1 DEF TrafficInv, Spaced, HomeIsNewest, HomeIsRecent, AtHome, Retained
<1>4. QED
  BY <1>1, <1>2, <1>3

LEMMA ScrapeStep ==
    ASSUME TrafficInv, NEW n \in NodeIDs, ScrapeFRPSTraffic(n)
    PROVE  TrafficInv'
<1>1. PICK before, after, restarted, total :
        /\ before \in 0..(MaxBytes - carried[n]) /\ after \in 0..(MaxBytes - carried[n])
        /\ total = IF restarted THEN after ELSE frps[n] + before + after
        /\ carried[n] + before + after <= MaxBytes
        /\ carried' = [carried EXCEPT ![n] = @ + before + after]
        /\ frps' = [frps EXCEPT ![n] = total]
        /\ reports' = reports \cup {[node |-> n, at |-> clock, total |-> total]}
  BY DEF ScrapeFRPSTraffic
<1>2. UNCHANGED <<clock, samples, wire>>
  BY DEF ScrapeFRPSTraffic
<1>3. PICK new, more : /\ new = [node |-> n, at |-> clock, total |-> total]
                       /\ more = carried[n] + before + after
  OBVIOUS
<1>4. /\ carried[n] \in Nat /\ frps[n] \in Nat /\ frps[n] <= carried[n] /\ carried[n] <= MaxBytes
      /\ clock \in Nat /\ clock \in Instant /\ before \in Nat /\ after \in Nat
  BY <1>1, ConstantsAreNumbers DEF TrafficInv, TypeOK, Bytes, Instant
<1>5. /\ more \in Nat /\ total \in Nat /\ total <= more /\ carried[n] <= more /\ more <= MaxBytes
      /\ total <= frps[n] + (more - carried[n])
  BY <1>1, <1>3, <1>4
<1>6. /\ carried \in [NodeIDs -> Bytes] /\ frps \in [NodeIDs -> Bytes]
      /\ carried' = [carried EXCEPT ![n] = more] /\ frps' = [frps EXCEPT ![n] = total]
      /\ total \in Bytes /\ more \in Bytes
  <2>1. carried \in [NodeIDs -> Bytes] /\ frps \in [NodeIDs -> Bytes]
    BY DEF TrafficInv, TypeOK
  <2>2. carried' = [carried EXCEPT ![n] = more] /\ frps' = [frps EXCEPT ![n] = total]
    BY <1>1, <1>3, <2>1
  <2>3. total \in Bytes /\ more \in Bytes
    BY <1>4, <1>5, ConstantsAreNumbers DEF Bytes
  <2>4. QED
    BY <2>1, <2>2, <2>3
<1>7. new \in Report /\ reports' = reports \cup {new}
  BY <1>1, <1>3, <1>4, <1>6 DEF Report
<1>8. /\ carried' \in [NodeIDs -> Bytes] /\ frps' \in [NodeIDs -> Bytes]
      /\ carried'[n] = more /\ frps'[n] = total
      /\ \A k \in NodeIDs : k # n => carried'[k] = carried[k] /\ frps'[k] = frps[k]
  BY <1>6
<1>9. TypeOK'
  BY <1>2, <1>7, <1>8 DEF TrafficInv, TypeOK, Instant, Bytes, Report, State, TrafficSample
<1>10. Aged'
  BY <1>2, <1>3, <1>4, <1>7, ConstantsAreNumbers DEF TrafficInv, Aged
<1>11. \A k \in NodeIDs : frps'[k] <= carried'[k]
  BY <1>5, <1>8 DEF TrafficInv
<1>12. /\ Copies' \subseteq Copies /\ ListsOrdered'
       /\ Spaced(Copies)' /\ HomeIsNewest(Copies)' /\ HomeIsRecent(Copies)'
  BY <1>2, ListsStay DEF TrafficInv, TypeOK
<1>13. Paid(Copies)'
  <2>1. PICK old \in [Report -> Bytes] : PaidBy(old, Copies)
    BY DEF TrafficInv, Paid
  <2>2. PICK C, known : C = Copies /\ known = reports \cup {ReportOf(x) : x \in C}
    OBVIOUS
  <2>3. /\ \A p \in known : p \in Report /\ p.at <= clock
        /\ \A x \in C : ReportOf(x) \in known
    <3>1. \A p \in reports : p \in Report /\ p.at <= clock
      BY DEF TrafficInv, TypeOK, Aged
    <3>2. \A x \in C : ReportOf(x) \in Report /\ ReportOf(x).at <= clock
      BY <2>1, <2>2, ReportsAreKnown DEF TrafficInv, Copies, Spaced, ReportOf
    <3>3. QED
      BY <2>2, <3>1, <3>2
  <2>4. /\ \A p \in known : /\ old[p] <= carried[p.node]
                            /\ frps[p.node] - p.total <= carried[p.node] - old[p]
        /\ \A p, q \in known : p.node = q.node /\ p.at < q.at =>
             old[p] <= old[q] /\ q.total - p.total <= old[q] - old[p]
        /\ \A x \in C : x.delta <= old[ReportOf(x)]
        /\ \A x, y \in C : x.node = y.node /\ y.at < x.at =>
             x.delta <= old[ReportOf(x)] - old[ReportOf(y)]
    BY <2>1, <2>2 DEF PaidBy
  <2>5. \A p \in Report : /\ old[p] \in Nat /\ p.at \in Nat /\ p.total \in Nat
                          /\ p.node \in NodeIDs
                          /\ carried[p.node] \in Nat /\ frps[p.node] \in Nat
    BY <2>1, ReportsAreKnown DEF TrafficInv
  <2>6. PICK paid : paid = IF new \in known THEN old ELSE [old EXCEPT ![new] = more]
    OBVIOUS
  <2>7. /\ paid \in [Report -> Bytes]
        /\ \A p \in known : paid[p] = old[p]
        /\ new \notin known => paid[new] = more
    BY <1>6, <1>7, <2>1, <2>3, <2>6
  <2>8. /\ paid[new] \in Nat /\ paid[new] <= more
        /\ total - new.total <= more - paid[new]
    <3>1. new.node = n /\ new.total = total
      BY <1>3
    <3>2. CASE new \in known
      BY <1>4, <1>5, <1>7, <2>4, <2>5, <2>7, <3>1, <3>2
    <3>3. CASE new \notin known
      BY <1>5, <2>7, <3>1, <3>3
    <3>4. QED
      BY <3>2, <3>3
  <2>9. ASSUME NEW p \in known \cup {new}
        PROVE  /\ paid[p] <= carried'[p.node]
               /\ frps'[p.node] - p.total <= carried'[p.node] - paid[p]
    <3>1. CASE p = new
      BY <1>3, <1>8, <2>8, <3>1
    <3>2. CASE p \in known /\ p.node = n
      <4>1. old[p] <= carried[n] /\ frps[n] - p.total <= carried[n] - old[p]
        BY <2>4, <3>2
      <4>2. QED
        BY <1>4, <1>5, <1>8, <2>3, <2>5, <2>7, <3>2, <4>1
    <3>3. CASE p \in known /\ p.node # n
      BY <1>8, <2>3, <2>4, <2>5, <2>7, <3>3
    <3>4. QED
      BY <3>1, <3>2, <3>3
  <2>10. ASSUME NEW p \in known \cup {new}, NEW q \in known \cup {new},
                p.node = q.node, p.at < q.at
         PROVE  paid[p] <= paid[q] /\ q.total - p.total <= paid[q] - paid[p]
    <3>1. p \in Report /\ q \in Report /\ new.at = clock /\ new.node = n /\ new.total = total
      BY <1>3, <1>7, <2>3
    <3>2. p \in known
      BY <1>4, <2>3, <2>5, <2>10, <3>1
    <3>3. CASE q \in known
      BY <2>4, <2>7, <2>10, <3>2, <3>3
    <3>4. CASE q \notin known
      <4>1. q = new /\ paid[q] = more /\ p.node = n
        BY <2>7, <2>10, <3>1, <3>4
      <4>2. old[p] <= carried[n] /\ frps[n] - p.total <= carried[n] - old[p]
        BY <2>4, <3>2, <4>1
      <4>3. QED
        BY <1>4, <1>5, <2>5, <2>7, <3>1, <3>2, <4>1, <4>2
    <3>5. QED
      BY <3>3, <3>4
  <2>11. PaidBy(paid, C)'
    <3>1. reports' \cup {ReportOf(x) : x \in C} = known \cup {new}
      BY <1>7, <2>2
    <3>2. \A x : ReportOf(x)' = ReportOf(x)
      BY DEF ReportOf
    <3>3. \A x \in C : paid[ReportOf(x)] = old[ReportOf(x)]
      BY <2>3, <2>7
    <3>4. QED
      BY <2>4, <2>9, <2>10, <3>1, <3>2, <3>3 DEF PaidBy
  <2>12. PaidBy(paid, Copies)'
    BY <1>12, <2>2, <2>11 DEF PaidBy, ReportOf
  <2>13. QED
    BY <2>7, <2>12 DEF Paid, Report, Bytes, Instant
<1>14. QED
  BY <1>9, <1>10, <1>11, <1>12, <1>13 DEF TrafficInv
LEMMA PostStep ==
    ASSUME TrafficInv,
           \/ \E report \in reports : LoseReport(report)
           \/ \E r, p \in Replicas : r # p /\ SendState(r, p)
           \/ \E m \in wire : LoseState(m)
           \/ UNCHANGED vars
    PROVE  TrafficInv'
<1>1. UNCHANGED <<clock, frps, carried, samples>> /\ reports' \subseteq reports
  BY DEF LoseReport, SendState, LoseState, vars
<1>2. \A m \in wire' : m \in State /\ (m \in wire \/ \E r \in Replicas : m.samples = samples[r])
  <2>1. CASE \E r, p \in Replicas : r # p /\ SendState(r, p)
    <3>1. PICK r \in Replicas, p \in Replicas : SendState(r, p)
      BY <2>1
    <3>2. samples[r] \in Seq(TrafficSample)
      BY DEF TrafficInv, TypeOK
    <3>3. [to |-> p, samples |-> samples[r]] \in State
      BY <3>2 DEF State
    <3>4. QED
      BY <3>1, <3>3 DEF SendState, TrafficInv, TypeOK
  <2>2. CASE ~(\E r, p \in Replicas : r # p /\ SendState(r, p))
    BY <2>2 DEF LoseReport, LoseState, vars, TrafficInv, TypeOK
  <2>3. QED
    BY <2>1, <2>2
<1>3. /\ Copies' \subseteq Copies /\ ListsOrdered'
      /\ Spaced(Copies)' /\ HomeIsNewest(Copies)' /\ HomeIsRecent(Copies)'
  BY <1>1, <1>2, ListsStay
<1>4. TypeOK' /\ Aged' /\ \A n \in NodeIDs : frps'[n] <= carried'[n]
  BY <1>1, <1>2 DEF TrafficInv, TypeOK, Aged, Instant, Bytes, Report, State, TrafficSample
<1>5. Paid(Copies)'
  <2>1. PICK paid \in [Report -> Bytes] : PaidBy(paid, Copies)
    BY DEF TrafficInv, Paid
  <2>2. \A x : ReportOf(x)' = ReportOf(x)
    BY DEF ReportOf
  <2>3. PaidBy(paid, Copies)'
    BY <1>1, <1>3, <2>1, <2>2 DEF PaidBy
  <2>4. QED
    BY <2>1, <2>3 DEF Paid, Report, Bytes, Instant
<1>6. QED
  BY <1>3, <1>4, <1>5 DEF TrafficInv

LEMMA TickStep ==
    ASSUME TrafficInv, Tick
    PROVE  TrafficInv'
<1>1. /\ clock \in Nat /\ clock < MaxClock /\ clock' = clock + 1 /\ clock' \in Instant
      /\ UNCHANGED <<frps, carried, reports, samples, wire>>
      /\ \A report \in reports : clock - report.at < MaxDelay
  BY ConstantsAreNumbers DEF Tick, TrafficInv, TypeOK, Instant
<1>2. \A x \in Copies : x.at \in Nat
  BY SamplesAreNumbers DEF Copies
<1>3. \A report \in reports : report.at \in Nat
  BY ConstantsAreNumbers DEF TrafficInv, TypeOK, Report, Instant
<1>4. TypeOK'
  BY <1>1 DEF TrafficInv, TypeOK, Instant, Bytes, Report, State, TrafficSample
<1>5. Aged'
  BY <1>1, <1>3, ConstantsAreNumbers DEF TrafficInv, Aged
<1>6. ListsOrdered'
  BY <1>1 DEF TrafficInv, ListsOrdered, Ordered
<1>7. Copies' = Copies
  BY <1>1 DEF Copies, TrafficSample, Instant, Bytes
<1>8. Spaced(Copies)'
  BY <1>1, <1>2, <1>7 DEF TrafficInv, Spaced
<1>9. HomeIsNewest(Copies)'
  <2>1. \A y \in Copies : Retained(y)' => Retained(y)
    BY <1>1, <1>2, ConstantsAreNumbers DEF Retained
  <2>2. QED
    BY <1>1, <1>7, <2>1 DEF TrafficInv, HomeIsNewest, AtHome
<1>10. HomeIsRecent(Copies)'
  BY <1>1, <1>2, <1>7, ConstantsAreNumbers DEF TrafficInv, HomeIsRecent, AtHome
<1>11. Paid(Copies)'
  <2>1. PICK paid \in [Report -> Bytes] : PaidBy(paid, Copies)
    BY DEF TrafficInv, Paid
  <2>2. PaidBy(paid, Copies)'
    BY <1>1, <1>7, <2>1 DEF PaidBy, ReportOf
  <2>3. QED
    BY <2>1, <2>2 DEF Paid, Report, Bytes, Instant
<1>12. QED
  BY <1>1, <1>4, <1>5, <1>6, <1>8, <1>9, <1>10, <1>11 DEF TrafficInv

LEMMA TrafficInvInit ==
    ASSUME Init
    PROVE  TrafficInv
<1>1. /\ clock = 0 /\ reports = {} /\ wire = {}
      /\ frps = [n \in NodeIDs |-> 0] /\ carried = [n \in NodeIDs |-> 0]
      /\ samples = [r \in Replicas |-> <<>>]
  BY DEF Init
<1>2. TypeOK
  BY <1>1, ConstantsAreNumbers DEF TypeOK, Instant, Bytes
<1>3. Copies = {}
  <2>1. \A r \in Replicas : Range(samples[r]) = {}
    BY <1>1 DEF Range
  <2>2. QED
    BY <1>1, <2>1 DEF Copies
<1>4. Aged /\ ListsOrdered /\ \A n \in NodeIDs : frps[n] <= carried[n]
  BY <1>1 DEF Aged, ListsOrdered, Ordered
<1>5. Spaced(Copies) /\ HomeIsNewest(Copies) /\ HomeIsRecent(Copies)
  BY <1>3 DEF Spaced, HomeIsNewest, HomeIsRecent
<1>6. Paid(Copies)
  <2>1. PICK paid : paid = [p \in Report |-> 0]
    OBVIOUS
  <2>2. paid \in [Report -> Bytes]
    BY <2>1, ConstantsAreNumbers DEF Bytes
  <2>3. PaidBy(paid, Copies)
    BY <1>1, <1>3 DEF PaidBy
  <2>4. QED
    BY <2>2, <2>3 DEF Paid
<1>7. QED
  BY <1>2, <1>4, <1>5, <1>6 DEF TrafficInv

LEMMA TrafficInvariant == Spec => []TrafficInv
<1>1. Init => TrafficInv
  BY TrafficInvInit
<1>2. TrafficInv /\ [Next]_vars => TrafficInv'
  <2> SUFFICES ASSUME TrafficInv, [Next]_vars PROVE TrafficInv'
    OBVIOUS
  <2>1. CASE \E n \in NodeIDs : ScrapeFRPSTraffic(n)
    BY <2>1, ScrapeStep
  <2>2. CASE \E report \in reports : RecordTraffic(report)
    BY <2>2, RecordStep
  <2>3. CASE \E m \in wire : MergeState(m)
    BY <2>3, MergeStep
  <2>4. CASE Tick
    BY <2>4, TickStep
  <2>5. CASE \/ \E report \in reports : LoseReport(report)
             \/ \E r, p \in Replicas : r # p /\ SendState(r, p)
             \/ \E m \in wire : LoseState(m)
             \/ UNCHANGED vars
    BY <2>5, PostStep
  <2>6. QED
    BY <2>1, <2>2, <2>3, <2>4, <2>5 DEF Next
<1>3. QED
  BY <1>1, <1>2, PTL DEF Spec

(* The lists hold samples, in every state, and never more than their cap   *)
(* (traffic.go:88, traffic.go:176).                                        *)
THEOREM TypeCorrect == Spec => []TypeOK
<1>1. TrafficInv => TypeOK
  BY DEF TrafficInv
<1>2. QED
  BY <1>1, TrafficInvariant, PTL
(* Neither a recorded sample nor a peer's state (traffic.go:71, 154) makes *)
(* a control plane forget a sample within the retention, unless its list   *)
(* is full.                                                                *)
THEOREM SamplesRemain == Spec => SamplesStay
<1>1. ASSUME TrafficInv, NEW r \in Replicas, NEW c, NEW K,
             samples' = [samples EXCEPT ![r] = c], LeftOf(K, c, MaxDelay) \/ LeftOf(K, c, 0),
             Range(samples[r]) \subseteq K
      PROVE  \A p \in Replicas : \A sample \in Range(samples[p]) :
               \/ sample \in Range(samples'[p])
               \/ sample.at < clock - Retention
               \/ Len(samples'[p]) = MaxSamples
  <2> SUFFICES ASSUME NEW p \in Replicas, NEW sample \in Range(samples[p]),
                      sample \notin Range(samples'[p]), ~(sample.at < clock - Retention)
               PROVE  Len(samples'[p]) = MaxSamples
    OBVIOUS
  <2>1. p = r /\ samples'[r] = c
    BY <1>1 DEF TrafficInv, TypeOK
  <2>2. sample \in K /\ sample.at \in Nat
    BY <1>1, <2>1, CopiesAreSamples, SamplesAreNumbers DEF TrafficInv
  <2>3. Retained(sample)
    <3>1. clock \in Nat
      BY <1>1, ConstantsAreNumbers DEF TrafficInv, TypeOK, Instant
    <3>2. QED
      BY <2>2, <3>1, ConstantsAreNumbers DEF Retained
  <2>4. QED
    BY <1>1, <2>1, <2>2, <2>3 DEF LeftOf
<1>2. ASSUME TrafficInv, [Next]_vars
      PROVE  [\A r \in Replicas : \A sample \in Range(samples[r]) :
                \/ sample \in Range(samples'[r])
                \/ sample.at < clock - Retention
                \/ Len(samples'[r]) = MaxSamples]_vars
  <2>1. CASE samples' = samples
    BY <2>1
  <2>2. CASE \E report \in reports : RecordTraffic(report)
    <3>1. PICK report \in reports : RecordTraffic(report)
      BY <2>2
    <3>2. PICK r, s, x : r = Home[report.node] /\ s = samples[r] /\ x = Recorded(s, report)
      OBVIOUS
    <3>3. r \in Replicas
      BY <1>2, <3>2, ConstantsAreNumbers DEF TrafficInv, TypeOK, Report
    <3>4. samples' = [samples EXCEPT ![r] = Sampled(s, report)]
      BY <3>1, <3>2 DEF RecordTraffic
    <3>5. CASE ~IsDue(s, report)
      <4>1. samples' = samples
        BY <1>2, <3>2, <3>3, <3>4, <3>5, SampledIfDue DEF TrafficInv, TypeOK
      <4>2. QED
        BY <2>1, <4>1
    <3>6. CASE IsDue(s, report)
      <4>1. /\ Append(s, x) \in Seq(TrafficSample) /\ Ordered(Append(s, x))
            /\ Range(Append(s, x)) = Range(s) \cup {x}
        BY <1>2, <3>2, <3>6, RecordedFits
      <4>2. LeftOf(Range(s) \cup {x}, Prune(Append(s, x)), MaxDelay)
        BY <4>1, PruneLeaves
      <4>3. Sampled(s, report) = Prune(Append(s, x))
        BY <3>2, <3>6, SampledIfDue
      <4>4. samples' = [samples EXCEPT ![r] = Prune(Append(s, x))]
        BY <3>4, <4>3
      <4>5. Range(samples[r]) \subseteq Range(s) \cup {x}
        BY <3>2
      <4>6. QED
        BY <1>1, <1>2, <3>3, <4>2, <4>4, <4>5
    <3>7. QED
      BY <3>5, <3>6
  <2>3. CASE \E m \in wire : MergeState(m)
    <3>1. PICK m \in wire : MergeState(m)
      BY <2>3
    <3>2. PICK r, K, c : /\ r = m.to /\ K = Range(samples[r]) \cup Range(m.samples)
                         /\ c = MergeSamples(samples[r], m.samples)
      OBVIOUS
    <3>3. /\ r \in Replicas /\ m.samples \in Seq(TrafficSample)
          /\ samples[r] \in Seq(TrafficSample) /\ K \subseteq Copies
      BY <1>2, <3>2, CopiesAreSamples DEF TrafficInv, TypeOK, State
    <3>4. Agree(K)
      BY <1>2, <3>3, CopiesAreSamples, SpacedAgree DEF Agree, TrafficInv
    <3>5. LeftOf(K, c, 0)
      BY <3>2, <3>3, <3>4, MergeLeaves
    <3>6. QED
      BY <1>1, <1>2, <3>1, <3>2, <3>3, <3>5 DEF MergeState
  <2>4. QED
    BY <1>2, <2>1, <2>2, <2>3 DEF Next, vars, ScrapeFRPSTraffic, LoseReport, SendState, LoseState, Tick
<1>3. QED
  BY <1>2, TrafficInvariant, PTL DEF Spec, SamplesStay

-----------------------------------------------------------------------------
(* The sums of the console *)

LEMMA UpTo ==
    ASSUME NEW L \in Nat, NEW D, 0 \in D,
           \A k \in 0..L : k < L /\ k \in D => k + 1 \in D
    PROVE  0..L \subseteq D
<1>1. PICK bad : bad = (0..L) \ D
  OBVIOUS
<1>2. IsFiniteSet(bad) /\ bad \subseteq Nat
  <2>1. IsFiniteSet(0..L) /\ bad \subseteq 0..L
    BY <1>1, FS_Interval
  <2>2. IsFiniteSet(bad)
    BY <2>1, PartIsSmaller
  <2>3. QED
    BY <1>1, <2>2
<1>3. bad = {}
  <2> SUFFICES ASSUME bad # {} PROVE FALSE
    OBVIOUS
  <2>1. PICK k \in bad : \A j \in bad : k <= j
    BY <1>2, EndPositions
  <2>2. k \in 1..L
    BY <1>1, <2>1
  <2>3. k - 1 \in 0..L /\ k - 1 < L /\ k - 1 \notin bad /\ (k - 1) + 1 = k
    BY <1>1, <2>1, <2>2
  <2>4. QED
    BY <1>1, <2>1, <2>3
<1>4. QED
  BY <1>1, <1>3

(* SumOf adds the numbers one by one. *)
LEMMA SumOfParts ==
    ASSUME NEW L \in Nat, NEW numbers \in [1..L -> Nat]
    PROVE  \E sum \in [0..L -> Nat] :
             /\ sum[0] = 0 /\ \A i \in 1..L : sum[i] = sum[i - 1] + numbers[i]
             /\ SumOf(numbers) = sum[L]
<1> DEFINE Sums(f, k) == f = [i \in 0..k |-> IF i = 0 THEN 0 ELSE f[i - 1] + numbers[i]]
<1>1. PICK D : D = {k \in 0..L : \E f \in [0..k -> Nat] : Sums(f, k)}
  OBVIOUS
<1>2. 0 \in D
  <2>1. PICK f : f = [i \in 0..0 |-> 0]
    OBVIOUS
  <2>2. f \in [0..0 -> Nat] /\ Sums(f, 0)
    BY <2>1
  <2>3. QED
    BY <1>1, <2>2
<1>3. ASSUME NEW k \in 0..L, k < L, k \in D
      PROVE  k + 1 \in D
  <2>1. PICK f \in [0..k -> Nat] : Sums(f, k)
    BY <1>1, <1>3
  <2>2. PICK g : g = [i \in 0..(k + 1) |-> IF i = k + 1 THEN f[k] + numbers[k + 1] ELSE f[i]]
    OBVIOUS
  <2>3. g \in [0..(k + 1) -> Nat]
    BY <1>3, <2>2
  <2>4. ASSUME NEW i \in 0..(k + 1)
        PROVE  g[i] = IF i = 0 THEN 0 ELSE g[i - 1] + numbers[i]
    <3>1. CASE i = k + 1
      BY <2>2, <3>1
    <3>2. CASE i \in 0..k /\ i # 0
      <4>1. f[i] = f[i - 1] + numbers[i] /\ g[i] = f[i] /\ g[i - 1] = f[i - 1]
        BY <2>1, <2>2, <3>2
      <4>2. QED
        BY <3>2, <4>1
    <3>3. CASE i = 0
      BY <2>1, <2>2, <3>3
    <3>4. QED
      BY <3>1, <3>2, <3>3
  <2>5. Sums(g, k + 1)
    BY <2>3, <2>4
  <2>6. k + 1 \in 0..L
    BY <1>3
  <2> HIDE DEF Sums
  <2>7. QED
    BY <1>1, <2>3, <2>5, <2>6
<1>4. L \in D
  <2>1. 0..L \subseteq D
    BY <1>2, <1>3, UpTo
  <2>2. QED
    BY <2>1
<1>5. PICK f \in [0..L -> Nat] : Sums(f, L)
  BY <1>1, <1>4
<1>6. Len(numbers) = L
  OBVIOUS
<1>7. PICK sum : /\ sum = CHOOSE g : Sums(g, L)
                 /\ SumOf(numbers) = sum[L]
  BY <1>6 DEF SumOf
<1>8. Sums(sum, L)
  BY <1>5, <1>7
<1>9. sum = f
  <2>1. PICK E : E = {k \in 0..L : sum[k] = f[k]}
    OBVIOUS
  <2>2. 0 \in E
    BY <1>5, <1>8, <2>1
  <2>3. ASSUME NEW k \in 0..L, k < L, k \in E
        PROVE  k + 1 \in E
    BY <1>5, <1>8, <2>1, <2>3
  <2>4. 0..L \subseteq E
    BY <2>2, <2>3, UpTo
  <2>5. QED
    BY <1>5, <1>8, <2>1, <2>4
<1>10. f[0] = 0 /\ \A i \in 1..L : f[i] = f[i - 1] + numbers[i]
  BY <1>5
<1>11. QED
  BY <1>5, <1>7, <1>9, <1>10
(* The sum over the samples a console shows of a node is paid for by the   *)
(* newest of them.                                                         *)
LEMMA SeriesIsPaid ==
    ASSUME TrafficInv
    PROVE  SeriesWithinCarried
<1> SUFFICES ASSUME NEW r \in Replicas, NEW n \in NodeIDs, NEW window \in 1..Retention
             PROVE  DeltaBytes(r, n, window) <= carried[n]
  BY DEF SeriesWithinCarried
<1>1. PICK paid \in [Report -> Bytes] : PaidBy(paid, Copies)
  BY DEF TrafficInv, Paid
<1>2. PICK s, L : s = samples[r] /\ L = Len(s)
  OBVIOUS
<1>3. s \in Seq(TrafficSample) /\ Ordered(s) /\ Range(s) \subseteq Copies
  BY <1>2, CopiesAreSamples DEF TrafficInv, TypeOK, ListsOrdered
<1>4. L \in Nat /\ DOMAIN s = 1..L
  BY <1>2, <1>3, LenProperties
<1>5. ASSUME NEW i \in 1..L
      PROVE  /\ s[i] \in Copies /\ s[i].delta \in Nat /\ s[i].at \in Nat
             /\ paid[ReportOf(s[i])] \in Nat
             /\ paid[ReportOf(s[i])] <= carried[s[i].node]
             /\ s[i].delta <= paid[ReportOf(s[i])]
  <2>1. s[i] \in Copies /\ s[i] \in TrafficSample
    BY <1>2, <1>3, <1>4, ElementOfSeq DEF Range
  <2>2. ReportOf(s[i]) \in Report /\ paid[ReportOf(s[i])] \in Nat
    BY <1>1, <2>1, ReportsAreKnown DEF TrafficInv
  <2>3. /\ paid[ReportOf(s[i])] <= carried[ReportOf(s[i]).node]
        /\ s[i].delta <= paid[ReportOf(s[i])]
    BY <1>1, <2>1 DEF PaidBy
  <2>4. ReportOf(s[i]).node = s[i].node
    BY DEF ReportOf
  <2>5. QED
    BY <2>1, <2>2, <2>3, <2>4, SamplesAreNumbers
<1>6. \A x, y \in Copies : x.node = y.node /\ y.at < x.at =>
        x.delta <= paid[ReportOf(x)] - paid[ReportOf(y)]
  BY <1>1 DEF PaidBy
<1>7. PICK numbers : numbers = [i \in 1..L |-> IF s[i].node = n /\ s[i].at >= clock - window
                                               THEN s[i].delta ELSE 0]
  OBVIOUS
<1>8. DeltaBytes(r, n, window) = SumOf(numbers)
  BY <1>2, <1>7 DEF DeltaBytes
<1>9. numbers \in [1..L -> Nat]
  BY <1>5, <1>7
<1>10. PICK sum \in [0..L -> Nat] :
         /\ sum[0] = 0 /\ \A i \in 1..L : sum[i] = sum[i - 1] + numbers[i]
         /\ SumOf(numbers) = sum[L]
  BY <1>4, <1>9, SumOfParts
<1>11. PICK D : D = {k \in 0..L : \/ sum[k] = 0
                                  \/ \E j \in 1..k : /\ s[j].node = n
                                                     /\ sum[k] <= paid[ReportOf(s[j])]}
  OBVIOUS
<1>12. 0 \in D
  BY <1>4, <1>10, <1>11
<1>13. ASSUME NEW k \in 0..L, k < L, k \in D
       PROVE  k + 1 \in D
  <2>1. PICK i \in 1..L : i = k + 1
    BY <1>4, <1>13
  <2>2. /\ i - 1 = k /\ sum[i] = sum[k] + numbers[i] /\ sum[k] \in Nat /\ sum[i] \in Nat
        /\ i \in 0..L /\ i \in 1..i
    BY <1>4, <1>10, <2>1
  <2>3. CASE numbers[i] = 0
    <3>1. sum[i] = sum[k]
      BY <2>2, <2>3
    <3>2. \A j \in 1..k : j \in 1..i
      BY <2>1
    <3>3. QED
      BY <1>11, <1>13, <2>1, <2>2, <3>1, <3>2
  <2>4. CASE numbers[i] # 0
    <3>1. s[i].node = n /\ numbers[i] = s[i].delta
      BY <1>7, <2>4
    <3>2. CASE sum[k] = 0
      <4>1. sum[i] <= paid[ReportOf(s[i])]
        BY <1>5, <2>2, <3>1, <3>2
      <4>2. QED
        BY <1>11, <2>1, <2>2, <3>1, <4>1
    <3>3. CASE sum[k] # 0
      <4>1. PICK j \in 1..k : s[j].node = n /\ sum[k] <= paid[ReportOf(s[j])]
        BY <1>11, <1>13, <3>3
      <4>2. j \in 1..L /\ j < i
        BY <1>4, <2>1, <2>2
      <4>3. s[j].at < s[i].at
        BY <1>2, <1>3, <3>1, <4>1, <4>2 DEF Ordered
      <4>4. s[i].delta <= paid[ReportOf(s[i])] - paid[ReportOf(s[j])]
        BY <1>5, <1>6, <3>1, <4>1, <4>2, <4>3
      <4>5. sum[i] <= paid[ReportOf(s[i])]
        BY <1>5, <2>2, <3>1, <4>1, <4>2, <4>4
      <4>6. QED
        BY <1>11, <2>1, <2>2, <3>1, <4>5
    <3>4. QED
      BY <3>2, <3>3
  <2>5. QED
    BY <2>3, <2>4
<1>14. L \in D
  <2>1. 0..L \subseteq D
    BY <1>4, <1>12, <1>13, UpTo
  <2>2. QED
    BY <1>4, <2>1
<1>15. carried[n] \in Nat
  BY <1>1, ReportsAreKnown DEF TrafficInv
<1>16. sum[L] <= carried[n]
  <2>1. CASE sum[L] = 0
    BY <1>15, <2>1
  <2>2. CASE sum[L] # 0
    <3>1. PICK j \in 1..L : s[j].node = n /\ sum[L] <= paid[ReportOf(s[j])]
      BY <1>11, <1>14, <2>2
    <3>2. sum[L] \in Nat
      BY <1>4, <1>10
    <3>3. QED
      BY <1>5, <1>15, <3>1, <3>2
  <2>3. QED
    BY <2>1, <2>2
<1>17. QED
  BY <1>8, <1>10, <1>16

(* What a console adds up for a node (traffic.go:94), whichever control    *)
(* plane it asks, is no more than the node's frps has carried: each delta  *)
(* is taken from the newest copy there is (traffic.go:56), counters that   *)
(* began anew give none (traffic.go:191), and what a list has dropped does *)
(* not come back to be counted from.                                       *)
THEOREM SeriesIsCarried == Spec => []SeriesWithinCarried
<1>1. TrafficInv => SeriesWithinCarried
  BY SeriesIsPaid
<1>2. QED
  BY <1>1, TrafficInvariant, PTL
================================================================================
