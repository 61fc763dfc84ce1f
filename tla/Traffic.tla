-------------------------------- MODULE Traffic --------------------------------
(***************************************************************************)
(* Traffic counters and samples (traffic.go): agents report what their     *)
(* frps has carried, the control plane an agent reports to samples it at   *)
(* most once per interval, and control planes merge their samples.         *)
(*                                                                         *)
(* One direction of the traffic stands for both.  Instants are seconds,    *)
(* the precision at which a merge tells samples apart; clocks agree.       *)
(* Connections are sampled without a delta and left out, and so is the     *)
(* last report, a field of the node's record, which nothing here reads     *)
(* back: records and their merge are Membership's.                         *)
(***************************************************************************)
EXTENDS Integers, Sequences, FiniteSetsExt, Functions

CONSTANTS
    Replicas,    \* control planes
    NodeIDs,     \* proxy nodes, ordered as their names are
    Home,        \* Home[n]: the control plane the agent of n reports to
    Interval,    \* trafficSampleInterval
    Retention,   \* trafficRetention
    MaxSamples,  \* maxTrafficSamples
    MaxDelay,    \* age at which a report in flight is handled at the latest
    MaxReports,  \* bound on the reports of one node in flight
    MaxPosts,    \* bound on the states in flight
    MaxBytes,    \* bound on what a node carries
    MaxClock     \* bound on time

\* A report is handled before the next one is due, retained samples span more than
\* an interval, and the other nodes' samples of an interval do not fill a list.
ASSUME TrafficAssumption ==
    /\ NodeIDs \subseteq Nat /\ IsFiniteSet(NodeIDs) /\ Home \in [NodeIDs -> Replicas]
    /\ {Interval, Retention, MaxSamples} \subseteq Nat \ {0}
    /\ {MaxDelay, MaxReports, MaxPosts, MaxBytes, MaxClock} \subseteq Nat
    /\ 2 * MaxDelay < Interval /\ Interval <= Retention
    /\ 3 * (Cardinality(NodeIDs) - 1) < MaxSamples

VARIABLES
    clock,
    frps,     \* frps[n]: bytes on its dashboard when it was last scraped
    carried,  \* carried[n]: bytes it had carried in all by then (history)
    reports,  \* heartbeats with counters on their way
    samples,  \* samples[r]: state.TrafficSamples of r
    wire      \* states on their way from one control plane to another

vars == <<clock, frps, carried, reports, samples, wire>>

Instant == 0..MaxClock
Bytes == 0..MaxBytes
Report == [node : NodeIDs, at : Instant, total : Bytes]
TrafficSample == [node : NodeIDs, at : Instant, total : Bytes, delta : Bytes]
State == [to : Replicas, samples : Seq(TrafficSample)]

-----------------------------------------------------------------------------
(* Mutant of PositiveDelta: a counter that fell counts as well. *)
AbsoluteDelta(previous, current) ==
    IF current <= previous THEN previous - current ELSE current - previous

(* positiveDelta: a counter that fell was restarted. *)
PositiveDelta(previous, current) == IF current <= previous THEN 0 ELSE current - previous

(* Mutant of Capped: a list may be one too long. *)
CappedLate(s) == SubSeq(s, Len(s) - Min({Len(s), MaxSamples + 1}) + 1, Len(s))

(* A longer list loses its first samples. *)
Capped(s) == SubSeq(s, Len(s) - Min({Len(s), MaxSamples}) + 1, Len(s))

(* The elements of a set as a list, in a strict order given as pairs. *)
Listed(S, order) ==
    [i \in 1..Cardinality(S) |->
        CHOOSE x \in S : Cardinality({y \in S : <<y, x>> \in order}) = i - 1]

Retained(sample) == sample.at >= clock - Retention

(* pruneTrafficSamplesLocked: what is retained stays in its order. *)
Prune(s) ==
    LET kept == {i \in DOMAIN s : Retained(s[i])}
        place == Listed(kept, {p \in kept \X kept : p[1] < p[2]})
    IN  Capped([k \in 1..Cardinality(kept) |-> s[place[k]]])

(* Where a list has the samples of a node; the last one is what            *)
(* lastTrafficSampleForNode returns.                                       *)
PositionsOf(s, n) == {i \in DOMAIN s : s[i].node = n}

(* recordTrafficLocked: a report less than an interval after the node's    *)
(* last sample is no sample, and prunes nothing.                           *)
Sampled(s, report) ==
    LET known == PositionsOf(s, report.node)
        previous == s[Max(known)]
        delta == IF known = {} THEN 0 ELSE PositiveDelta(previous.total, report.total)
    IN  IF known # {} /\ clock - previous.at < Interval THEN s
        ELSE Prune(Append(s, [node |-> report.node, at |-> report.at,
                              total |-> report.total, delta |-> delta]))

Before(x, y) == x.at < y.at \/ (x.at = y.at /\ x.node < y.node)

(* Mutant of MergeSamples: the other side's list is taken as it is. *)
MergeSamplesTheirs(local, remote) == Prune(remote)

(* mergeTrafficSamples: of the samples of a node in one second the latest  *)
(* stays, of equal ones the first; the rest is sorted and capped.  Instants*)
(* here are seconds, so those of one second are equal.  Which one stays    *)
(* would matter if they differed, and a node's samples lie far apart.      *)
MergeSamples(local, remote) ==
    LET both == local \o remote
        Repeats(i) == \E j \in 1..(i - 1) : both[j].node = both[i].node /\ both[j].at = both[i].at
        kept == {both[i] : i \in {j \in DOMAIN both : Retained(both[j]) /\ ~Repeats(j)}}
    IN  Capped(Listed(kept, {p \in kept \X kept : Before(p[1], p[2])}))

-----------------------------------------------------------------------------
(* The agent scrapes the dashboard of frps and posts a heartbeat.  Since   *)
(* the last scrape frps has carried more, or was restarted after some of   *)
(* it: its counters began anew, as they do every day.  The agent waits for *)
(* the answer; one that is restarted leaves its request behind.            *)
ScrapeFRPSTraffic(n) ==
    /\ Cardinality({report \in reports : report.node = n}) < MaxReports
    /\ \E before, after \in 0..(MaxBytes - carried[n]), restarted \in BOOLEAN :
         LET total == IF restarted THEN after ELSE frps[n] + before + after
         IN  /\ carried[n] + before + after <= MaxBytes
             /\ carried' = [carried EXCEPT ![n] = @ + before + after]
             /\ frps' = [frps EXCEPT ![n] = total]
             /\ reports' = reports \cup {[node |-> n, at |-> clock, total |-> total]}
    /\ UNCHANGED <<clock, samples, wire>>

(* HeartbeatNodeWithRequest *)
RecordTraffic(report) ==
    LET r == Home[report.node]
    IN  /\ reports' = reports \ {report}
        /\ samples' = [samples EXCEPT ![r] = Sampled(@, report)]
        /\ UNCHANGED <<clock, frps, carried, wire>>

LoseReport(report) ==
    /\ reports' = reports \ {report}
    /\ UNCHANGED <<clock, frps, carried, samples, wire>>

(* syncPeer, either direction: a copy of the state leaves for a peer. *)
SendState(from, to) ==
    /\ Cardinality(wire) < MaxPosts
    /\ wire' = wire \cup {[to |-> to, samples |-> samples[from]]}
    /\ UNCHANGED <<clock, frps, carried, reports, samples>>

(* MergeState, of the samples. *)
MergeState(m) ==
    /\ samples' = [samples EXCEPT ![m.to] = MergeSamples(@, m.samples)]
    /\ wire' = wire \ {m}
    /\ UNCHANGED <<clock, frps, carried, reports>>

LoseState(m) ==
    /\ wire' = wire \ {m}
    /\ UNCHANGED <<clock, frps, carried, reports, samples>>

(* Time passes, for no report beyond its latest handling. *)
Tick ==
    /\ clock < MaxClock
    /\ \A report \in reports : clock - report.at < MaxDelay
    /\ clock' = clock + 1
    /\ UNCHANGED <<frps, carried, reports, samples, wire>>

Init ==
    /\ clock = 0
    /\ frps = [n \in NodeIDs |-> 0]
    /\ carried = [n \in NodeIDs |-> 0]
    /\ reports = {}
    /\ samples = [r \in Replicas |-> <<>>]
    /\ wire = {}

Next ==
    \/ \E n \in NodeIDs : ScrapeFRPSTraffic(n)
    \/ \E report \in reports : RecordTraffic(report) \/ LoseReport(report)
    \/ \E r, p \in Replicas : r # p /\ SendState(r, p)
    \/ \E m \in wire : MergeState(m) \/ LoseState(m)
    \/ Tick

Spec == Init /\ [][Next]_vars

-----------------------------------------------------------------------------
(* The sum of a list of numbers. *)
SumOf(numbers) ==
    LET sum[i \in 0..Len(numbers)] == IF i = 0 THEN 0 ELSE sum[i - 1] + numbers[i]
    IN  sum[Len(numbers)]

(* What TrafficSeries adds up for a node and a window. *)
DeltaBytes(r, n, window) ==
    SumOf([i \in 1..Len(samples[r]) |->
              IF samples[r][i].node = n /\ samples[r][i].at >= clock - window
              THEN samples[r][i].delta ELSE 0])

(* The types, and a list that never outgrows its cap. *)
TypeOK ==
    /\ clock \in Instant
    /\ frps \in [NodeIDs -> Bytes] /\ carried \in [NodeIDs -> Bytes]
    /\ reports \subseteq Report
    /\ samples \in [Replicas -> Seq(TrafficSample)]
    /\ \A r \in Replicas : Len(samples[r]) <= MaxSamples
    /\ \A m \in wire : m \in State

(* No console shows more traffic for a node than the node has carried,     *)
(* through restarts of its frps, late reports, stale copies of the samples *)
(* that come back, and a full list.  Bytes are counted once.               *)
SeriesWithinCarried ==
    \A r \in Replicas, n \in NodeIDs, window \in 1..Retention :
        DeltaBytes(r, n, window) <= carried[n]

(* A control plane keeps every sample it has for the time of the           *)
(* retention, whatever is recorded or merged, unless its list is full.     *)
SamplesStay ==
    [][\A r \in Replicas : \A sample \in Range(samples[r]) :
          \/ sample \in Range(samples'[r])
          \/ sample.at < clock - Retention
          \/ Len(samples'[r]) = MaxSamples]_vars
================================================================================
