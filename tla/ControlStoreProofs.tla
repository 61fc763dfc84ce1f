-------------------------- MODULE ControlStoreProofs --------------------------
(***************************************************************************)
(* Theorems about ControlStore, for any finite sets of nodes and clients,  *)
(* any links, gaps and limits, and about TargetSwitch, for any number of   *)
(* administrators' requests at once, and any hooks.                        *)
(***************************************************************************)
EXTENDS TargetSwitch, SchedulerProofs

-----------------------------------------------------------------------------
(* What ranking reads of a node is well typed. *)

LEMMA ViewType ==
    ASSUME NEW n \in NodeIDs, NEW node \in NodeRec
    PROVE  View(n, node) \in NodeView /\ View(n, node).id = n
<1>1. node.network \in Network
  BY LinksAssumption DEF NodeRec, NoNetwork, Network
<1>2. (node.measured > FreshFor) \in BOOLEAN
  BY AgesAssumption DEF NodeRec
<1>3. /\ Score(node.network, node.measured > FreshFor) \in Nat
      /\ EffectiveBandwidth(node.network) \in Nat
  BY <1>1, <1>2, ScoreIsNat, BandwidthIsNat
<1>4. n \in Nat /\ node.clientCount \in Nat /\ node.proxyCount \in Nat /\ node.network.latency \in Nat
  BY <1>1, NodeIDsAssumption DEF NodeRec, Network
<1>5. QED
  BY <1>3, <1>4 DEF View, NodeView

NodeMap == [NodeIDs -> NodeRec \cup {NoNode}]
ClientMap == [ClientIDs -> ClientRec \cup {NoClient}]
ProxyMap == [NodeIDs -> [ClientIDs -> ProxyStatus]]

(* The online nodes of a store can be ranked, so that the best of them is  *)
(* one of them.                                                            *)
LEMMA BestIsOnline ==
    ASSUME NEW ns \in NodeMap, OnlineIDs(ns) # {}
    PROVE  /\ Online(ns) # {}
           /\ Best(Online(ns)).id \in OnlineIDs(ns)
<1> DEFINE view == [n \in OnlineIDs(ns) |-> View(n, ns[n])]
<1>1. \A n \in OnlineIDs(ns) : n \in NodeIDs /\ ns[n] \in NodeRec
  BY DEF OnlineIDs, IsOnline, NodeMap
<1>2. \A n \in OnlineIDs(ns) : View(n, ns[n]) \in NodeView /\ View(n, ns[n]).id = n
  BY <1>1, ViewType
<1>3. IsFiniteSet(OnlineIDs(ns))
  BY NodeIDsAssumption, FS_Subset DEF OnlineIDs
<1>4. view \in Surjection(OnlineIDs(ns), Online(ns))
  BY DEF Surjection, Online
<1>5. IsFiniteSet(Online(ns))
  BY <1>3, <1>4, FS_Surjection
<1>6. StoreViews(Online(ns))
  BY <1>2, <1>5 DEF StoreViews, Online
<1>7. Best(Online(ns)) \in Online(ns)
  BY <1>6, BestIsFirst
<1>8. QED
  BY <1>2, <1>6, <1>7 DEF Online, StoreViews

LEMMA CountsAreNat ==
    ASSUME NEW cs, NEW ps, NEW n, NEW c
    PROVE  /\ CountClients(cs, n) \in Nat
           /\ CountProxies(ps, n) \in Nat
           /\ Cardinality({k \in NodeIDs : ps[k][c] = "online"}) \in Nat
<1>1. /\ IsFiniteSet({k \in ClientIDs : cs[k] # NoClient /\ cs[k].status = "online" /\ cs[k].node = n})
      /\ IsFiniteSet({k \in ClientIDs : ps[n][k] = "online"})
      /\ IsFiniteSet({k \in NodeIDs : ps[k][c] = "online"})
  BY NodeIDsAssumption, ClientIDsAssumption, FS_Subset
<1>2. QED
  BY <1>1, FS_CardinalityType DEF CountClients, CountProxies

-----------------------------------------------------------------------------
(* What the handlers end with *)

LEMMA RecountNodesKeeps ==
    ASSUME NEW ns \in NodeMap, NEW cs, NEW ps
    PROVE  /\ RecountNodes(ns, cs, ps) \in NodeMap
           /\ \A n \in NodeIDs :
                LET new == RecountNodes(ns, cs, ps)[n]
                IN  /\ new = NoNode <=> ns[n] = NoNode
                    /\ ns[n] # NoNode =>
                         /\ new.status = ns[n].status /\ new.seen = ns[n].seen
                         /\ new.clientCount = CountClients(cs, n)
                         /\ new.proxyCount = CountProxies(ps, n)
<1> DEFINE new(n) == IF ns[n] = NoNode THEN NoNode
                     ELSE [ns[n] EXCEPT !.clientCount = CountClients(cs, n),
                                        !.proxyCount = CountProxies(ps, n)]
<1>1. RecountNodes(ns, cs, ps) = [n \in NodeIDs |-> new(n)]
  BY DEF RecountNodes
<1>2. ASSUME NEW n \in NodeIDs, ns[n] # NoNode
      PROVE  /\ new(n) \in NodeRec
             /\ new(n).status = ns[n].status /\ new(n).seen = ns[n].seen
             /\ new(n).clientCount = CountClients(cs, n)
             /\ new(n).proxyCount = CountProxies(ps, n)
  <2>1. ns[n] \in NodeRec
    BY <1>2 DEF NodeMap
  <2>2. CountClients(cs, n) \in Nat /\ CountProxies(ps, n) \in Nat
    BY CountsAreNat
  <2>3. QED
    BY <1>2, <2>1, <2>2 DEF NodeRec
<1>3. \A n \in NodeIDs : new(n) \in NodeRec \cup {NoNode} /\ (new(n) = NoNode <=> ns[n] = NoNode)
  BY <1>2, AbsentAssumption
<1>4. QED
  <2> HIDE DEF new
  <2>1. RecountNodes(ns, cs, ps) \in NodeMap
    BY <1>1, <1>3 DEF NodeMap
  <2>2. \A n \in NodeIDs : RecountNodes(ns, cs, ps)[n] = new(n)
    BY <1>1
  <2>3. QED
    BY <1>2, <1>3, <2>1, <2>2

LEMMA RecountClientsKeeps ==
    ASSUME NEW cs \in ClientMap, NEW ps
    PROVE  /\ RecountClients(cs, ps) \in ClientMap
           /\ \A c \in ClientIDs :
                LET new == RecountClients(cs, ps)[c]
                IN  /\ new = NoClient <=> cs[c] = NoClient
                    /\ cs[c] # NoClient =>
                         /\ new.node = cs[c].node /\ new.status = cs[c].status
                         /\ new.preferred = cs[c].preferred /\ new.state = cs[c].state
<1> DEFINE count(c) == Cardinality({n \in NodeIDs : ps[n][c] = "online"})
           new(c) == IF cs[c] = NoClient THEN NoClient ELSE [cs[c] EXCEPT !.proxyCount = count(c)]
<1>1. RecountClients(cs, ps) = [c \in ClientIDs |-> new(c)]
  BY DEF RecountClients
<1>2. ASSUME NEW c \in ClientIDs, cs[c] # NoClient
      PROVE  /\ new(c) \in ClientRec
             /\ new(c).node = cs[c].node /\ new(c).status = cs[c].status
             /\ new(c).preferred = cs[c].preferred /\ new(c).state = cs[c].state
  <2>1. cs[c] \in ClientRec
    BY <1>2 DEF ClientMap
  <2>2. count(c) \in Nat
    BY CountsAreNat
  <2> HIDE DEF count
  <2>3. QED
    BY <1>2, <2>1, <2>2 DEF ClientRec
<1>3. \A c \in ClientIDs :
         new(c) \in ClientRec \cup {NoClient} /\ (new(c) = NoClient <=> cs[c] = NoClient)
  BY <1>2, AbsentAssumption
<1>4. QED
  <2> HIDE DEF new
  <2>1. RecountClients(cs, ps) \in ClientMap
    BY <1>1, <1>3 DEF ClientMap
  <2>2. \A c \in ClientIDs : RecountClients(cs, ps)[c] = new(c)
    BY <1>1
  <2>3. QED
    BY <1>2, <1>3, <2>1, <2>2

(* How a recommendation may change a client of a store whose online nodes  *)
(* are given: its target only.  An online client gets a pending target,    *)
(* which is another online node, or, if its own is online, none.           *)
Recommended(old, new, online, auto) ==
    /\ new = NoClient <=> old = NoClient
    /\ old # NoClient => new.node = old.node /\ new.status = old.status
    /\ \/ new = old
       \/ old # NoClient /\ new.preferred = None /\ new.state = ""
       \/ /\ old # NoClient /\ new.state = "pending"
          /\ new.preferred \in online /\ new.preferred # old.node
    /\ ~auto => new = old
    /\ auto /\ online # {} /\ old # NoClient /\ old.status = "online"
         => \/ old.node \in online /\ new.preferred = None /\ new.state = ""
            \/ /\ new.state = "pending"
               /\ new.preferred \in online /\ new.preferred # old.node

LEMMA RecommendKeeps ==
    ASSUME NEW ns \in NodeMap, NEW cs \in ClientMap, NEW cfg, NEW c \in ClientIDs
    PROVE  /\ Recommend(ns, cs, cfg)[c] \in ClientRec \cup {NoClient}
           /\ Recommended(cs[c], Recommend(ns, cs, cfg)[c], OnlineIDs(ns), cfg.auto)
<1> DEFINE old == cs[c]
           new == Recommend(ns, cs, cfg)[c]
           best == Best(Online(ns)).id
<1>1. new = IF old = NoClient \/ Online(ns) = {} \/ ~cfg.auto THEN old
            ELSE IF old.status # "online" THEN old
            ELSE IF ShouldMigrate(Online(ns), old.node, cfg.gap)
                 THEN [old EXCEPT !.preferred = best, !.state = "pending"]
            ELSE [old EXCEPT !.preferred = None, !.state = ""]
  BY DEF Recommend
<1>2. old \in ClientRec \cup {NoClient}
  BY DEF ClientMap
<1>3. Online(ns) = {} <=> OnlineIDs(ns) = {}
  BY DEF Online
<1>4. CASE old = NoClient \/ Online(ns) = {} \/ ~cfg.auto
  BY <1>1, <1>2, <1>3, <1>4 DEF Recommended
<1>5. CASE ~(old = NoClient \/ Online(ns) = {} \/ ~cfg.auto)
  <2>1. old \in ClientRec /\ best \in OnlineIDs(ns) /\ best \in NodeIDs
    BY <1>2, <1>3, <1>5, BestIsOnline DEF OnlineIDs
  <2>2. \A n \in OnlineIDs(ns) : \E v \in Online(ns) : v.id = n
    <3>1. TAKE n \in OnlineIDs(ns)
    <3>2. View(n, ns[n]) \in Online(ns) /\ View(n, ns[n]).id = n
      BY DEF Online, View
    <3>3. QED
      BY <3>2
  <2>3. ShouldMigrate(Online(ns), old.node, cfg.gap) => best # old.node
    BY <2>1, <2>2 DEF ShouldMigrate
  <2>10. ~ShouldMigrate(Online(ns), old.node, cfg.gap) => old.node \in OnlineIDs(ns)
    BY DEF ShouldMigrate, Online, View
  <2>4. [old EXCEPT !.preferred = best, !.state = "pending"] \in ClientRec
    BY <2>1 DEF ClientRec
  <2>5. [old EXCEPT !.preferred = None, !.state = ""] \in ClientRec
    BY <2>1 DEF ClientRec
  <2> HIDE DEF new, best
  <2>6. CASE old.status # "online"
    <3>1. new = old
      BY <1>1, <1>5, <2>6
    <3>2. QED
      BY <1>2, <1>5, <2>6, <3>1 DEF new, Recommended
  <2>7. CASE old.status = "online" /\ ShouldMigrate(Online(ns), old.node, cfg.gap)
    <3>1. new = [old EXCEPT !.preferred = best, !.state = "pending"]
      BY <1>1, <1>5, <2>7
    <3>2. /\ new.node = old.node /\ new.status = old.status
          /\ new.preferred = best /\ new.state = "pending"
      BY <2>1, <3>1 DEF ClientRec
    <3>3. QED
      BY <1>5, <2>1, <2>3, <2>4, <2>7, <3>1, <3>2, AbsentAssumption DEF new, Recommended
  <2>8. CASE old.status = "online" /\ ~ShouldMigrate(Online(ns), old.node, cfg.gap)
    <3>1. new = [old EXCEPT !.preferred = None, !.state = ""]
      BY <1>1, <1>5, <2>8
    <3>2. /\ new.node = old.node /\ new.status = old.status
          /\ new.preferred = None /\ new.state = ""
      BY <2>1, <3>1 DEF ClientRec
    <3>3. QED
      BY <1>5, <2>1, <2>5, <2>8, <2>10, <3>1, <3>2, AbsentAssumption DEF new, Recommended
  <2>9. QED
    BY <2>6, <2>7, <2>8
<1>6. QED
  BY <1>4, <1>5

(* The settled store: the nodes and clients are those of the handler, the  *)
(* counts are right, and clients differ in their targets at most.          *)
LEMMA SettleKeeps ==
    ASSUME NEW ns \in NodeMap, NEW cs \in ClientMap, NEW ps, Settle(ns, cs, ps)
    PROVE  /\ nodes' \in NodeMap /\ clients' \in ClientMap
           /\ proxies' = ps /\ config' = config
           /\ \A n \in NodeIDs :
                /\ nodes'[n] = NoNode <=> ns[n] = NoNode
                /\ ns[n] # NoNode =>
                     /\ nodes'[n].status = ns[n].status /\ nodes'[n].seen = ns[n].seen
                     /\ nodes'[n].clientCount = CountClients(cs, n)
                     /\ nodes'[n].proxyCount = CountProxies(ps, n)
           /\ OnlineIDs(nodes') = OnlineIDs(ns)
           /\ \A c \in ClientIDs :
                /\ clients'[c] = NoClient <=> cs[c] = NoClient
                /\ cs[c] # NoClient =>
                     /\ clients'[c].node = cs[c].node /\ clients'[c].status = cs[c].status
                     /\ \/ clients'[c].preferred = cs[c].preferred /\ clients'[c].state = cs[c].state
                        \/ clients'[c].preferred = None /\ clients'[c].state = ""
                        \/ /\ clients'[c].state = "pending" /\ clients'[c].preferred \in OnlineIDs(ns)
                           /\ clients'[c].preferred # cs[c].node
                     /\ ~config.auto => /\ clients'[c].preferred = cs[c].preferred
                                        /\ clients'[c].state = cs[c].state
                     /\ config.auto /\ OnlineIDs(ns) # {} /\ cs[c].status = "online"
                          => \/ /\ cs[c].node \in OnlineIDs(ns)
                                /\ clients'[c].preferred = None /\ clients'[c].state = ""
                             \/ /\ clients'[c].state = "pending" /\ clients'[c].preferred \in OnlineIDs(ns)
                                /\ clients'[c].preferred \notin {None, cs[c].node}
<1> DEFINE counted == RecountNodes(ns, cs, ps)
           recounted == RecountClients(cs, ps)
<1>1. /\ nodes' = counted /\ clients' = Recommend(counted, recounted, config)
      /\ proxies' = ps /\ config' = config
  BY DEF Settle
<1>2. /\ counted \in NodeMap
      /\ \A n \in NodeIDs :
           /\ counted[n] = NoNode <=> ns[n] = NoNode
           /\ ns[n] # NoNode =>
                /\ counted[n].status = ns[n].status /\ counted[n].seen = ns[n].seen
                /\ counted[n].clientCount = CountClients(cs, n)
                /\ counted[n].proxyCount = CountProxies(ps, n)
  BY RecountNodesKeeps
<1>3. /\ recounted \in ClientMap
      /\ \A c \in ClientIDs :
           /\ recounted[c] = NoClient <=> cs[c] = NoClient
           /\ cs[c] # NoClient =>
                /\ recounted[c].node = cs[c].node /\ recounted[c].status = cs[c].status
                /\ recounted[c].preferred = cs[c].preferred /\ recounted[c].state = cs[c].state
  BY RecountClientsKeeps
<1> HIDE DEF counted, recounted
<1>4. OnlineIDs(counted) = OnlineIDs(ns)
  BY <1>2 DEF OnlineIDs, IsOnline
<1>5. OnlineIDs(ns) \subseteq NodeIDs /\ None \notin NodeIDs
  BY NodeIDsAssumption DEF OnlineIDs, None
<1>6. clients' \in ClientMap
  <2>1. \A c \in ClientIDs : clients'[c] \in ClientRec \cup {NoClient}
    BY <1>1, <1>2, <1>3, RecommendKeeps
  <2>2. clients' = [c \in ClientIDs |-> clients'[c]]
    BY <1>1 DEF Recommend
  <2>3. QED
    BY <2>1, <2>2 DEF ClientMap
<1>7. ASSUME NEW c \in ClientIDs
      PROVE  /\ clients'[c] = NoClient <=> cs[c] = NoClient
             /\ cs[c] # NoClient =>
                  /\ clients'[c].node = cs[c].node /\ clients'[c].status = cs[c].status
                  /\ \/ clients'[c].preferred = cs[c].preferred /\ clients'[c].state = cs[c].state
                     \/ clients'[c].preferred = None /\ clients'[c].state = ""
                     \/ /\ clients'[c].state = "pending" /\ clients'[c].preferred \in OnlineIDs(ns)
                        /\ clients'[c].preferred # cs[c].node
                  /\ ~config.auto => /\ clients'[c].preferred = cs[c].preferred
                                     /\ clients'[c].state = cs[c].state
                  /\ config.auto /\ OnlineIDs(ns) # {} /\ cs[c].status = "online"
                       => \/ /\ cs[c].node \in OnlineIDs(ns)
                             /\ clients'[c].preferred = None /\ clients'[c].state = ""
                          \/ /\ clients'[c].state = "pending" /\ clients'[c].preferred \in OnlineIDs(ns)
                             /\ clients'[c].preferred \notin {None, cs[c].node}
  <2>1. Recommended(recounted[c], clients'[c], OnlineIDs(ns), config.auto)
    BY <1>1, <1>2, <1>3, <1>4, RecommendKeeps
  <2>2. QED
    BY <1>3, <1>5, <2>1 DEF Recommended
<1>8. QED
  BY <1>1, <1>2, <1>4, <1>6, <1>7

-----------------------------------------------------------------------------
(* The invariant *)

NoneOn(cs, ps, n) ==
    \A c \in ClientIDs :
        /\ ~(cs[c] # NoClient /\ cs[c].status = "online" /\ cs[c].node = n)
        /\ ps[n][c] # "online"

LEMMA EmptyCounts ==
    ASSUME NEW cs, NEW ps, NEW n
    PROVE  CountClients(cs, n) = 0 /\ CountProxies(ps, n) = 0 <=> NoneOn(cs, ps, n)
<1> DEFINE C == {c \in ClientIDs : cs[c] # NoClient /\ cs[c].status = "online" /\ cs[c].node = n}
           P == {c \in ClientIDs : ps[n][c] = "online"}
<1>1. IsFiniteSet(C) /\ IsFiniteSet(P)
  BY ClientIDsAssumption, FS_Subset
<1>2. (Cardinality(C) = 0 <=> C = {}) /\ (Cardinality(P) = 0 <=> P = {})
  BY <1>1, FS_EmptySet
<1>3. NoneOn(cs, ps, n) <=> C = {} /\ P = {}
  BY DEF NoneOn
<1>4. CountClients(cs, n) = Cardinality(C) /\ CountProxies(ps, n) = Cardinality(P)
  BY DEF CountClients, CountProxies
<1>5. QED
  BY <1>2, <1>3, <1>4

LeftIsEmpty(ns, cs, ps) ==
    \A n \in NodeIDs : ns[n] # NoNode /\ ns[n].status = "offline" => NoneOn(cs, ps, n)

(* A target is a node the store has seen. *)
TargetsKnown ==
    \A c \in ClientIDs :
        clients[c] # NoClient /\ clients[c].preferred # None
            => nodes[clients[c].preferred] # NoNode

Inv == TypeOK /\ CountsSound /\ LeftIsEmpty(nodes, clients, proxies) /\ TargetsKnown

LEMMA LeftIsEmptyMeans == Inv => LeftNodeIsEmpty
  BY EmptyCounts DEF Inv, LeftIsEmpty, LeftNodeIsEmpty

(* What every handler that settles the store does to it: records stay, a   *)
(* client keeps its target, and moves only to the node that reports it.    *)
Continues(ns, cs) ==
    /\ \A n \in NodeIDs : nodes[n] # NoNode => ns[n] # NoNode
    /\ \A c \in ClientIDs : clients[c] # NoClient =>
         /\ cs[c] # NoClient
         /\ cs[c].preferred = clients[c].preferred /\ cs[c].state = clients[c].state
         /\ \/ cs[c].node = clients[c].node
            \/ /\ cs[c].status = "online"
               /\ ns[cs[c].node] = NoNode \/ IsOnline(ns[cs[c].node])
    /\ \A c \in ClientIDs :
         clients[c] = NoClient /\ cs[c] # NoClient => cs[c].preferred = None /\ cs[c].state = ""

LEMMA SeenIsOnline ==
    ASSUME NEW node \in NodeRec
    PROVE  Seen(node) \in NodeRec /\ Seen(node) # NoNode /\ IsOnline(Seen(node))
<1>1. 0 \in 0..(OnlineFor + 1) /\ 0 <= OnlineFor
  BY AgesAssumption
<1>2. Seen(node) \in NodeRec /\ Seen(node).status = "online" /\ Seen(node).seen = 0
  BY <1>1 DEF Seen, NodeRec
<1>3. QED
  BY <1>1, <1>2, AbsentAssumption DEF IsOnline

LEMMA SeenByKeeps ==
    ASSUME Inv, NEW n \in NodeIDs
    PROVE  /\ SeenBy(n) \in NodeMap
           /\ \A k \in NodeIDs : SeenBy(n)[k] = NoNode <=> nodes[k] = NoNode
           /\ \A k \in NodeIDs : k # n => SeenBy(n)[k] = nodes[k]
           /\ SeenBy(n)[n] = NoNode \/ IsOnline(SeenBy(n)[n])
<1>1. nodes \in NodeMap
  BY DEF Inv, TypeOK, NodeMap
<1>2. nodes[n] # NoNode => nodes[n] \in NodeRec
  BY <1>1 DEF NodeMap
<1>3. nodes[n] # NoNode =>
         Seen(nodes[n]) \in NodeRec /\ Seen(nodes[n]) # NoNode /\ IsOnline(Seen(nodes[n]))
  BY <1>2, SeenIsOnline
<1>4. \A k \in NodeIDs :
         SeenBy(n)[k] = IF k = n /\ nodes[k] # NoNode THEN Seen(nodes[k]) ELSE nodes[k]
  BY DEF SeenBy
<1>5. \A k \in NodeIDs : SeenBy(n)[k] \in NodeRec \cup {NoNode}
  BY <1>1, <1>3, <1>4 DEF NodeMap
<1>6. SeenBy(n) \in NodeMap
  BY <1>5 DEF NodeMap, SeenBy
<1>7. QED
  BY <1>3, <1>4, <1>6

LEMMA UpsertedKeeps ==
    ASSUME Inv, NEW c \in ClientIDs, NEW n \in NodeIDs
    PROVE  /\ Upserted(c, n) \in ClientMap
           /\ \A k \in ClientIDs : k # c => Upserted(c, n)[k] = clients[k]
           /\ Upserted(c, n)[c] # NoClient
           /\ Upserted(c, n)[c].node = n /\ Upserted(c, n)[c].status = "online"
           /\ clients[c] # NoClient => /\ Upserted(c, n)[c].preferred = clients[c].preferred
                                       /\ Upserted(c, n)[c].state = clients[c].state
           /\ clients[c] = NoClient => /\ Upserted(c, n)[c].preferred = None
                                       /\ Upserted(c, n)[c].state = ""
<1> DEFINE fresh == [node |-> n, status |-> "online", preferred |-> None, state |-> "",
                     proxyCount |-> 0]
           moved == [clients[c] EXCEPT !.node = n, !.status = "online"]
           new == IF clients[c] = NoClient THEN fresh ELSE moved
<1>1. clients \in ClientMap
  BY DEF Inv, TypeOK, ClientMap
<1>2. Upserted(c, n) = [clients EXCEPT ![c] = new]
  BY DEF Upserted
<1>3. /\ new \in ClientRec /\ new.node = n /\ new.status = "online"
      /\ clients[c] # NoClient => new.preferred = clients[c].preferred /\ new.state = clients[c].state
      /\ clients[c] = NoClient => new.preferred = None /\ new.state = ""
  BY <1>1 DEF ClientMap, ClientRec
<1>4. new # NoClient
  BY <1>3, AbsentAssumption
<1> HIDE DEF new
<1>5. Upserted(c, n)[c] = new /\ \A k \in ClientIDs : k # c => Upserted(c, n)[k] = clients[k]
  BY <1>1, <1>2 DEF ClientMap
<1>6. Upserted(c, n) \in ClientMap
  BY <1>1, <1>2, <1>3 DEF ClientMap
<1>7. QED
  BY <1>3, <1>4, <1>5, <1>6

(* What an event of node n may make of the clients. *)
MovesWithin(n, cs) ==
    \A c \in ClientIDs :
       \/ cs[c] = clients[c]
       \/ /\ cs[c] # NoClient
          /\ cs[c].node = n \/ cs[c].status = "offline"
          /\ clients[c] # NoClient =>
               /\ cs[c].preferred = clients[c].preferred /\ cs[c].state = clients[c].state
               /\ \/ cs[c].node = n /\ cs[c].status = "online"
                  \/ cs[c].node = clients[c].node
          /\ clients[c] = NoClient => cs[c].preferred = None /\ cs[c].state = ""

LEMMA UpsertedMoves ==
    ASSUME Inv, NEW c \in ClientIDs, NEW n \in NodeIDs
    PROVE  MovesWithin(n, Upserted(c, n))
<1>1. \A k \in ClientIDs : k # c => Upserted(c, n)[k] = clients[k]
  BY UpsertedKeeps
<1>2. /\ Upserted(c, n)[c] # NoClient
      /\ Upserted(c, n)[c].node = n /\ Upserted(c, n)[c].status = "online"
  BY UpsertedKeeps
<1>3. clients[c] # NoClient => /\ Upserted(c, n)[c].preferred = clients[c].preferred
                               /\ Upserted(c, n)[c].state = clients[c].state
  BY UpsertedKeeps
<1>4. clients[c] = NoClient => /\ Upserted(c, n)[c].preferred = None
                               /\ Upserted(c, n)[c].state = ""
  BY UpsertedKeeps
<1>5. QED
  BY <1>1, <1>2, <1>3, <1>4 DEF MovesWithin

(* The node of an event is online now, or the store does not know it. *)
LEMMA EventContinues ==
    ASSUME Inv, NEW n \in NodeIDs, NEW cs \in ClientMap, NEW ps \in ProxyMap,
           \A k \in NodeIDs : k # n => ps[k] = proxies[k], MovesWithin(n, cs)
    PROVE  LeftIsEmpty(SeenBy(n), cs, ps) /\ Continues(SeenBy(n), cs)
<1>1. Continues(SeenBy(n), cs)
  BY SeenByKeeps DEF Continues, MovesWithin
<1>2. ASSUME NEW k \in NodeIDs, SeenBy(n)[k] # NoNode, SeenBy(n)[k].status = "offline"
      PROVE  NoneOn(cs, ps, k)
  <2>1. k # n
    BY <1>2, SeenByKeeps DEF IsOnline
  <2>2. NoneOn(clients, proxies, k)
    BY <1>2, <2>1, SeenByKeeps DEF Inv, LeftIsEmpty
  <2>3. QED
    BY <2>1, <2>2 DEF NoneOn, MovesWithin
<1>3. QED
  BY <1>1, <1>2 DEF LeftIsEmpty

Settling == Heartbeats \/ PluginEvent \/ \E n \in NodeIDs : LeaveNode(n)

Settled ==
    \E ns \in NodeMap, cs \in ClientMap, ps \in ProxyMap :
        Settle(ns, cs, ps) /\ LeftIsEmpty(ns, cs, ps) /\ Continues(ns, cs)

LEMMA TypesOfInv ==
    ASSUME Inv PROVE nodes \in NodeMap /\ clients \in ClientMap /\ proxies \in ProxyMap
  BY DEF Inv, TypeOK, NodeMap, ClientMap, ProxyMap

(* A heartbeat settles a store in which its own node is online. *)
LEMMA HeartbeatIsOnline ==
    ASSUME Inv, NEW n \in NodeIDs, NEW network \in Links \cup {NoNetwork},
           HeartbeatNode(n, network)
    PROVE  \E ns \in NodeMap : /\ Settle(ns, clients, proxies)
                               /\ n \in OnlineIDs(ns)
                               /\ \A k \in NodeIDs : k # n => ns[k] = nodes[k]
<1> DEFINE measured == [Seen(nodes[n]) EXCEPT !.network = network, !.measured = 0]
           node == IF HasMeasurement(network) THEN measured ELSE Seen(nodes[n])
           ns == [nodes EXCEPT ![n] = node]
<1>1. nodes[n] # NoNode /\ Settle(ns, clients, proxies)
  BY DEF HeartbeatNode
<1>2. nodes[n] \in NodeRec
  BY <1>1, TypesOfInv DEF NodeMap
<1>3. Seen(nodes[n]) \in NodeRec /\ IsOnline(Seen(nodes[n]))
  BY <1>2, SeenIsOnline
<1>4. node \in NodeRec /\ node.status = "online" /\ node.seen <= OnlineFor
  <2>1. 0 \in 0..(FreshFor + 1)
    BY AgesAssumption
  <2>2. /\ measured \in NodeRec /\ measured.status = Seen(nodes[n]).status
        /\ measured.seen = Seen(nodes[n]).seen
    BY <1>3, <2>1 DEF NodeRec
  <2>3. QED
    BY <1>3, <2>2 DEF IsOnline
<1> HIDE DEF node
<1>5. IsOnline(node)
  BY <1>4, AbsentAssumption DEF IsOnline
<1>6. ns \in NodeMap /\ ns[n] = node /\ \A k \in NodeIDs : k # n => ns[k] = nodes[k]
  BY <1>4, TypesOfInv DEF NodeMap
<1>7. QED
  BY <1>1, <1>5, <1>6 DEF OnlineIDs

LEMMA HeartbeatSettles ==
    ASSUME Inv, NEW n \in NodeIDs, NEW network \in Links \cup {NoNetwork},
           HeartbeatNode(n, network)
    PROVE  Settled
<1>1. PICK ns \in NodeMap : /\ Settle(ns, clients, proxies)
                            /\ n \in OnlineIDs(ns)
                            /\ \A k \in NodeIDs : k # n => ns[k] = nodes[k]
  BY HeartbeatIsOnline
<1>2. ns[n] # NoNode /\ ns[n].status = "online"
  BY <1>1 DEF OnlineIDs, IsOnline
<1>3. LeftIsEmpty(ns, clients, proxies)
  <2>1. ASSUME NEW k \in NodeIDs, ns[k] # NoNode, ns[k].status = "offline"
        PROVE  NoneOn(clients, proxies, k)
    BY <1>1, <1>2, <2>1 DEF Inv, LeftIsEmpty
  <2>2. QED
    BY <2>1 DEF LeftIsEmpty
<1>4. Continues(ns, clients)
  BY <1>1, <1>2 DEF Continues
<1>5. QED
  BY <1>1, <1>3, <1>4, TypesOfInv DEF Settled

LEMMA EventSettles ==
    ASSUME Inv, PluginEvent
    PROVE  Settled
<1>1. PICK n \in NodeIDs :
         \/ PluginOther(n)
         \/ \E c \in ClientIDs :
              \/ PluginPing(n, c) \/ PluginNewProxy(n, c) \/ PluginCloseProxy(n, c)
              \/ PluginLogout(n, c)
  BY DEF PluginEvent
<1>2. SeenBy(n) \in NodeMap
  BY SeenByKeeps
<1>4. CASE PluginOther(n)
  <2>1. Settle(SeenBy(n), clients, proxies)
    BY <1>4 DEF PluginOther
  <2>2. LeftIsEmpty(SeenBy(n), clients, proxies) /\ Continues(SeenBy(n), clients)
    BY TypesOfInv, EventContinues DEF MovesWithin
  <2>3. QED
    BY <1>2, <2>1, <2>2, TypesOfInv DEF Settled
<1>5. ASSUME NEW c \in ClientIDs, PluginPing(n, c) PROVE Settled
  <2>1. Settle(SeenBy(n), Upserted(c, n), proxies)
    BY <1>5 DEF PluginPing
  <2>2. Upserted(c, n) \in ClientMap
    BY UpsertedKeeps
  <2>3. LeftIsEmpty(SeenBy(n), Upserted(c, n), proxies) /\ Continues(SeenBy(n), Upserted(c, n))
    BY <2>2, TypesOfInv, UpsertedMoves, EventContinues
  <2>4. QED
    BY <1>2, <2>1, <2>2, <2>3, TypesOfInv DEF Settled
<1>6. ASSUME NEW c \in ClientIDs, PluginNewProxy(n, c) PROVE Settled
  <2> DEFINE ps == [proxies EXCEPT ![n][c] = "online"]
  <2>1. Settle(SeenBy(n), Upserted(c, n), ps)
    BY <1>6 DEF PluginNewProxy
  <2>2. Upserted(c, n) \in ClientMap
    BY UpsertedKeeps
  <2>3. ps \in ProxyMap /\ \A k \in NodeIDs : k # n => ps[k] = proxies[k]
    BY TypesOfInv DEF ProxyMap, ProxyStatus
  <2> HIDE DEF ps
  <2>4. LeftIsEmpty(SeenBy(n), Upserted(c, n), ps) /\ Continues(SeenBy(n), Upserted(c, n))
    BY <2>2, <2>3, UpsertedMoves, EventContinues
  <2>5. QED
    BY <1>2, <2>1, <2>2, <2>3, <2>4 DEF Settled
<1>7. ASSUME NEW c \in ClientIDs, PluginCloseProxy(n, c) PROVE Settled
  <2> DEFINE ps == [proxies EXCEPT ![n][c] = IF @ = "absent" THEN "absent" ELSE "closed"]
  <2>1. Settle(SeenBy(n), clients, ps)
    BY <1>7 DEF PluginCloseProxy
  <2>2. ps \in ProxyMap /\ \A k \in NodeIDs : k # n => ps[k] = proxies[k]
    BY TypesOfInv DEF ProxyMap, ProxyStatus
  <2> HIDE DEF ps
  <2>3. LeftIsEmpty(SeenBy(n), clients, ps) /\ Continues(SeenBy(n), clients)
    BY <2>2, TypesOfInv, EventContinues DEF MovesWithin
  <2>4. QED
    BY <1>2, <2>1, <2>2, <2>3, TypesOfInv DEF Settled
<1>8. ASSUME NEW c \in ClientIDs, PluginLogout(n, c) PROVE Settled
  <2> DEFINE gone == IF clients[c] = NoClient THEN NoClient
                     ELSE [clients[c] EXCEPT !.status = "offline"]
             cs == [clients EXCEPT ![c] = gone]
  <2>1. Settle(SeenBy(n), cs, proxies)
    BY <1>8 DEF PluginLogout
  <2>2. /\ gone \in ClientRec \cup {NoClient} /\ (gone = NoClient <=> clients[c] = NoClient)
        /\ clients[c] # NoClient =>
             /\ gone.status = "offline" /\ gone.node = clients[c].node
             /\ gone.preferred = clients[c].preferred /\ gone.state = clients[c].state
    <3>1. CASE clients[c] = NoClient
      BY <3>1
    <3>2. CASE clients[c] # NoClient
      <4>1. clients[c] \in ClientRec
        BY <3>2, TypesOfInv DEF ClientMap
      <4>2. gone = [clients[c] EXCEPT !.status = "offline"]
        BY <3>2
      <4>3. gone \in ClientRec
        BY <4>1, <4>2 DEF ClientRec
      <4>4. QED
        BY <3>2, <4>1, <4>2, <4>3, AbsentAssumption DEF ClientRec
    <3>3. QED
      BY <3>1, <3>2
  <2> HIDE DEF gone
  <2>3. cs \in ClientMap /\ cs[c] = gone /\ \A k \in ClientIDs : k # c => cs[k] = clients[k]
    BY <2>2, TypesOfInv DEF ClientMap
  <2> HIDE DEF cs
  <2>4. MovesWithin(n, cs)
    BY <2>2, <2>3 DEF MovesWithin
  <2>5. LeftIsEmpty(SeenBy(n), cs, proxies) /\ Continues(SeenBy(n), cs)
    BY <2>3, <2>4, TypesOfInv, EventContinues
  <2>6. QED
    BY <1>2, <2>1, <2>3, <2>5, TypesOfInv DEF Settled
<1>9. QED
  BY <1>1, <1>4, <1>5, <1>6, <1>7, <1>8

LEMMA LeaveSettles ==
    ASSUME Inv, NEW n \in NodeIDs, LeaveNode(n)
    PROVE  Settled
<1> DEFINE ns == [nodes EXCEPT ![n].status = "offline", ![n].seen = 0]
           left(c) == IF clients[c] # NoClient /\ clients[c].node = n
                      THEN [clients[c] EXCEPT !.status = "offline"] ELSE clients[c]
           cs == [c \in ClientIDs |-> left(c)]
           closed == [c \in ClientIDs |-> IF proxies[n][c] = "absent" THEN "absent" ELSE "closed"]
           ps == [proxies EXCEPT ![n] = closed]
<1>1. nodes[n] # NoNode /\ Settle(ns, cs, ps)
  BY DEF LeaveNode
<1>2. nodes[n] \in NodeRec
  BY <1>1, TypesOfInv DEF NodeMap
<1>3. /\ ns \in NodeMap /\ ns[n] # NoNode
      /\ \A k \in NodeIDs : k # n => ns[k] = nodes[k]
  <2>1. 0 \in 0..(OnlineFor + 1)
    BY AgesAssumption
  <2>2. ns = [nodes EXCEPT ![n] = [nodes[n] EXCEPT !.status = "offline", !.seen = 0]]
    BY TypesOfInv DEF NodeMap
  <2>3. [nodes[n] EXCEPT !.status = "offline", !.seen = 0] \in NodeRec
    BY <1>2, <2>1 DEF NodeRec
  <2>4. QED
    BY <2>2, <2>3, TypesOfInv, AbsentAssumption DEF NodeMap
<1>4. \A c \in ClientIDs :
         /\ left(c) \in ClientRec \cup {NoClient} /\ (left(c) = NoClient <=> clients[c] = NoClient)
         /\ clients[c] # NoClient =>
              /\ left(c).node = clients[c].node
              /\ left(c).preferred = clients[c].preferred /\ left(c).state = clients[c].state
              /\ left(c).node = n => left(c).status = "offline"
              /\ left(c).node # n => left(c) = clients[c]
  <2>1. TAKE c \in ClientIDs
  <2>2. clients[c] \in ClientRec \cup {NoClient}
    BY TypesOfInv DEF ClientMap
  <2>3. CASE clients[c] # NoClient /\ clients[c].node = n
    <3>1. left(c) = [clients[c] EXCEPT !.status = "offline"] /\ clients[c] \in ClientRec
      BY <2>2, <2>3
    <3>2. left(c) \in ClientRec
      BY <3>1 DEF ClientRec
    <3>3. QED
      BY <2>3, <3>1, <3>2, AbsentAssumption DEF ClientRec
  <2>4. CASE clients[c] = NoClient \/ clients[c].node # n
    BY <2>2, <2>4
  <2>5. QED
    BY <2>3, <2>4
<1> HIDE DEF left
<1>5. cs \in ClientMap /\ \A c \in ClientIDs : cs[c] = left(c)
  BY <1>4 DEF ClientMap
<1>6. /\ ps \in ProxyMap /\ \A k \in NodeIDs : k # n => ps[k] = proxies[k]
      /\ \A c \in ClientIDs : ps[n][c] # "online"
  BY TypesOfInv DEF ProxyMap, ProxyStatus
<1> HIDE DEF ns, cs, ps
<1>7. Continues(ns, cs)
  BY <1>1, <1>3, <1>4, <1>5 DEF Continues
<1>8. LeftIsEmpty(ns, cs, ps)
  <2>1. NoneOn(cs, ps, n)
    BY <1>4, <1>5, <1>6 DEF NoneOn
  <2>2. ASSUME NEW k \in NodeIDs, k # n, ns[k] # NoNode, ns[k].status = "offline"
        PROVE  NoneOn(cs, ps, k)
    <3>1. NoneOn(clients, proxies, k)
      BY <1>3, <2>2 DEF Inv, LeftIsEmpty
    <3>2. QED
      BY <1>4, <1>5, <1>6, <2>2, <3>1 DEF NoneOn
  <2>3. QED
    BY <2>1, <2>2 DEF LeftIsEmpty
<1>9. QED
  BY <1>1, <1>3, <1>5, <1>6, <1>7, <1>8 DEF Settled

LEMMA SettlingSettles == Inv /\ Settling => Settled
  BY HeartbeatSettles, EventSettles, LeaveSettles DEF Settling, Heartbeats

-----------------------------------------------------------------------------
(* The invariant is kept. *)

LEMMA SettledKeepsInv == Inv /\ Settled => Inv'
<1>1. SUFFICES ASSUME Inv,
                      NEW ns \in NodeMap, NEW cs \in ClientMap, NEW ps \in ProxyMap,
                      Settle(ns, cs, ps), LeftIsEmpty(ns, cs, ps), Continues(ns, cs)
               PROVE  Inv'
  BY DEF Settled
<1>2. TypeOK'
  <2>1. nodes' \in NodeMap
    BY <1>1, SettleKeeps
  <2>2. clients' \in ClientMap
    BY <1>1, SettleKeeps
  <2>3. proxies' \in ProxyMap /\ config' = config
    BY <1>1 DEF Settle
  <2>4. QED
    BY <1>1, <2>1, <2>2, <2>3 DEF Inv, TypeOK, NodeMap, ClientMap, ProxyMap
<1>3. \A c \in ClientIDs : /\ clients'[c] = NoClient <=> cs[c] = NoClient
                           /\ cs[c] # NoClient => /\ clients'[c].node = cs[c].node
                                                  /\ clients'[c].status = cs[c].status
  BY <1>1, SettleKeeps
<1>4. \A n \in NodeIDs : CountClients(clients', n) = CountClients(cs, n)
  <2>1. TAKE n \in NodeIDs
  <2>2. {c \in ClientIDs : clients'[c] # NoClient /\ clients'[c].status = "online"
                                                 /\ clients'[c].node = n}
          = {c \in ClientIDs : cs[c] # NoClient /\ cs[c].status = "online" /\ cs[c].node = n}
    BY <1>3
  <2>3. QED
    BY <2>2 DEF CountClients
<1>5. proxies' = ps
  BY <1>1 DEF Settle
<1>6. \A n \in NodeIDs :
         /\ nodes'[n] = NoNode <=> ns[n] = NoNode
         /\ ns[n] # NoNode => /\ nodes'[n].status = ns[n].status
                              /\ nodes'[n].clientCount = CountClients(cs, n)
                              /\ nodes'[n].proxyCount = CountProxies(ps, n)
  <2>1. nodes' = RecountNodes(ns, cs, ps)
    BY <1>1 DEF Settle
  <2>2. QED
    BY <1>1, <2>1, RecountNodesKeeps
<1>7. CountsSound'
  BY <1>4, <1>5, <1>6 DEF CountsSound
<1>8. LeftIsEmpty(nodes, clients, proxies)'
  <2>1. ASSUME NEW n \in NodeIDs, nodes'[n] # NoNode, nodes'[n].status = "offline"
        PROVE  NoneOn(clients', proxies', n)
    <3>1. NoneOn(cs, ps, n)
      BY <1>1, <1>6, <2>1 DEF LeftIsEmpty
    <3>2. QED
      BY <1>3, <1>5, <3>1 DEF NoneOn
  <2>2. QED
    BY <2>1 DEF LeftIsEmpty, NoneOn
<1>9. TargetsKnown'
  <2>1. ASSUME NEW c \in ClientIDs, clients'[c] # NoClient, clients'[c].preferred # None
        PROVE  nodes'[clients'[c].preferred] # NoNode
    <3>1. clients'[c].preferred \in NodeIDs
      BY <1>2, <2>1 DEF TypeOK, ClientRec
    <3>2. \/ clients'[c].preferred = cs[c].preferred
          \/ clients'[c].preferred \in OnlineIDs(ns)
      BY <1>1, <1>3, <2>1, SettleKeeps
    <3>3. CASE clients'[c].preferred \in OnlineIDs(ns)
      BY <1>6, <3>1, <3>3 DEF OnlineIDs, IsOnline
    <3>4. CASE clients'[c].preferred = cs[c].preferred
      <4>1. clients[c] # NoClient /\ clients[c].preferred = cs[c].preferred
        BY <1>1, <1>3, <2>1, <3>4 DEF Continues
      <4>2. nodes[cs[c].preferred] # NoNode
        BY <1>1, <2>1, <3>4, <4>1 DEF Inv, TargetsKnown
      <4>3. QED
        BY <1>1, <1>6, <3>1, <3>4, <4>2 DEF Continues
    <3>5. QED
      BY <3>2, <3>3, <3>4
  <2>2. QED
    BY <2>1 DEF TargetsKnown
<1>10. QED
  BY <1>2, <1>7, <1>8, <1>9 DEF Inv

LEMMA JoinKeepsInv ==
    ASSUME Inv, NEW n \in NodeIDs, JoinNode(n)
    PROVE  /\ Inv' /\ UNCHANGED <<clients, proxies, config>>
           /\ \A k \in NodeIDs : k # n => nodes'[k] = nodes[k]
           /\ IsOnline(nodes'[n])
<1> DEFINE new == [status |-> "online", seen |-> 0, network |-> NoNetwork, measured |-> 0,
                   clientCount |-> IF nodes[n] = NoNode THEN 0 ELSE nodes[n].clientCount,
                   proxyCount |-> IF nodes[n] = NoNode THEN 0 ELSE nodes[n].proxyCount]
<1>1. nodes' = [nodes EXCEPT ![n] = new] /\ UNCHANGED <<clients, proxies, config>>
  BY DEF JoinNode
<1>2. nodes \in NodeMap
  BY TypesOfInv
<1>3. new \in NodeRec /\ new.status = "online" /\ new.seen = 0
  <2>1. 0 \in 0..(OnlineFor + 1) /\ 0 \in 0..(FreshFor + 1)
    BY AgesAssumption
  <2>2. nodes[n] # NoNode => nodes[n].clientCount \in Nat /\ nodes[n].proxyCount \in Nat
    BY <1>2 DEF NodeMap, NodeRec
  <2>3. QED
    BY <2>1, <2>2 DEF NodeRec
<1>4. /\ nodes[n] = NoNode => new.clientCount = 0 /\ new.proxyCount = 0
      /\ nodes[n] # NoNode => /\ new.clientCount = nodes[n].clientCount
                              /\ new.proxyCount = nodes[n].proxyCount
  OBVIOUS
<1>5. new # NoNode
  BY <1>3, AbsentAssumption
<1> HIDE DEF new
<1>6. nodes'[n] = new /\ \A k \in NodeIDs : k # n => nodes'[k] = nodes[k]
  BY <1>1, <1>2 DEF NodeMap
<1>7. IsOnline(nodes'[n])
  BY <1>3, <1>5, <1>6, AgesAssumption DEF IsOnline
<1>8. TypeOK'
  BY <1>1, <1>3 DEF Inv, TypeOK
<1>9. CountsSound'
  BY <1>1, <1>4, <1>6 DEF Inv, CountsSound, CountClients, CountProxies
<1>10. LeftIsEmpty(nodes, clients, proxies)'
  BY <1>1, <1>3, <1>6 DEF Inv, LeftIsEmpty, NoneOn
<1>11. TargetsKnown'
  BY <1>1, <1>5, <1>6 DEF Inv, TargetsKnown, TypeOK, ClientRec
<1>12. QED
  BY <1>1, <1>6, <1>7, <1>8, <1>9, <1>10, <1>11 DEF Inv

(* The administrator changes targets and settings only. *)
LEMMA AdminKeepsInv ==
    ASSUME Inv, AdminStep
    PROVE  /\ Inv' /\ nodes' = nodes
           /\ \A c \in ClientIDs : clients[c] # NoClient =>
                clients'[c] # NoClient /\ clients'[c].node = clients[c].node
           /\ \A c \in ClientIDs : clients'[c] = clients[c] \/ clients'[c].state # "pending"
           /\ config'.auto = config.auto \/ clients' = clients
<1>1. CASE \E c \in ClientIDs : (\E n \in NodeIDs : SetClientTarget(c, n)) \/ ClearClientTarget(c)
  <2>1. PICK c \in ClientIDs, target \in NodeIDs \cup {None}, state \in {"", "manual"} :
           /\ clients[c] # NoClient
           /\ clients' = [clients EXCEPT ![c].preferred = target, ![c].state = state]
           /\ target # None => nodes[target] # NoNode
           /\ UNCHANGED <<nodes, proxies, config>>
    <3>1. CASE \E c \in ClientIDs, n \in NodeIDs : SetClientTarget(c, n)
      BY <3>1 DEF SetClientTarget, IsOnline
    <3>2. CASE \E c \in ClientIDs : ClearClientTarget(c)
      BY <3>2 DEF ClearClientTarget
    <3>3. QED
      BY <1>1, <3>1, <3>2
  <2> DEFINE new == [clients[c] EXCEPT !.preferred = target, !.state = state]
  <2>2. clients \in ClientMap /\ clients[c] \in ClientRec
    BY <2>1, TypesOfInv DEF ClientMap
  <2>3. /\ new \in ClientRec /\ new.node = clients[c].node /\ new.status = clients[c].status
        /\ new.preferred = target /\ new.state = state
    BY <2>2 DEF ClientRec
  <2>4. new # NoClient
    BY <2>3, AbsentAssumption
  <2>5. clients' = [clients EXCEPT ![c] = new]
    BY <2>1, <2>2 DEF ClientMap
  <2> HIDE DEF new
  <2>6. clients'[c] = new /\ \A k \in ClientIDs : k # c => clients'[k] = clients[k]
    BY <2>2, <2>5 DEF ClientMap
  <2>7. \A k \in ClientIDs : /\ clients'[k] = NoClient <=> clients[k] = NoClient
                             /\ clients[k] # NoClient => /\ clients'[k].node = clients[k].node
                                                         /\ clients'[k].status = clients[k].status
    BY <2>1, <2>3, <2>4, <2>6
  <2>8. TypeOK'
    <3>1. clients' \in ClientMap
      BY <2>2, <2>3, <2>5 DEF ClientMap
    <3>2. QED
      BY <2>1, <3>1 DEF Inv, TypeOK, ClientMap
  <2>9. CountsSound'
    <3>1. ASSUME NEW n \in NodeIDs PROVE CountClients(clients', n) = CountClients(clients, n)
      <4>1. {k \in ClientIDs : clients'[k] # NoClient /\ clients'[k].status = "online"
                                                     /\ clients'[k].node = n}
              = {k \in ClientIDs : clients[k] # NoClient /\ clients[k].status = "online"
                                                        /\ clients[k].node = n}
        BY <2>7
      <4>2. QED
        BY <4>1 DEF CountClients
    <3>2. QED
      BY <2>1, <3>1 DEF Inv, CountsSound
  <2>10. LeftIsEmpty(nodes, clients, proxies)'
    <3>1. ASSUME NEW n \in NodeIDs, nodes[n] # NoNode, nodes[n].status = "offline"
          PROVE  NoneOn(clients', proxies, n)
      <4>1. NoneOn(clients, proxies, n)
        BY <3>1 DEF Inv, LeftIsEmpty
      <4>2. QED
        BY <2>7, <4>1 DEF NoneOn
    <3>2. QED
      BY <2>1, <3>1 DEF LeftIsEmpty, NoneOn
  <2>11. TargetsKnown'
    BY <2>1, <2>3, <2>6 DEF Inv, TargetsKnown
  <2>12. QED
    BY <2>1, <2>3, <2>6, <2>7, <2>8, <2>9, <2>10, <2>11 DEF Inv
<1>2. CASE \E auto \in BOOLEAN, gap \in Gaps : UpdateConfig(auto, gap)
  <2>1. PICK auto \in BOOLEAN, gap \in Gaps : UpdateConfig(auto, gap)
    BY <1>2
  <2>2. /\ UNCHANGED <<nodes, clients, proxies>>
        /\ config' = [auto |-> auto, gap |-> IF gap < 0 THEN config.gap ELSE gap]
    BY <2>1 DEF UpdateConfig
  <2>3. config' \in [auto : BOOLEAN, gap : Nat] /\ config'.auto = auto
    BY <2>2, ConfigAssumption DEF Inv, TypeOK
  <2>4. Inv'
    BY <2>2, <2>3 DEF Inv, TypeOK, CountsSound, LeftIsEmpty, NoneOn, TargetsKnown,
                      CountClients, CountProxies
  <2>5. QED
    BY <2>2, <2>3, <2>4
<1>3. QED
  BY <1>1, <1>2 DEF AdminStep

LEMMA TickKeepsInv ==
    ASSUME Inv, Tick
    PROVE  Inv' /\ UNCHANGED <<clients, proxies, config>>
<1> DEFINE older(n) == [nodes[n] EXCEPT
                          !.seen = Older(nodes[n].seen, OnlineFor),
                          !.measured = IF HasMeasurement(nodes[n].network)
                                       THEN Older(nodes[n].measured, FreshFor) ELSE 0]
           new(n) == IF nodes[n] = NoNode THEN NoNode ELSE older(n)
<1>1. nodes' = [n \in NodeIDs |-> new(n)] /\ UNCHANGED <<clients, proxies, config>>
  BY DEF Tick
<1>2. ASSUME NEW n \in NodeIDs, nodes[n] # NoNode
      PROVE  /\ older(n) \in NodeRec /\ older(n) # NoNode /\ older(n).status = nodes[n].status
             /\ older(n).clientCount = nodes[n].clientCount
             /\ older(n).proxyCount = nodes[n].proxyCount
  <2>1. nodes[n] \in NodeRec
    BY <1>2, TypesOfInv DEF NodeMap
  <2>2. /\ Older(nodes[n].seen, OnlineFor) \in 0..(OnlineFor + 1)
        /\ Older(nodes[n].measured, FreshFor) \in 0..(FreshFor + 1)
        /\ 0 \in 0..(FreshFor + 1)
    BY <2>1, AgesAssumption DEF NodeRec, Older
  <2>3. older(n) \in NodeRec
    BY <2>1, <2>2 DEF NodeRec
  <2>4. QED
    BY <2>1, <2>3, AbsentAssumption DEF NodeRec
<1> HIDE DEF older
<1>3. \A n \in NodeIDs : nodes'[n] = IF nodes[n] = NoNode THEN NoNode ELSE older(n)
  BY <1>1
<1>4. nodes' \in NodeMap
  BY <1>1, <1>2 DEF NodeMap
<1>5. TypeOK'
  BY <1>1, <1>4 DEF Inv, TypeOK, NodeMap
<1>6. CountsSound'
  BY <1>1, <1>2, <1>3 DEF Inv, CountsSound, CountClients, CountProxies
<1>7. LeftIsEmpty(nodes, clients, proxies)' /\ TargetsKnown'
  BY <1>1, <1>2, <1>3 DEF Inv, LeftIsEmpty, NoneOn, TargetsKnown, TypeOK, ClientRec
<1>8. QED
  BY <1>1, <1>5, <1>6, <1>7 DEF Inv

LEMMA StepKeepsInv == Inv /\ [Next]_vars => Inv'
<1>1. CASE \E n \in NodeIDs : JoinNode(n)
  BY <1>1, JoinKeepsInv
<1>2. CASE Settling
  BY <1>2, SettlingSettles, SettledKeepsInv
<1>3. CASE AdminStep
  BY <1>3, AdminKeepsInv
<1>4. CASE Tick
  BY <1>4, TickKeepsInv
<1>5. CASE UNCHANGED vars
  BY <1>5 DEF vars, Inv, TypeOK, CountsSound, LeftIsEmpty, NoneOn, TargetsKnown,
              CountClients, CountProxies
<1>6. QED
  BY <1>1, <1>2, <1>3, <1>4, <1>5 DEF Next, Settling

LEMMA InitInv == Init => Inv
<1>1. SUFFICES ASSUME Init PROVE Inv
  OBVIOUS
<1>2. /\ \A n \in NodeIDs : nodes[n] = NoNode
      /\ \A c \in ClientIDs : clients[c] = NoClient
  BY <1>1 DEF Init
<1>3. TypeOK
  BY <1>1, ConfigAssumption DEF Init, TypeOK, ProxyStatus
<1>4. QED
  BY <1>2, <1>3 DEF Inv, CountsSound, LeftIsEmpty, TargetsKnown

LEMMA AlwaysInv == Spec => []Inv
  BY InitInv, StepKeepsInv, PTL DEF Spec

(* Whatever the handlers do, the store's maps hold records of the code's   *)
(* shape, and the gap an administrator sets stays non-negative.            *)
THEOREM TypeCorrect == Spec => []TypeOK
<1>1. Inv => TypeOK
  BY DEF Inv
<1>2. QED
  BY <1>1, AlwaysInv, PTL

(* The counts recomputeNodeCountsLocked leaves are those of the store, for *)
(* every order of joins, leaves, events and heartbeats.                    *)
THEOREM CountsAreSound == Spec => []CountsSound
<1>1. Inv => CountsSound
  BY DEF Inv
<1>2. QED
  BY <1>1, AlwaysInv, PTL

(* While leaveNode's offline mark stands nothing is online on the node:    *)
(* every plugin event that could bring something back first lifts it.      *)
THEOREM LeftNodesAreEmpty == Spec => []LeftNodeIsEmpty
<1>1. Inv => LeftNodeIsEmpty
  BY LeftIsEmptyMeans
<1>2. QED
  BY <1>1, AlwaysInv, PTL

-----------------------------------------------------------------------------
(* Pending targets *)

(* No handler makes a recommendation that the auto-switch loop would serve *)
(* in vain, nor leaves one so by moving the client onto it.                *)
LEMMA SettlingMisdirectsNobody ==
    ASSUME Inv, Settled, NEW c \in ClientIDs, ~Misdirected(c)
    PROVE  ~Misdirected(c)'
<1>1. PICK ns \in NodeMap, cs \in ClientMap, ps \in ProxyMap :
         Settle(ns, cs, ps) /\ Continues(ns, cs)
  BY DEF Settled
<1>2. SUFFICES ASSUME clients'[c] # NoClient, clients'[c].state = "pending", config.auto
               PROVE  clients'[c].preferred \notin {None, clients'[c].node}
  <2>1. config' = config
    BY <1>1 DEF Settle
  <2>2. QED
    BY <2>1 DEF Misdirected
<1>3. cs[c] # NoClient
  <2>1. \A k \in ClientIDs : clients'[k] = NoClient <=> cs[k] = NoClient
    BY <1>1, SettleKeeps
  <2>2. QED
    BY <1>2, <2>1
<1>4. clients'[c].node = cs[c].node
  BY <1>1, <1>3, SettleKeeps
<1>5. /\ \/ clients'[c].preferred = cs[c].preferred /\ clients'[c].state = cs[c].state
         \/ clients'[c].preferred = None /\ clients'[c].state = ""
         \/ /\ clients'[c].state = "pending" /\ clients'[c].preferred \in OnlineIDs(ns)
            /\ clients'[c].preferred # cs[c].node
      /\ config.auto /\ OnlineIDs(ns) # {} /\ cs[c].status = "online"
           => \/ /\ cs[c].node \in OnlineIDs(ns)
                 /\ clients'[c].preferred = None /\ clients'[c].state = ""
              \/ /\ clients'[c].state = "pending" /\ clients'[c].preferred \in OnlineIDs(ns)
                 /\ clients'[c].preferred \notin {None, cs[c].node}
  BY <1>1, <1>3, SettleKeeps
<1>6. CASE clients'[c].preferred \in OnlineIDs(ns) /\ clients'[c].preferred # cs[c].node
  BY <1>4, <1>6, NodeIDsAssumption DEF OnlineIDs, None
<1>7. CASE clients'[c].preferred = cs[c].preferred /\ clients'[c].state = cs[c].state
  <2>1. clients[c] # NoClient
    BY <1>1, <1>2, <1>3, <1>7 DEF Continues
  <2>2. clients[c].preferred = cs[c].preferred /\ clients[c].state = "pending"
    BY <1>1, <1>2, <1>7, <2>1 DEF Continues
  <2>3. clients[c].preferred \notin {None, clients[c].node}
    BY <1>2, <2>1, <2>2 DEF Misdirected
  <2>4. CASE cs[c].node = clients[c].node
    BY <1>4, <1>7, <2>2, <2>3, <2>4
  <2>5. CASE /\ cs[c].status = "online"
             /\ ns[cs[c].node] = NoNode \/ IsOnline(ns[cs[c].node])
    <3>1. CASE OnlineIDs(ns) # {}
      BY <1>2, <1>4, <1>5, <2>5, <3>1
    <3>2. CASE OnlineIDs(ns) = {}
      <4>1. cs[c].node \in NodeIDs
        BY <1>3 DEF ClientMap, ClientRec
      <4>2. ns[cs[c].node] = NoNode
        BY <2>5, <3>2, <4>1 DEF OnlineIDs
      <4>3. nodes[clients[c].preferred] # NoNode
        BY <2>1, <2>3 DEF Inv, TargetsKnown
      <4>4. clients[c].preferred \in NodeIDs
        BY <2>1, <2>3, TypesOfInv DEF ClientMap, ClientRec
      <4>5. ns[clients[c].preferred] # NoNode
        BY <1>1, <4>3, <4>4 DEF Continues
      <4>6. QED
        BY <1>4, <1>7, <2>2, <2>3, <4>2, <4>5
    <3>3. QED
      BY <3>1, <3>2
  <2>6. QED
    BY <1>1, <2>1, <2>4, <2>5 DEF Continues
<1>8. QED
  BY <1>2, <1>5, <1>6, <1>7

(* A heartbeat, of whatever node, settles every online client. *)
LEMMA HeartbeatDirects ==
    ASSUME Inv, Heartbeats, NEW c \in ClientIDs, Misdirected(c)'
    PROVE  clients'[c].status = "offline"
<1>1. PICK n \in NodeIDs, network \in Links \cup {NoNetwork} : HeartbeatNode(n, network)
  BY DEF Heartbeats
<1>2. PICK ns \in NodeMap : Settle(ns, clients, proxies) /\ n \in OnlineIDs(ns)
  BY <1>1, HeartbeatIsOnline
<1>3. clients \in ClientMap
  BY TypesOfInv
<1>4. config' = config /\ OnlineIDs(nodes') = OnlineIDs(ns) /\ clients' \in ClientMap
  BY <1>2, <1>3, SettleKeeps
<1>5. /\ clients'[c] # NoClient /\ config.auto /\ clients'[c].state = "pending"
      /\ clients'[c].preferred \in {None, clients'[c].node}
  BY <1>4 DEF Misdirected
<1>6. clients[c] # NoClient
  <2>1. clients'[c] = NoClient <=> clients[c] = NoClient
    BY <1>2, <1>3, SettleKeeps
  <2>2. QED
    BY <1>5, <2>1
<1>7. clients'[c].node = clients[c].node /\ clients'[c].status = clients[c].status
  BY <1>2, <1>3, <1>6, SettleKeeps
<1>8. config.auto /\ OnlineIDs(ns) # {} /\ clients[c].status = "online"
        => \/ /\ clients[c].node \in OnlineIDs(ns)
              /\ clients'[c].preferred = None /\ clients'[c].state = ""
           \/ /\ clients'[c].state = "pending" /\ clients'[c].preferred \in OnlineIDs(ns)
              /\ clients'[c].preferred \notin {None, clients[c].node}
  BY <1>2, <1>3, <1>6, SettleKeeps
<1>9. clients[c].status # "online"
  BY <1>2, <1>5, <1>7, <1>8
<1>10. QED
  BY <1>3, <1>6, <1>7, <1>9 DEF ClientMap, ClientRec

(* A pending target that the auto-switch loop serves is another node than  *)
(* its client's, unless it is left from before AutoMigration was switched  *)
(* off and on (applyMigrationRecommendationsLocked, which UpdateConfig     *)
(* does not call); the next heartbeat ends that for an online client.      *)
THEOREM PendingElsewhere == Spec => PendingTargetIsElsewhere
<1>1. ASSUME Inv, [Next]_vars, NEW c \in ClientIDs, Misdirected(c)', ~Misdirected(c)
      PROVE  ~config.auto /\ config'.auto
  <2>1. CASE Settling
    BY <1>1, <2>1, SettlingSettles, SettlingMisdirectsNobody
  <2>2. CASE AdminStep
    <3>1. /\ clients'[c] = clients[c] \/ clients'[c].state # "pending"
          /\ config'.auto = config.auto \/ clients' = clients
          /\ config.auto \in BOOLEAN
      BY <1>1, <2>2, AdminKeepsInv DEF Inv, TypeOK
    <3>2. QED
      BY <1>1, <3>1 DEF Misdirected
  <2>3. CASE UNCHANGED <<clients, config>>
    BY <1>1, <2>3 DEF Misdirected
  <2>4. QED
    BY <1>1, <2>1, <2>2, <2>3, JoinKeepsInv, TickKeepsInv DEF Next, Settling, vars
<1>2. Inv /\ [Next]_vars
        => [\A c \in ClientIDs :
              Misdirected(c)'
                => \/ ~config.auto /\ config'.auto
                   \/ Misdirected(c) /\ (Heartbeats => clients'[c].status = "offline")]_vars
  BY <1>1, HeartbeatDirects
<1>3. QED
  BY <1>2, AlwaysInv, PTL DEF Spec, PendingTargetIsElsewhere

-----------------------------------------------------------------------------
(* The node a client is served *)

(* A client on an online node is served that node, or its manual target.   *)
LEMMA ServedWhereItIs ==
    ASSUME NEW ns, NEW client, client # NoClient, client.node \in OnlineIDs(ns)
    PROVE  Served(ns, client) = IF client.state = "manual" /\ client.preferred \in OnlineIDs(ns)
                                THEN client.preferred ELSE client.node
  BY NodeIDsAssumption DEF Served, Pinned, OnlineIDs, None

LEMMA ServedItsTarget ==
    ASSUME NEW ns, NEW client, client # NoClient,
           client.state = "manual", client.preferred \in OnlineIDs(ns)
    PROVE  Served(ns, client) = client.preferred
  BY NodeIDsAssumption DEF Served, Pinned, OnlineIDs, None

(* In every step a known client stays on its node, or it moves to one that *)
(* is online after the step or unknown to the store.                       *)
LEMMA ClientsGoOn ==
    ASSUME Inv, Next, NEW c \in ClientIDs, clients[c] # NoClient
    PROVE  /\ clients'[c] # NoClient /\ clients'[c].node \in NodeIDs
           /\ \/ clients'[c].node = clients[c].node
              \/ nodes'[clients'[c].node] = NoNode
              \/ clients'[c].node \in OnlineIDs(nodes')
<1>1. clients[c].node \in NodeIDs
  BY TypesOfInv DEF ClientMap, ClientRec
<1>2. CASE Settling
  <2>1. PICK ns \in NodeMap, cs \in ClientMap, ps \in ProxyMap :
           Settle(ns, cs, ps) /\ Continues(ns, cs)
    BY <1>2, SettlingSettles DEF Settled
  <2>2. /\ cs[c] # NoClient
        /\ \/ cs[c].node = clients[c].node
           \/ ns[cs[c].node] = NoNode
           \/ IsOnline(ns[cs[c].node])
    BY <2>1 DEF Continues
  <2>3. clients'[c] # NoClient
    BY <2>1, <2>2, SettleKeeps
  <2>4. clients'[c].node = cs[c].node
    BY <2>1, <2>2, SettleKeeps
  <2>5. cs[c].node \in NodeIDs
    BY <2>2 DEF ClientMap, ClientRec
  <2>6. nodes'[cs[c].node] = NoNode <=> ns[cs[c].node] = NoNode
    BY <2>1, <2>5, SettleKeeps
  <2>7. OnlineIDs(nodes') = OnlineIDs(ns)
    BY <2>1, SettleKeeps
  <2>8. QED
    BY <2>2, <2>3, <2>4, <2>5, <2>6, <2>7 DEF OnlineIDs
<1>3. CASE AdminStep
  BY <1>1, <1>3, AdminKeepsInv
<1>4. CASE UNCHANGED clients
  BY <1>1, <1>4
<1>5. QED
  BY <1>2, <1>3, <1>4, JoinKeepsInv, TickKeepsInv DEF Next, Settling

(* No handler, heartbeat, recommendation or passing of time takes a client *)
(* away from a node that stays online: pinnedNode sends it elsewhere only  *)
(* for a manual target or because it reported from there.                  *)
THEOREM StaysPut == Spec => StaysWherePut
<1> DEFINE Stays(c) ==
      LET old == Served(nodes, clients[c])
          new == Served(nodes', clients'[c])
      IN  /\ clients[c] # NoClient
          /\ old # None /\ new # old
          /\ IsOnline(nodes[clients[c].node]) /\ IsOnline(nodes'[old])
          => \/ clients'[c].state = "manual" /\ clients'[c].preferred = new
             \/ clients[c].state = "manual" /\ clients[c].preferred = old
             \/ clients'[c].node = new
             \/ nodes'[clients'[c].node] = NoNode
<1>1. ASSUME Inv, Next, NEW c \in ClientIDs PROVE Stays(c)
  <2> DEFINE old == Served(nodes, clients[c])
             new == Served(nodes', clients'[c])
  <2>1. SUFFICES ASSUME clients[c] # NoClient, IsOnline(nodes[clients[c].node]),
                        IsOnline(nodes'[old]), new # old,
                        ~(clients[c].state = "manual" /\ clients[c].preferred = old),
                        nodes'[clients'[c].node] # NoNode
                 PROVE  \/ clients'[c].state = "manual" /\ clients'[c].preferred = new
                        \/ clients'[c].node = new
    OBVIOUS
  <2>2. clients[c].node \in OnlineIDs(nodes)
    BY <1>1, <2>1, TypesOfInv DEF ClientMap, ClientRec, OnlineIDs
  <2>3. old = clients[c].node
    BY <2>1, <2>2, ServedWhereItIs
  <2>4. clients'[c] # NoClient /\ clients'[c].node \in OnlineIDs(nodes')
    BY <1>1, <2>1, <2>2, <2>3, ClientsGoOn DEF OnlineIDs
  <2>5. QED
    BY <2>4, ServedWhereItIs
<1>2. Inv /\ [Next]_vars => [\A c \in ClientIDs : Stays(c)]_vars
  BY <1>1
<1>3. QED
  BY <1>2, AlwaysInv, PTL DEF Spec, StaysWherePut

(* With AutoMigration off a manual target is served whenever its node is   *)
(* online: pings from another node, joins, leaves and settings keep it.    *)
THEOREM TargetsHold == Spec => ManualTargetHolds
<1>1. ASSUME Inv, Next, ~AdminStep, ~config.auto PROVE KeepsTargets
  <2>1. SUFFICES ASSUME NEW c \in ClientIDs, NEW n \in NodeIDs,
                        Targeted(c, n), IsOnline(nodes'[n])
                 PROVE  Served(nodes', clients'[c]) = n
    BY DEF KeepsTargets
  <2>2. clients[c] # NoClient /\ clients[c].state = "manual" /\ clients[c].preferred = n
    BY <2>1 DEF Targeted
  <2>3. clients'[c] # NoClient
    BY <1>1, <2>2, ClientsGoOn
  <2>4. clients'[c].state = "manual" /\ clients'[c].preferred = n
    <3>1. CASE Settling
      <4>1. PICK ns \in NodeMap, cs \in ClientMap, ps \in ProxyMap :
               Settle(ns, cs, ps) /\ Continues(ns, cs)
        BY <1>1, <3>1, SettlingSettles DEF Settled
      <4>2. cs[c] # NoClient /\ cs[c].state = "manual" /\ cs[c].preferred = n
        BY <2>2, <4>1 DEF Continues
      <4>3. clients'[c].preferred = cs[c].preferred /\ clients'[c].state = cs[c].state
        BY <1>1, <4>1, <4>2, SettleKeeps
      <4>4. QED
        BY <4>2, <4>3
    <3>2. CASE UNCHANGED clients
      BY <2>2, <3>2
    <3>3. QED
      BY <1>1, <3>1, <3>2, JoinKeepsInv, TickKeepsInv DEF Next, Settling
  <2>5. n \in OnlineIDs(nodes')
    BY <2>1 DEF OnlineIDs
  <2>6. QED
    BY <2>3, <2>4, <2>5, ServedItsTarget
<1>2. Inv /\ [Next]_vars => [~AdminStep /\ ~config.auto => KeepsTargets]_vars
  BY <1>1
<1>3. QED
  BY <1>2, AlwaysInv, PTL DEF Spec, ManualTargetHolds

-----------------------------------------------------------------------------
(* Clients whose node went silent *)

(* An online client whose node is silent is found by the next heartbeat of *)
(* any node: it leaves the client with a pending target that is online     *)
(* (applyMigrationRecommendationsLocked, called by every heartbeat).       *)
THEOREM StrandedAreRecommended == Spec => StrandedIsRecommended
<1>1. ASSUME Inv, Heartbeats, NEW c \in ClientIDs, Stranded(c)'
      PROVE  Advised(c)'
  <2>1. PICK n \in NodeIDs, network \in Links \cup {NoNetwork} : HeartbeatNode(n, network)
    BY <1>1 DEF Heartbeats
  <2>2. PICK ns \in NodeMap : /\ Settle(ns, clients, proxies)
                              /\ n \in OnlineIDs(ns)
    BY <1>1, <2>1, HeartbeatIsOnline
  <2>3. clients \in ClientMap
    BY <1>1, TypesOfInv
  <2>4. config' = config /\ OnlineIDs(nodes') = OnlineIDs(ns) /\ clients' \in ClientMap
    BY <2>2, <2>3, SettleKeeps
  <2>5. /\ clients'[c] # NoClient /\ clients'[c].status = "online"
        /\ clients'[c].node \notin OnlineIDs(nodes') /\ config'.auto
    BY <1>1 DEF Stranded, OnlineIDs
  <2>6. /\ clients[c] # NoClient
        /\ clients[c].status = "online" /\ clients[c].node \notin OnlineIDs(ns)
    <3>1. clients'[c] = NoClient <=> clients[c] = NoClient
      BY <2>2, <2>3, SettleKeeps
    <3>2. clients[c] # NoClient
      BY <2>5, <3>1
    <3>3. clients'[c].node = clients[c].node
      BY <2>2, <2>3, <3>2, SettleKeeps
    <3>4. clients'[c].status = clients[c].status
      BY <2>2, <2>3, <3>2, SettleKeeps
    <3>5. QED
      BY <2>4, <2>5, <3>2, <3>3, <3>4
  <2>7. clients'[c].state = "pending" /\ clients'[c].preferred \in OnlineIDs(ns)
    <3>1. config.auto /\ OnlineIDs(ns) # {} /\ clients[c].status = "online"
            => \/ /\ clients[c].node \in OnlineIDs(ns)
                  /\ clients'[c].preferred = None /\ clients'[c].state = ""
               \/ /\ clients'[c].state = "pending" /\ clients'[c].preferred \in OnlineIDs(ns)
                  /\ clients'[c].preferred \notin {None, clients[c].node}
      <4>1. ns \in NodeMap /\ clients \in ClientMap /\ Settle(ns, clients, proxies)
        BY <2>2, <2>3
      <4>2. clients[c] # NoClient
        BY <2>6
      <4>3. QED
        BY <4>1, <4>2, SettleKeeps
    <3>2. QED
      BY <2>2, <2>4, <2>5, <2>6, <3>1
  <2>8. QED
    BY <2>4, <2>7 DEF Advised, OnlineIDs
<1>2. Inv /\ [Next]_vars
        => [\A c \in ClientIDs : Stranded(c)' => Advised(c)' \/ ~Heartbeats]_vars
  BY <1>1
<1>3. QED
  BY <1>2, AlwaysInv, PTL DEF Spec, StrandedIsRecommended

-----------------------------------------------------------------------------
(* Requests for a target *)

(* A request that has moved the DNS entry last, and is not over yet, has   *)
(* moved it to its node.                                                   *)
MoverMoved == mover \in Workers => job[mover].phase = "moved" /\ job[mover].node = dns

SwitchInv == SwitchTypeOK /\ MoverMoved

-----------------------------------------------------------------------------
(* The requests *)

LEMMA JobsAreRequests ==
    ASSUME SwitchTypeOK, NEW w \in Workers, job[w].phase \in {"hook", "moved"}
    PROVE  /\ job[w] \in JobRec
           /\ job[w].client \in ClientIDs \cup {NoClient} /\ job[w].node \in NodeIDs
  BY DEF SwitchTypeOK, Idle, JobRec

LEMMA HookForTyped ==
    ASSUME NEW c \in ClientIDs \cup {NoClient}, NEW n \in NodeIDs
    PROVE  HookFor(c, n) \in JobRec
  BY DEF HookFor, JobRec

LEMMA StoreStepKeepsRequests ==
    ASSUME SwitchInv, UNCHANGED switchVars PROVE SwitchInv'
  BY DEF SwitchInv, SwitchTypeOK, MoverMoved, switchVars, entry

LEMMA StartKeeps ==
    ASSUME SwitchInv, NEW w \in Workers, NEW c \in ClientIDs \cup {NoClient}, NEW n \in NodeIDs,
           job[w] = Idle, job' = [job EXCEPT ![w] = HookFor(c, n)], UNCHANGED entry,
           todo' \in SUBSET todo
    PROVE  SwitchInv'
<1>1. SwitchTypeOK'
  BY HookForTyped DEF SwitchInv, SwitchTypeOK, entry
<1>2. MoverMoved'
  <2>1. w # mover
    BY DEF SwitchInv, MoverMoved, Idle
  <2>2. QED
    BY <2>1 DEF SwitchInv, SwitchTypeOK, MoverMoved, entry
<1>3. QED
  BY <1>1, <1>2 DEF SwitchInv

LEMMA MoveKeeps ==
    ASSUME SwitchInv, NEW w \in Workers, HookMovesDNS(w) PROVE SwitchInv'
<1>1. job[w] \in JobRec /\ job[w].node \in NodeIDs
  BY JobsAreRequests DEF SwitchInv, HookMovesDNS
<1>2. [job[w] EXCEPT !.phase = "moved"] \in JobRec
  BY <1>1 DEF JobRec
<1>3. job'[w] = [job[w] EXCEPT !.phase = "moved"] /\ job' \in [Workers -> JobRec \cup {Idle}]
  BY <1>2 DEF HookMovesDNS, SwitchInv, SwitchTypeOK
<1>4. SwitchTypeOK'
  BY <1>1, <1>3 DEF HookMovesDNS, SwitchInv, SwitchTypeOK
<1>5. job'[w].phase = "moved" /\ job'[w].node = job[w].node
  BY <1>1, <1>3 DEF JobRec
<1>6. MoverMoved'
  BY <1>5 DEF HookMovesDNS, MoverMoved
<1>7. QED
  BY <1>4, <1>6 DEF SwitchInv

LEMMA OverKeeps ==
    ASSUME SwitchInv, NEW w \in Workers, RequestOver(w), UNCHANGED <<dns, todo>>
    PROVE  SwitchInv'
<1>1. SwitchTypeOK'
  BY DEF RequestOver, SwitchInv, SwitchTypeOK
<1>2. MoverMoved'
  BY LoopAssumption DEF RequestOver, SwitchInv, SwitchTypeOK, MoverMoved, Workers
<1>3. QED
  BY <1>1, <1>2 DEF SwitchInv

(* A client's pending recommendation is for one node, so a round serves a  *)
(* client at most once.                                                    *)
LEMMA ScanKeeps == ASSUME SwitchInv, LoopScan PROVE SwitchInv'
<1>1. Candidates \in SUBSET Candidate
  BY DEF Candidates
<1>2. \A j, k \in Candidates : j.client = k.client => j = k
  BY DEF Candidates, Candidate
<1>3. QED
  BY <1>1, <1>2 DEF LoopScan, SwitchInv, SwitchTypeOK, MoverMoved, entry

LEMMA LoopIsWorker == Loop \in Workers
  BY DEF Workers

LEMMA SwitchStepKeeps == SwitchInv /\ [SwitchNext]_allVars => SwitchInv'
<1>1. SUFFICES ASSUME SwitchInv, [SwitchNext]_allVars PROVE SwitchInv'
  OBVIOUS
<1>2. CASE StoreStep
  BY <1>1, <1>2, StoreStepKeepsRequests DEF StoreStep
<1>3. ASSUME NEW w \in Admins, AdminRequest(w) PROVE SwitchInv'
  <2>1. PICK n \in NodeIDs, c \in ClientIDs \cup {NoClient} : StartHook(w, c, n)
    BY <1>3 DEF AdminRequest
  <2>2. w \in Workers
    BY DEF Workers
  <2>3. QED
    BY <1>1, <2>1, <2>2, StartKeeps DEF StartHook
<1>4. CASE LoopScan
  BY <1>1, <1>4, ScanKeeps
<1>5. CASE LoopServe
  <2>1. PICK k \in todo : LoopNext(k)
    BY <1>5 DEF LoopServe
  <2>2. k.client \in ClientIDs /\ k.node \in NodeIDs
    BY <1>1 DEF SwitchInv, SwitchTypeOK, Candidate
  <2>3. CASE MayUpdateDNS(k.client, k.node)
    BY <1>1, <2>1, <2>2, <2>3, LoopIsWorker, StartKeeps DEF LoopNext
  <2>4. CASE ~MayUpdateDNS(k.client, k.node)
    BY <1>1, <2>1, <2>4 DEF LoopNext, SwitchInv, SwitchTypeOK, MoverMoved, entry
  <2>5. QED
    BY <2>3, <2>4
<1>6. ASSUME NEW w \in Workers, HookStep(w) PROVE SwitchInv'
  BY <1>1, <1>6, MoveKeeps, OverKeeps
     DEF HookStep, HookFails, SwitchTarget, TestDone
<1>7. CASE UNCHANGED allVars
  BY <1>1, <1>7, StoreStepKeepsRequests DEF allVars
<1>8. QED
  BY <1>1, <1>2, <1>3, <1>4, <1>5, <1>6, <1>7 DEF SwitchNext

LEMMA SwitchInitInv == SwitchInit => SwitchInv
  BY LoopAssumption DEF SwitchInit, SwitchInv, SwitchTypeOK, MoverMoved, Workers

LEMMA AlwaysSwitchInv == SwitchSpec => []SwitchInv
  BY SwitchInitInv, SwitchStepKeeps, PTL DEF SwitchSpec

(* Types of the requests and of the loop's list, for any number of both.   *)
THEOREM SwitchTypeCorrect == SwitchSpec => []SwitchTypeOK
  BY AlwaysSwitchInv, PTL DEF SwitchInv

-----------------------------------------------------------------------------
(* The store underneath *)

(* What the end of a request does to the store: it sets the target, as an  *)
(* administrator's post without a hook would, or leaves everything alone.  *)
LEMMA SwitchTargetsStore ==
    ASSUME SwitchInv, TypeOK, NEW w \in Workers, SwitchTarget(w)
    PROVE  \/ SetClientTarget(job[w].client, job[w].node)
           \/ UNCHANGED vars
<1>1. job[w].client \in ClientIDs /\ job[w].node \in NodeIDs
  BY JobsAreRequests DEF SwitchInv, SwitchTarget
<1>2. CASE clients[job[w].client] # NoClient /\ IsOnline(nodes[job[w].node])
  BY <1>2 DEF SwitchTarget, Switched, SetClientTarget
<1>3. CASE ~(clients[job[w].client] # NoClient /\ IsOnline(nodes[job[w].node]))
  BY <1>3 DEF SwitchTarget, Switched, vars
<1>4. QED
  BY <1>2, <1>3

LEMMA SwitchStepIsStoreStep ==
    ASSUME SwitchInv, TypeOK, [SwitchNext]_allVars
    PROVE  [Next]_vars
<1>1. CASE StoreStep
  BY <1>1 DEF StoreStep, Next, AdminStep
<1>2. ASSUME NEW w \in Workers, SwitchTarget(w) PROVE [Next]_vars
  <2>1. job[w].client \in ClientIDs /\ job[w].node \in NodeIDs
    BY <1>2, JobsAreRequests DEF SwitchInv, SwitchTarget
  <2>2. QED
    BY <1>2, <2>1, SwitchTargetsStore DEF Next, AdminStep
<1>3. CASE UNCHANGED vars
  BY <1>3
<1>4. QED
  BY <1>1, <1>2, <1>3
     DEF SwitchNext, AdminRequest, StartHook, LoopScan, LoopServe, LoopNext, HookStep,
         HookMovesDNS, HookFails, TestDone, allVars

(* The requests, their hooks and the auto-switch loop do to the store what *)
(* its own handlers may do, so that everything that is proved about a      *)
(* store holds of it with them running beside it.                          *)
THEOREM SwitchImplementsStore == SwitchSpec => Spec
<1>1. SwitchInit => Init
  BY DEF SwitchInit
<1>2. Inv => TypeOK
  BY DEF Inv
<1>3. Inv /\ [Next]_vars => Inv'
  BY StepKeepsInv
<1>4. SwitchInv /\ TypeOK /\ [SwitchNext]_allVars => [Next]_vars
  BY SwitchStepIsStoreStep
<1>5. SwitchInit => Inv
  BY <1>1, InitInv
<1>6. SwitchSpec => []Inv
  BY <1>2, <1>3, <1>4, <1>5, AlwaysSwitchInv, PTL DEF SwitchSpec
<1>7. QED
  BY <1>1, <1>2, <1>4, <1>6, AlwaysSwitchInv, PTL DEF SwitchSpec, Spec

-----------------------------------------------------------------------------
(* Who writes a manual target *)

(* No handler that settles makes a client's target a manual one. *)
LEMMA SettlingTargetsNobody ==
    ASSUME Inv, Settling, NEW c \in ClientIDs, NEW n \in NodeIDs, Targeted(c, n)'
    PROVE  Targeted(c, n)
<1>1. PICK ns \in NodeMap, cs \in ClientMap, ps \in ProxyMap :
         Settle(ns, cs, ps) /\ Continues(ns, cs)
  BY SettlingSettles DEF Settled
<1>2. clients'[c] # NoClient /\ clients'[c].state = "manual" /\ clients'[c].preferred = n
  BY DEF Targeted
<1>3. \A k \in ClientIDs : clients'[k] = NoClient <=> cs[k] = NoClient
  BY <1>1, SettleKeeps
<1>4. cs[c] # NoClient
  BY <1>2, <1>3
<1>5. \/ clients'[c].preferred = cs[c].preferred /\ clients'[c].state = cs[c].state
      \/ clients'[c].preferred = None /\ clients'[c].state = ""
      \/ clients'[c].state = "pending"
  BY <1>1, <1>4, SettleKeeps
<1>6. cs[c].preferred = n /\ cs[c].state = "manual"
  BY <1>2, <1>5
<1>7. clients[c] # NoClient
  BY <1>1, <1>4, <1>6 DEF Continues
<1>8. clients[c].preferred = n /\ clients[c].state = "manual"
  BY <1>1, <1>6, <1>7 DEF Continues
<1>9. QED
  BY <1>7, <1>8 DEF Targeted

LEMMA StoreStepTargetsNobody ==
    ASSUME Inv, StoreStep, NEW c \in ClientIDs, NEW n \in NodeIDs, Targeted(c, n)'
    PROVE  Targeted(c, n)
<1>1. CASE Settling
  BY <1>1, SettlingTargetsNobody
<1>2. CASE UNCHANGED clients
  BY <1>2 DEF Targeted
<1>3. ASSUME NEW d \in ClientIDs, ClearClientTarget(d) PROVE Targeted(c, n)
  <2>1. clients[d] \in ClientRec
    BY <1>3, TypesOfInv DEF ClearClientTarget, ClientMap
  <2>2. clients'[d].state = "" /\ \A e \in ClientIDs : e # d => clients'[e] = clients[e]
    BY <1>3, <2>1, TypesOfInv DEF ClearClientTarget, ClientMap, ClientRec
  <2>3. QED
    BY <2>2 DEF Targeted
<1>4. QED
  BY <1>1, <1>2, <1>3, JoinKeepsInv, TickKeepsInv DEF StoreStep, Settling, UpdateConfig

(* A target is new only by the end of a request, whose hook is done. *)
LEMMA OnlySwitchesTarget ==
    ASSUME Inv, SwitchInv, [SwitchNext]_allVars, NEW c \in ClientIDs, NEW n \in NodeIDs,
           Targeted(c, n)', ~Targeted(c, n)
    PROVE  \E w \in Workers : HookDone(w, c, n) /\ (mover = w => dns = n)
<1>1. ~StoreStep /\ ~UNCHANGED clients
  BY StoreStepTargetsNobody DEF Targeted
<1>2. PICK w \in Workers : SwitchTarget(w)
  BY <1>1 DEF SwitchNext, AdminRequest, StartHook, LoopScan, LoopServe, LoopNext, HookStep,
              HookMovesDNS, HookFails, TestDone, allVars, vars
<1>3. job[w] \in JobRec /\ job[w].client \in ClientIDs /\ job[w].phase = "moved"
  BY <1>2, JobsAreRequests DEF SwitchInv, SwitchTarget
<1>4. SetClientTarget(job[w].client, job[w].node)
  BY <1>1, <1>2, SwitchTargetsStore DEF Inv, vars
<1>5. clients \in [ClientIDs -> ClientRec \cup {NoClient}]
  BY DEF Inv, TypeOK
<1>6. c = job[w].client
  BY <1>4, <1>5 DEF SetClientTarget, Targeted
<1>7. clients[c] \in ClientRec
  BY <1>4, <1>5, <1>6 DEF SetClientTarget
<1>8. clients'[c].preferred = job[w].node
  BY <1>4, <1>5, <1>6, <1>7 DEF SetClientTarget, ClientRec
<1>9. n = job[w].node
  BY <1>8 DEF Targeted
<1>10. HookDone(w, c, n)
  BY <1>3, <1>6, <1>9 DEF HookDone, JobRec
<1>11. mover = w => dns = n
  BY <1>9 DEF SwitchInv, MoverMoved
<1>12. QED
  BY <1>10, <1>11

LEMMA AlwaysStoreInv == SwitchSpec => []Inv
  BY SwitchImplementsStore, AlwaysInv, PTL

(* A target is written only after this request's hook has moved the DNS    *)
(* entry, and where it points unless another request has moved it since    *)
(* (handleClientAction of api.go, runAutoSwitch of main.go).               *)
THEOREM SwitchedWherePointed == SwitchSpec => SwitchedWhereDNSPoints
<1>1. Inv /\ SwitchInv /\ [SwitchNext]_allVars =>
        [\A c \in ClientIDs, n \in NodeIDs :
           Targeted(c, n)' /\ ~Targeted(c, n)
             => \E w \in Workers : HookDone(w, c, n) /\ (mover = w => dns = n)]_allVars
  BY OnlySwitchesTarget
<1>2. QED
  BY <1>1, AlwaysStoreInv, AlwaysSwitchInv, PTL DEF SwitchSpec, SwitchedWhereDNSPoints

(* A client on a live node is given another one only by a request for this *)
(* client and node whose hook has succeeded: no handler, recommendation or *)
(* heartbeat does it, and no request for anybody else.                     *)
THEOREM OnlyRequestsMoveClients == SwitchSpec => OnlyRequestsMove
<1>1. ASSUME Inv, Inv', SwitchInv, [SwitchNext]_allVars, NEW c \in ClientIDs, NEW n \in NodeIDs,
             clients[c] # NoClient, n # clients[c].node, clients'[c].node = clients[c].node,
             IsOnline(nodes'[clients[c].node]), ~Targeted(c, n),
             Served(nodes', clients'[c]) = n
      PROVE  \E w \in Workers : HookDone(w, c, n)
  <2>1. clients[c].node \in NodeIDs
    BY <1>1, TypesOfInv DEF ClientMap, ClientRec
  <2>2. [Next]_vars
    BY <1>1, SwitchStepIsStoreStep DEF Inv
  <2>3. clients'[c] # NoClient
    BY <1>1, <2>2, ClientsGoOn DEF vars
  <2>4. clients'[c].node \in OnlineIDs(nodes')
    BY <1>1, <2>1 DEF OnlineIDs
  <2>5. clients'[c].state = "manual" /\ clients'[c].preferred = n
    BY <1>1, <2>3, <2>4, ServedWhereItIs
  <2>6. Targeted(c, n)'
    BY <2>3, <2>5 DEF Targeted
  <2>7. QED
    BY <1>1, <2>6, OnlySwitchesTarget
<1>2. Inv /\ Inv' /\ SwitchInv /\ [SwitchNext]_allVars =>
        [\A c \in ClientIDs, n \in NodeIDs :
          /\ clients[c] # NoClient
          /\ n # clients[c].node /\ clients'[c].node = clients[c].node
          /\ IsOnline(nodes'[clients[c].node])
          /\ ~Targeted(c, n) /\ Served(nodes', clients'[c]) = n
          => \E w \in Workers : HookDone(w, c, n)]_allVars
  BY <1>1
<1>3. QED
  BY <1>2, AlwaysStoreInv, AlwaysSwitchInv, PTL DEF SwitchSpec, OnlyRequestsMove

(* Among them, whatever requests, hooks and the auto-switch loop do: the   *)
(* counts nodes are ranked by are right, nothing is online on a node that  *)
(* has left, nobody is moved but for a manual target or his own report,    *)
(* and a client whose node went silent is given a target.                  *)
COROLLARY SwitchedStoreIsSound ==
    SwitchSpec => []CountsSound /\ []LeftNodeIsEmpty /\ StaysWherePut /\ StrandedIsRecommended
  BY SwitchImplementsStore, CountsAreSound, LeftNodesAreEmpty, StaysPut, StrandedAreRecommended,
     PTL
===============================================================================
