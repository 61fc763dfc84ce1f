----------------------------- MODULE ControlStore -----------------------------
(***************************************************************************)
(* One control plane's nodes, clients, proxies and recommendations         *)
(* (service.go over the store of store.go).  Every handler holds the       *)
(* store's mutex from its lookup to its save: one action each, with the    *)
(* recount and the recommendations it ends with.                           *)
(*                                                                         *)
(* The code keeps instants and compares them with time.Now; here a record  *)
(* keeps its age in ticks, counted up to one past the limit it is compared *)
(* with, so that the model needs no bound on time.                         *)
(*                                                                         *)
(* A join's token is Membership's subject: any join may come here.         *)
(***************************************************************************)
EXTENDS Scheduler, FiniteSets

CONSTANTS
    NodeIDs,      \* ids of proxy nodes, ordered as their names are
    ClientIDs,    \* frpc clients
    Links,        \* networks the agents measure
    Gaps,         \* migration score gaps an administrator asks for
    AutoAtStart,  \* what AutoMigration may be in the loaded state
    OnlineFor,    \* ticks a node counts as online after it was seen (90 s)
    FreshFor,     \* ticks a measurement counts as fresh (2 min)
    NoNode,       \* absent key of state.Nodes
    NoClient      \* absent key of state.Clients

ASSUME NodeIDsAssumption == NodeIDs \subseteq Nat \ {0} /\ IsFiniteSet(NodeIDs)
ASSUME ClientIDsAssumption == IsFiniteSet(ClientIDs)
ASSUME LinksAssumption == Links \subseteq Network
ASSUME ConfigAssumption ==
    Gaps \subseteq Int /\ AutoAtStart \subseteq BOOLEAN
ASSUME AgesAssumption == OnlineFor \in Nat /\ FreshFor \in Nat

(* The empty node id. *)
None == 0

NodeRec ==
    [status : {"online", "offline"}, seen : 0..(OnlineFor + 1),
     network : Links \cup {NoNetwork}, measured : 0..(FreshFor + 1),
     clientCount : Nat, proxyCount : Nat]
ClientRec ==
    [node : NodeIDs, status : {"online", "offline"}, preferred : NodeIDs \cup {None},
     state : {"", "pending", "manual"}, proxyCount : Nat]
ProxyStatus == {"absent", "online", "closed"}

ASSUME AbsentAssumption == NoNode \notin NodeRec /\ NoClient \notin ClientRec

VARIABLES
    nodes,     \* state.Nodes
    clients,   \* state.Clients
    proxies,   \* proxies[n][c]: status of client c's proxy on node n
    config     \* state.Config: AutoMigration and MigrationScoreGap

vars == <<nodes, clients, proxies, config>>

-----------------------------------------------------------------------------
(* The scheduler's view of the store *)

IsOnline(node) == node # NoNode /\ node.status = "online" /\ node.seen <= OnlineFor

OnlineIDs(ns) == {n \in NodeIDs : IsOnline(ns[n])}

(* onlineNodesLocked refreshes the score before it ranks the nodes. *)
View(n, node) ==
    [id |-> n, score |-> Score(node.network, node.measured > FreshFor),
     clientCount |-> node.clientCount, proxyCount |-> node.proxyCount,
     latency |-> node.network.latency, bandwidth |-> EffectiveBandwidth(node.network)]

Online(ns) == {View(n, ns[n]) : n \in OnlineIDs(ns)}

CountClients(cs, n) ==
    Cardinality({c \in ClientIDs : cs[c] # NoClient /\ cs[c].status = "online" /\ cs[c].node = n})

CountProxies(ps, n) == Cardinality({c \in ClientIDs : ps[n][c] = "online"})

(* Mutant of RecountNodes: counts are only raised. *)
RecountNodesUpward(ns, cs, ps) ==
    [n \in NodeIDs |->
       IF ns[n] = NoNode \/ CountClients(cs, n) = 0 THEN ns[n]
       ELSE [ns[n] EXCEPT !.clientCount = CountClients(cs, n),
                          !.proxyCount = CountProxies(ps, n)]]

(* recomputeNodeCountsLocked *)
RecountNodes(ns, cs, ps) ==
    [n \in NodeIDs |->
       IF ns[n] = NoNode THEN NoNode
       ELSE [ns[n] EXCEPT !.clientCount = CountClients(cs, n),
                          !.proxyCount = CountProxies(ps, n)]]

RecountClients(cs, ps) ==
    [c \in ClientIDs |->
       IF cs[c] = NoClient THEN NoClient
       ELSE [cs[c] EXCEPT !.proxyCount = Cardinality({n \in NodeIDs : ps[n][c] = "online"})]]

(* Mutant of Recommend: AutoMigration is not asked. *)
RecommendAlways(ns, cs, cfg) ==
    LET online == Online(ns) IN
    [c \in ClientIDs |->
       IF cs[c] = NoClient \/ online = {} THEN cs[c]
       ELSE IF cs[c].status # "online" THEN cs[c]
       ELSE IF ShouldMigrate(online, cs[c].node, cfg.gap)
            THEN [cs[c] EXCEPT !.preferred = Best(online).id, !.state = "pending"]
       ELSE [cs[c] EXCEPT !.preferred = None, !.state = ""]]

(* applyMigrationRecommendationsLocked: every online client is given a     *)
(* pending target or has its target cleared, a manual one included.        *)
Recommend(ns, cs, cfg) ==
    LET online == Online(ns) IN
    [c \in ClientIDs |->
       IF cs[c] = NoClient \/ online = {} \/ ~cfg.auto THEN cs[c]
       ELSE IF cs[c].status # "online" THEN cs[c]
       ELSE IF ShouldMigrate(online, cs[c].node, cfg.gap)
            THEN [cs[c] EXCEPT !.preferred = Best(online).id, !.state = "pending"]
       ELSE [cs[c] EXCEPT !.preferred = None, !.state = ""]]

(* How the handlers that touch nodes or clients end. *)
Settle(ns, cs, ps) ==
    LET counted == RecountNodes(ns, cs, ps)
    IN  /\ nodes' = counted
        /\ clients' = Recommend(counted, RecountClients(cs, ps), config)
        /\ proxies' = ps
        /\ UNCHANGED config

(* selectNodesForClient in single mode: the node of the configuration a    *)
(* client is given, None when no node is available.                        *)
Served(ns, client) ==
    LET ids == OnlineIDs(ns)
        kept == IF client = NoClient THEN None
                ELSE Pinned(ids, client.preferred, client.state, client.node)
    IN  IF ids = {} THEN None
        ELSE IF kept # None THEN kept
        ELSE Best(Online(ns)).id

-----------------------------------------------------------------------------
(* The handlers *)

(* JoinNode: a new record keeps the counts of the one it replaces. *)
JoinNode(n) ==
    /\ nodes' = [nodes EXCEPT ![n] =
                   [status |-> "online", seen |-> 0, network |-> NoNetwork, measured |-> 0,
                    clientCount |-> IF @ = NoNode THEN 0 ELSE @.clientCount,
                    proxyCount |-> IF @ = NoNode THEN 0 ELSE @.proxyCount]]
    /\ UNCHANGED <<clients, proxies, config>>

(* Mutant of SeenBy: a plugin event does not mark the node online. *)
SeenByNobody(n) == nodes

Seen(node) == [node EXCEPT !.status = "online", !.seen = 0]

(* HeartbeatNodeWithRequest with a measurement, or with none, which keeps  *)
(* the previous one and its age.                                           *)
HeartbeatNode(n, network) ==
    /\ nodes[n] # NoNode
    /\ LET measured == [Seen(nodes[n]) EXCEPT !.network = network, !.measured = 0]
           node == IF HasMeasurement(network) THEN measured ELSE Seen(nodes[n])
       IN  Settle([nodes EXCEPT ![n] = node], clients, proxies)

(* Mutant of LeaveNode: the node's proxies are left online. *)
LeaveNodeKeepsProxies(n) ==
    /\ nodes[n] # NoNode
    /\ Settle([nodes EXCEPT ![n].status = "offline", ![n].seen = 0],
              [c \in ClientIDs |->
                 IF clients[c] # NoClient /\ clients[c].node = n
                 THEN [clients[c] EXCEPT !.status = "offline"] ELSE clients[c]],
              proxies)

(* leaveNode, with the node's token or by the administrator: the node's    *)
(* clients go offline and its proxies are closed.                          *)
LeaveNode(n) ==
    /\ nodes[n] # NoNode
    /\ Settle([nodes EXCEPT ![n].status = "offline", ![n].seen = 0],
              [c \in ClientIDs |->
                 IF clients[c] # NoClient /\ clients[c].node = n
                 THEN [clients[c] EXCEPT !.status = "offline"] ELSE clients[c]],
              [proxies EXCEPT ![n] = [c \in ClientIDs |->
                 IF @[c] = "absent" THEN "absent" ELSE "closed"]])

(* ApplyPluginEvent of node n, known or not, about client c. *)
SeenBy(n) ==
    [k \in NodeIDs |-> IF k = n /\ nodes[k] # NoNode THEN Seen(nodes[k]) ELSE nodes[k]]

(* upsertClientLocked: the client is now on node n; its target stays. *)
Upserted(c, n) ==
    [clients EXCEPT ![c] =
       IF @ = NoClient
       THEN [node |-> n, status |-> "online", preferred |-> None, state |-> "",
             proxyCount |-> 0]
       ELSE [@ EXCEPT !.node = n, !.status = "online"]]

(* login and ping *)
PluginPing(n, c) == Settle(SeenBy(n), Upserted(c, n), proxies)

PluginNewProxy(n, c) == Settle(SeenBy(n), Upserted(c, n), [proxies EXCEPT ![n][c] = "online"])

PluginCloseProxy(n, c) ==
    Settle(SeenBy(n), clients,
           [proxies EXCEPT ![n][c] = IF @ = "absent" THEN "absent" ELSE "closed"])

(* logout: the client's proxies stay as they are. *)
PluginLogout(n, c) ==
    Settle(SeenBy(n),
           [clients EXCEPT ![c] = IF @ = NoClient THEN NoClient ELSE [@ EXCEPT !.status = "offline"]],
           proxies)

(* Any other operation of the frps plugin. *)
PluginOther(n) == Settle(SeenBy(n), clients, proxies)

(* SetClientTarget with a node, which has to be online. *)
SetClientTarget(c, n) ==
    /\ clients[c] # NoClient
    /\ IsOnline(nodes[n])
    /\ clients' = [clients EXCEPT ![c].preferred = n, ![c].state = "manual"]
    /\ UNCHANGED <<nodes, proxies, config>>

(* SetClientTarget with the empty node id. *)
ClearClientTarget(c) ==
    /\ clients[c] # NoClient
    /\ clients' = [clients EXCEPT ![c].preferred = None, ![c].state = ""]
    /\ UNCHANGED <<nodes, proxies, config>>

(* Mutant of UpdateConfig: a negative gap is accepted. *)
UpdateConfigUnchecked(auto, gap) ==
    /\ config' = [auto |-> auto, gap |-> gap]
    /\ UNCHANGED <<nodes, clients, proxies>>

(* UpdateConfig: AutoMigration is set before a negative gap is refused. *)
UpdateConfig(auto, gap) ==
    /\ config' = [auto |-> auto, gap |-> IF gap < 0 THEN config.gap ELSE gap]
    /\ UNCHANGED <<nodes, clients, proxies>>

Older(age, limit) == IF age > limit THEN age ELSE age + 1

(* Time passes for every record. *)
Tick ==
    /\ nodes' = [n \in NodeIDs |->
                   IF nodes[n] = NoNode THEN NoNode
                   ELSE [nodes[n] EXCEPT
                           !.seen = Older(@, OnlineFor),
                           !.measured = IF HasMeasurement(nodes[n].network)
                                        THEN Older(@, FreshFor) ELSE 0]]
    /\ UNCHANGED <<clients, proxies, config>>

-----------------------------------------------------------------------------
Init ==
    /\ nodes = [n \in NodeIDs |-> NoNode]
    /\ clients = [c \in ClientIDs |-> NoClient]
    /\ proxies = [n \in NodeIDs |-> [c \in ClientIDs |-> "absent"]]
    /\ config \in [auto : AutoAtStart, gap : {15}]

Heartbeats == \E n \in NodeIDs, network \in Links \cup {NoNetwork} : HeartbeatNode(n, network)

PluginEvent ==
    \E n \in NodeIDs :
        \/ PluginOther(n)
        \/ \E c \in ClientIDs :
             \/ PluginPing(n, c)
             \/ PluginNewProxy(n, c)
             \/ PluginCloseProxy(n, c)
             \/ PluginLogout(n, c)

AdminStep ==
    \/ \E c \in ClientIDs :
         \/ \E n \in NodeIDs : SetClientTarget(c, n)
         \/ ClearClientTarget(c)
    \/ \E auto \in BOOLEAN, gap \in Gaps : UpdateConfig(auto, gap)

Next ==
    \/ \E n \in NodeIDs : JoinNode(n) \/ LeaveNode(n)
    \/ Heartbeats
    \/ PluginEvent
    \/ AdminStep
    \/ Tick

Spec == Init /\ [][Next]_vars

-----------------------------------------------------------------------------
(* Properties *)

(* The store's maps and configuration have the shape the code gives them.  *)
TypeOK ==
    /\ nodes \in [NodeIDs -> NodeRec \cup {NoNode}]
    /\ clients \in [ClientIDs -> ClientRec \cup {NoClient}]
    /\ proxies \in [NodeIDs -> [ClientIDs -> ProxyStatus]]
    /\ config \in [auto : BOOLEAN, gap : Nat]

(* The counts nodes are ranked by are those of their online clients and    *)
(* proxies, or still 0 on a node that joined under clients already here    *)
(* (JoinNode does not recount).  No handler leaves a count behind.         *)
CountsSound ==
    \A n \in NodeIDs :
        nodes[n] # NoNode =>
            /\ nodes[n].clientCount \in {0, CountClients(clients, n)}
            /\ nodes[n].proxyCount \in {0, CountProxies(proxies, n)}

(* README: after a node leaves, its clients and proxies are offline.  As   *)
(* long as its record says offline nothing is online on it, whatever frps  *)
(* plugin events come late.                                                *)
LeftNodeIsEmpty ==
    \A n \in NodeIDs :
        nodes[n] # NoNode /\ nodes[n].status = "offline"
            => CountClients(clients, n) = 0 /\ CountProxies(proxies, n) = 0

(* The node a known client is served changes, while the old one is online, *)
(* only because of a manual target that was set or given up, or because    *)
(* the client reported from the new node, or from one the store does not   *)
(* know.  A better node that appears, and a recommendation, move nobody    *)
(* (service_test.go: FailoverSticksToCurrentClientNodeUntilManualSwitch).  *)
StaysWherePut ==
    [][\A c \in ClientIDs :
          LET old == Served(nodes, clients[c])
              new == Served(nodes', clients'[c])
          IN  /\ clients[c] # NoClient
              /\ old # None /\ new # old
              /\ IsOnline(nodes[clients[c].node]) /\ IsOnline(nodes'[old])
              => \/ clients'[c].state = "manual" /\ clients'[c].preferred = new
                 \/ clients[c].state = "manual" /\ clients[c].preferred = old
                 \/ clients'[c].node = new
                 \/ nodes'[clients'[c].node] = NoNode]_vars

(* The auto-switch loop would switch the client, and the DNS entry, to     *)
(* where the client already is.                                            *)
Misdirected(c) ==
    /\ clients[c] # NoClient
    /\ config.auto /\ clients[c].state = "pending"
    /\ clients[c].preferred \in {None, clients[c].node}

(* A pending target that the auto-switch loop serves is another node than  *)
(* the one its client is on, also when the client moves onto it and when   *)
(* no node is online to recommend anything.  The one exception is a        *)
(* recommendation made before AutoMigration was switched off: switching it *)
(* on again serves it as it stands, and the next heartbeat puts it right   *)
(* if the client is online.                                                *)
PendingTargetIsElsewhere ==
    [][\A c \in ClientIDs :
          Misdirected(c)'
            => \/ ~config.auto /\ config'.auto
               \/ Misdirected(c) /\ (Heartbeats => clients'[c].status = "offline")]_vars

Targeted(c, n) ==
    clients[c] # NoClient /\ clients[c].state = "manual" /\ clients[c].preferred = n

(* A step keeps every client's manual target served. *)
KeepsTargets ==
    \A c \in ClientIDs, n \in NodeIDs :
        Targeted(c, n) /\ IsOnline(nodes'[n]) => Served(nodes', clients'[c]) = n

(* With AutoMigration off, nothing but the administrator takes a client    *)
(* from the node he has chosen while the node is online: no ping from      *)
(* elsewhere, no heartbeat, no node that leaves and comes back.            *)
ManualTargetHolds == [][~AdminStep /\ ~config.auto => KeepsTargets]_vars

(* docs/proxy-cluster-deployment.md: once the administrator has chosen a   *)
(* node, the client is served that node, at the latest 30 seconds later.   *)
(* Nothing but the administrator changes it while the node is online.      *)
ManualTargetSticks == [][~AdminStep => KeepsTargets]_vars

Stranded(c) ==
    /\ clients[c] # NoClient
    /\ clients[c].status = "online"
    /\ nodes[clients[c].node] # NoNode
    /\ ~IsOnline(nodes[clients[c].node])
    /\ config.auto

Advised(c) == clients[c].state = "pending" /\ IsOnline(nodes[clients[c].preferred])

(* An online client whose node went silent does not stay there unnoticed:  *)
(* after the next heartbeat of any node, whatever the store looked like    *)
(* before, it has a target that an auto-switch would take it to.           *)
StrandedIsRecommended ==
    [][\A c \in ClientIDs : Stranded(c)' => Advised(c)' \/ ~Heartbeats]_vars
===============================================================================
