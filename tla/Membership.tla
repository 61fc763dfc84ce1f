------------------------------ MODULE Membership ------------------------------
(***************************************************************************)
(* Join tokens and node records, replicated between control planes.        *)
(*                                                                         *)
(* Every control plane ("replica") keeps a full copy of the cluster state  *)
(* (store.go).  This module keeps the two maps that decide who belongs to  *)
(* the cluster: state.Tokens and state.Nodes.  The handlers that write     *)
(* them (token.go, service.go) run under the store's mutex, one action     *)
(* each.  Between replicas runs the sync loop of cmd/frp-cluster/main.go:  *)
(* GET the peer's state, merge it, read the own state, POST it to the      *)
(* peer.  Replies and posts travel on `wire`; they can be lost, overtake   *)
(* each other and arrive after the sender gave up waiting.                 *)
(*                                                                         *)
(* What the same handlers do to clients, proxies and recommendations is in *)
(* ControlStore; it never reads or writes the state kept here except a     *)
(* node's status.                                                          *)
(*                                                                         *)
(* Time: every handler takes a fresh instant of the global `clock`         *)
(* (time.Now in nanoseconds: no two handlers share one), and replicas'     *)
(* clocks are taken to agree.  It does so before it locks the mutex: a     *)
(* request that has to wait keeps its instant (`waiting`) while others,    *)
(* with later instants, are served before it.                              *)
(***************************************************************************)
EXTENDS Integers, FiniteSets

CONSTANTS
    Replicas,     \* control planes
    NodeIDs,      \* frps proxy nodes
    TokenIDs,     \* join token values, each drawn at most once
    Peers,        \* Peers[r]: the replicas r's sync loop polls (config.PeerURLs)
    UsesAsked,    \* the "uses" an administrator asks a token for
    TTLs,         \* lifetimes a token may be given, in instants
    NoToken,      \* absent key of state.Tokens
    NoNode,       \* absent key of state.Nodes
    MaxClock,     \* bound: instants in a behaviour
    MaxWaiting,   \* bound: requests waiting for a mutex at once
    MaxPosts      \* bound: POSTs in flight at once

Instant == Nat

(* A JoinToken: UsedBy is a list in the code, with repetitions when a node *)
(* joins twice; only its length and its set of members are ever read.      *)
TokenRec ==
    [usesLeft : Nat, used : SUBSET NodeIDs, usedLen : Nat, expiresAt : Instant]

(* A ServerNode.  A node token is identified by the instant it was drawn,  *)
(* the empty string by 0.                                                  *)
NodeRec ==
    [status : {"online", "offline"}, nodeToken : Nat, lastSeen : Instant,
     updatedAt : Instant]

ASSUME ReplicasAssumption == IsFiniteSet(Replicas)
ASSUME NodeIDsAssumption == IsFiniteSet(NodeIDs)
ASSUME PeersAssumption == Peers \in [Replicas -> SUBSET Replicas]
ASSUME BoundsAssumption ==
    /\ UsesAsked \subseteq Int
    /\ TTLs \subseteq Nat \ {0}
    /\ MaxClock \in Nat
    /\ MaxWaiting \in Nat
    /\ MaxPosts \in Nat
ASSUME AbsentAssumption == NoToken \notin TokenRec /\ NoNode \notin NodeRec

TokenMap == [TokenIDs -> TokenRec \cup {NoToken}]
NodeMap == [NodeIDs -> NodeRec \cup {NoNode}]

VARIABLES
    clock,       \* the current instant
    tokens,      \* tokens[r]: state.Tokens of replica r
    nodes,       \* nodes[r]: state.Nodes of replica r
    waiting,     \* requests that have their instant and wait for the mutex
    loop,        \* loop[r]: where r's peer-sync loop stands
    wire,        \* GET replies and POST bodies in flight
    env,         \* env[n]: NODE_TOKEN in node n's env file, 0 if none
    agent,       \* agent[n]: the token n's running agent was started with
    minted,      \* history: uses and expiry each token was created with
    admissions   \* history: accepted joins

vars == <<clock, tokens, nodes, waiting, loop, wire, env, agent, minted, admissions>>
stores == <<tokens, nodes>>
syncing == <<loop, wire>>
agents == <<env, agent>>
history == <<minted, admissions>>

Message ==
    [kind : {"reply", "post"}, src : Replicas, dst : Replicas,
     tokens : TokenMap, nodes : NodeMap]

(* A request about a node, with the instant its handler has taken.         *)
Request ==
    {q \in [call : {"join", "heartbeat", "leave", "adminLeave", "plugin"},
            replica : Replicas, node : NodeIDs, token : TokenIDs \cup {NoToken},
            credential : Nat, at : Instant] :
       q.call = "join" => q.token \in TokenIDs}

(* An accepted join; late if its token had expired by the time it was      *)
(* spent.                                                                  *)
Admission ==
    [replica : Replicas, token : TokenIDs, node : NodeIDs, at : Instant,
     late : BOOLEAN]

Idle(r) == [phase |-> "idle", peer |-> r]

now == clock + 1
Stamp == clock < MaxClock /\ clock' = now

-----------------------------------------------------------------------------
(* token.go *)

EffectiveUses(asked) == IF asked <= 0 THEN 1 ELSE asked

(* A call that waits for the mutex is one that asks for a shorter life.    *)
CreateJoinToken(r, t, asked, ttl) ==
    /\ minted[t] = NoToken
    /\ Stamp
    /\ LET token == [usesLeft |-> EffectiveUses(asked), used |-> {}, usedLen |-> 0,
                     expiresAt |-> now + ttl]
       IN  /\ tokens' = [tokens EXCEPT ![r][t] = token]
           /\ minted' = [minted EXCEPT ![t] = token]
    /\ UNCHANGED <<nodes, waiting, syncing, agents, admissions>>

Expired(token, at) == ~(at < token.expiresAt)

(* consumeJoinTokenLocked, when it accepts. *)
Spend(token, n) ==
    [token EXCEPT !.usesLeft = @ - 1, !.used = @ \cup {n}, !.usedLen = @ + 1]

(* consumeJoinTokenLocked on an expired token: the key is deleted and the  *)
(* join refused.                                                           *)
JoinExpired(r, t) ==
    /\ tokens[r][t] # NoToken
    /\ Expired(tokens[r][t], clock)
    /\ tokens' = [tokens EXCEPT ![r][t] = NoToken]
    /\ UNCHANGED <<clock, nodes, waiting, syncing, agents, history>>

-----------------------------------------------------------------------------
(* service.go: the handlers of a node *)

(* What callers may ask of replica r at this moment: with a token that was *)
(* handed out, with the credential the node's agent runs with or, to       *)
(* leave, the one in its env file; the administrator and frps need none.   *)
Requests(r, n, at) ==
    LET Ask(call, token, credential) ==
          [call |-> call, replica |-> r, node |-> n, token |-> token,
           credential |-> credential, at |-> at]
    IN  {Ask("join", t, 0) : t \in {u \in TokenIDs : minted[u] # NoToken}}
          \cup {Ask("heartbeat", NoToken, c) : c \in {agent[n]} \ {0}}
          \cup {Ask("leave", NoToken, c) : c \in {agent[n], env[n]} \ {0}}
          \cup {Ask("adminLeave", NoToken, 0), Ask("plugin", NoToken, 0)}

(* The handlers' lookup of the node, then validateNodeToken. *)
Accepts(node, credential) ==
    node # NoNode /\ credential # 0 /\ node.nodeToken = credential

Spendable(token, at) ==
    token # NoToken /\ ~Expired(token, at) /\ token.usesLeft > 0

(* Mutant of Admitted: an exhausted token is not refused. *)
AdmittedUnchecked(q) ==
    LET node == nodes[q.replica][q.node]
    IN  \/ /\ q.call = "join" /\ tokens[q.replica][q.token] # NoToken
           /\ ~Expired(tokens[q.replica][q.token], q.at)
        \/ q.call \in {"heartbeat", "leave"} /\ Accepts(node, q.credential)
        \/ q.call \in {"adminLeave", "plugin"} /\ node # NoNode

(* What the handlers check once they hold the mutex. *)
Admitted(q) ==
    LET node == nodes[q.replica][q.node]
    IN  \/ q.call = "join" /\ Spendable(tokens[q.replica][q.token], q.at)
        \/ q.call \in {"heartbeat", "leave"} /\ Accepts(node, q.credential)
        \/ q.call \in {"adminLeave", "plugin"} /\ node # NoNode

Joined(at) ==
    [status |-> "online", nodeToken |-> at, lastSeen |-> at, updatedAt |-> at]

(* JoinNode.  The new node token reaches the node's env file only with the *)
(* response, which may be lost after the token was spent.                  *)
JoinNode(q, delivered) ==
    /\ q.call = "join"
    /\ tokens' = [tokens EXCEPT ![q.replica][q.token] = Spend(@, q.node)]
    /\ nodes' = [nodes EXCEPT ![q.replica][q.node] = Joined(q.at)]
    /\ env' = IF delivered THEN [env EXCEPT ![q.node] = q.at] ELSE env
    /\ admissions' = admissions \cup
          {[replica |-> q.replica, token |-> q.token, node |-> q.node, at |-> q.at,
            late |-> Expired(tokens[q.replica][q.token], clock')]}
    /\ UNCHANGED <<syncing, agent, minted>>

(* Mutant of Touched: UpdatedAt is forgotten. *)
TouchedUnstamped(node, status, at) ==
    [node EXCEPT !.status = status, !.lastSeen = at]

Touched(node, status, at) ==
    [node EXCEPT !.status = status, !.lastSeen = at, !.updatedAt = at]

(* The stamped write of the other handlers. *)
TouchNode(q, status) ==
    /\ nodes' = [nodes EXCEPT ![q.replica][q.node] = Touched(@, status, q.at)]
    /\ UNCHANGED <<tokens, syncing, agents, history>>

(* HeartbeatNodeWithRequest *)
HeartbeatNode(q) == q.call = "heartbeat" /\ TouchNode(q, "online")

(* LeaveNode: the agent's leave-on-exit or the leave script. *)
LeaveNode(q) == q.call = "leave" /\ TouchNode(q, "offline")

AdminLeaveNode(q) == q.call = "adminLeave" /\ TouchNode(q, "offline")

(* ApplyPluginEvent of a known node: any operation marks it online. *)
PluginContact(q) == q.call = "plugin" /\ TouchNode(q, "online")

(* One handler, from the lock to the unlock. *)
Handle(q) ==
    IF Admitted(q)
    THEN \/ \E delivered \in BOOLEAN : JoinNode(q, delivered)
         \/ HeartbeatNode(q)
         \/ LeaveNode(q)
         \/ AdminLeaveNode(q)
         \/ PluginContact(q)
    ELSE UNCHANGED <<stores, syncing, agents, history>>

(* A request takes its instant and finds the mutex free ... *)
ServeAtOnce(r, n) ==
    \E q \in Requests(r, n, now) :
        /\ Stamp
        /\ Handle(q)
        /\ UNCHANGED waiting

(* ... or others hold it, *)
Wait(r, n) ==
    \E q \in Requests(r, n, now) :
        /\ Cardinality(waiting) < MaxWaiting
        /\ Stamp
        /\ waiting' = waiting \cup {q}
        /\ UNCHANGED <<stores, syncing, agents, history>>

(* and, in whatever order the mutex is granted, its turn comes later. *)
ServeWaiting ==
    \E q \in waiting :
        /\ waiting' = waiting \ {q}
        /\ UNCHANGED clock
        /\ Handle(q)

(* A refused heartbeat ends runAgent; systemd starts the agent again with  *)
(* the token the env file then holds.                                      *)
HeartbeatRefused(r, n) ==
    /\ agent[n] # 0
    /\ ~Accepts(nodes[r][n], agent[n])
    /\ agent' = [agent EXCEPT ![n] = env[n]]
    /\ UNCHANGED <<clock, stores, waiting, syncing, env, history>>

(* The join script restarts the agent after it has rewritten the env file. *)
StartAgent(n) ==
    /\ agent[n] # env[n]
    /\ agent' = [agent EXCEPT ![n] = env[n]]
    /\ UNCHANGED <<clock, stores, waiting, syncing, env, history>>

-----------------------------------------------------------------------------
(* store.go: MergeState *)

(* Mutant of Adopts: the remote token is taken whenever it differs. *)
AdoptsDifferent(local, remote) == remote # local

(* Mutant of Adopts: equal expiry times suffice. *)
AdoptsSameExpiry(local, remote) ==
    \/ remote.usesLeft < local.usesLeft
    \/ remote.usedLen > local.usedLen
    \/ remote.expiresAt <= local.expiresAt

(* When an unexpired remote token replaces what the replica knows of it. *)
Adopts(local, remote) ==
    \/ remote.usesLeft < local.usesLeft
    \/ remote.usedLen > local.usedLen
    \/ remote.expiresAt < local.expiresAt

(* UsedBy becomes the union without repetitions (mergeStrings). *)
Adopted(local, remote) ==
    [usesLeft |-> remote.usesLeft,
     used |-> local.used \cup remote.used,
     usedLen |-> Cardinality(local.used \cup remote.used),
     expiresAt |-> remote.expiresAt]

MergeToken(local, remote, at) ==
    IF remote = NoToken THEN local
    ELSE IF Expired(remote, at) THEN local
    ELSE IF local = NoToken THEN remote
    ELSE IF Adopts(local, remote) THEN Adopted(local, remote)
    ELSE local

(* Mutant of Newer: any other version is taken for a newer one. *)
NewerIfDifferent(local, remote) == remote.updatedAt # local.updatedAt

Newer(local, remote) ==
    \/ remote.updatedAt > local.updatedAt
    \/ local.nodeToken = 0 /\ remote.nodeToken # 0

(* Mutant of MergeNode: known nodes are never updated. *)
MergeNodeOnlyNew(local, remote) == IF local = NoNode THEN remote ELSE local

MergeNode(local, remote) ==
    IF remote = NoNode THEN local
    ELSE IF local = NoNode THEN remote
    ELSE IF Newer(local, remote)
         THEN [remote EXCEPT !.nodeToken = IF @ = 0 THEN local.nodeToken ELSE @]
    ELSE local

(* The instant tokens are compared with is taken before the mutex as well, *)
(* after the message was sent, when no token in it had expired: `at` may   *)
(* be any instant, the lower ones standing for that one.                   *)
MergeState(m, at) ==
    /\ tokens' = [tokens EXCEPT ![m.dst] =
                    [t \in TokenIDs |-> MergeToken(@[t], m.tokens[t], at)]]
    /\ nodes' = [nodes EXCEPT ![m.dst] =
                    [n \in NodeIDs |-> MergeNode(@[n], m.nodes[n])]]

-----------------------------------------------------------------------------
(* cmd/frp-cluster/main.go: syncPeer, one peer after the other *)

(* The tokens that have expired when the state is read are left out: the   *)
(* merge, which begins later, ignores them.                                *)
Unexpired(token) ==
    IF token # NoToken /\ Expired(token, clock) THEN NoToken ELSE token

RawState(kind, src, dst) ==
    [kind |-> kind, src |-> src, dst |-> dst,
     tokens |-> [t \in TokenIDs |-> Unexpired(tokens[src][t])],
     nodes |-> nodes[src]]

(* The peer answers r's GET; the reply is on its way. *)
FetchState(r, p) ==
    /\ loop[r].phase = "idle"
    /\ loop' = [loop EXCEPT ![r] = [phase |-> "get", peer |-> p]]
    /\ wire' = wire \cup {RawState("reply", p, r)}
    /\ UNCHANGED <<clock, stores, waiting, agents, history>>

MergeFetched(r, p) ==
    \E m \in wire :
        /\ m.kind = "reply" /\ m.dst = r /\ m.src = p
        /\ \E at \in 0..clock : MergeState(m, at)
        /\ wire' = wire \ {m}
        /\ loop' = [loop EXCEPT ![r] = [phase |-> "post", peer |-> p]]
        /\ UNCHANGED <<clock, waiting, agents, history>>

(* RawState is read after MergeState has released the mutex, and posted. *)
PostState(r) ==
    /\ loop[r].phase = "post"
    /\ Cardinality({m \in wire : m.kind = "post"}) < MaxPosts
    /\ wire' = wire \cup {RawState("post", r, loop[r].peer)}
    /\ loop' = [loop EXCEPT ![r] = Idle(r)]
    /\ UNCHANGED <<clock, stores, waiting, agents, history>>

(* The POST fails before the peer has read it. *)
PostFails(r) ==
    /\ loop[r].phase = "post"
    /\ loop' = [loop EXCEPT ![r] = Idle(r)]
    /\ UNCHANGED <<clock, stores, waiting, wire, agents, history>>

(* handlePeerState, possibly after the sender's 5 s timeout. *)
DeliverPost ==
    \E m \in wire :
        /\ m.kind = "post"
        /\ \E at \in 0..clock : MergeState(m, at)
        /\ wire' = wire \ {m}
        /\ UNCHANGED <<clock, waiting, loop, agents, history>>

(* A message is lost; a GET without a reply ends syncPeer with an error. *)
LoseMessage ==
    \E m \in wire :
        /\ wire' = wire \ {m}
        /\ loop' = IF m.kind = "reply" THEN [loop EXCEPT ![m.dst] = Idle(m.dst)] ELSE loop
        /\ UNCHANGED <<clock, stores, waiting, agents, history>>

-----------------------------------------------------------------------------
Init ==
    /\ clock = 0
    /\ tokens = [r \in Replicas |-> [t \in TokenIDs |-> NoToken]]
    /\ nodes = [r \in Replicas |-> [n \in NodeIDs |-> NoNode]]
    /\ waiting = {}
    /\ loop = [r \in Replicas |-> Idle(r)]
    /\ wire = {}
    /\ env = [n \in NodeIDs |-> 0]
    /\ agent = [n \in NodeIDs |-> 0]
    /\ minted = [t \in TokenIDs |-> NoToken]
    /\ admissions = {}

TokenStep ==
    \E r \in Replicas, t \in TokenIDs :
        \/ \E asked \in UsesAsked, ttl \in TTLs : CreateJoinToken(r, t, asked, ttl)
        \/ JoinExpired(r, t)

NodeStep ==
    \E n \in NodeIDs :
        \/ StartAgent(n)
        \/ \E r \in Replicas :
             \/ HeartbeatRefused(r, n)
             \/ ServeAtOnce(r, n)
             \/ Wait(r, n)

SyncStep ==
    \/ \E r \in Replicas :
         \/ \E p \in Peers[r] : FetchState(r, p) \/ MergeFetched(r, p)
         \/ PostState(r)
         \/ PostFails(r)
    \/ DeliverPost
    \/ LoseMessage

Next == TokenStep \/ NodeStep \/ ServeWaiting \/ SyncStep

Spec == Init /\ [][Next]_vars

(* The loop comes round to every peer every 10 seconds and does not block  *)
(* (5 s HTTP timeouts); of infinitely many GETs to a peer infinitely many  *)
(* are answered.                                                           *)
Fairness ==
    \A r \in Replicas :
        /\ WF_vars(PostState(r) \/ PostFails(r))
        /\ \A p \in Peers[r] :
             /\ SF_vars(FetchState(r, p))
             /\ SF_vars(MergeFetched(r, p))

FairSpec == Spec /\ Fairness

-----------------------------------------------------------------------------
(* Properties *)

(* Every variable has the shape the code gives it. *)
TypeOK ==
    /\ clock \in Instant
    /\ tokens \in [Replicas -> TokenMap]
    /\ nodes \in [Replicas -> NodeMap]
    /\ waiting \subseteq Request
    /\ loop \in [Replicas -> [phase : {"idle", "get", "post"}, peer : Replicas]]
    /\ wire \subseteq Message
    /\ env \in [NodeIDs -> Nat]
    /\ agent \in [NodeIDs -> Nat]
    /\ minted \in TokenMap
    /\ admissions \subseteq Admission

OneUse(t) == minted[t] # NoToken /\ minted[t].usesLeft = 1

(* One replica admits at most one join with a one-use token while it       *)
(* lives, however late and in whatever order requests are served and       *)
(* copies of the unspent token come back from its peers (consumeJoinToken- *)
(* Locked against MergeState's token rule).  Once it has expired a waiting *)
(* merge may bring back the copy another join has deleted, for a waiting   *)
(* join to spend: late joins are left out.                                 *)
OneUsePerReplica ==
    \A a, b \in admissions :
        a.token = b.token /\ a.replica = b.replica /\ OneUse(a.token)
          /\ ~a.late /\ ~b.late => a = b

(* Where a one-use token is spent it stays spent: a merge may drop nothing *)
(* and raise nothing, until the expired token is deleted.                  *)
SpentStaysSpent ==
    [][\A r \in Replicas, t \in TokenIDs :
          OneUse(t) /\ tokens[r][t] # NoToken /\ tokens[r][t].usesLeft = 0
            => \/ tokens'[r][t] = NoToken
               \/ tokens'[r][t].usesLeft = 0]_vars

(* Two replicas that hold the same version of a node (UpdatedAt) hold the  *)
(* same record: every handler that changes a node stamps it, so last-      *)
(* write-wins never leaves two different records it takes for equal.       *)
NodeVersionsAgree ==
    \A r, p \in Replicas, n \in NodeIDs :
        nodes[r][n] # NoNode /\ nodes[p][n] # NoNode
          /\ nodes[r][n].updatedAt = nodes[p][n].updatedAt
            => nodes[r][n] = nodes[p][n]

(* Nothing removes a replica's record of a node or takes it back to an     *)
(* older version but a request for this node that had waited there for the *)
(* mutex: no request served at once, and no stale, repeated or late peer   *)
(* state, does.                                                            *)
OnlyWaitingRegresses ==
    [][\A r \in Replicas, n \in NodeIDs :
          nodes[r][n] # NoNode
            => /\ nodes'[r][n] # NoNode
               /\ \/ nodes'[r][n].updatedAt >= nodes[r][n].updatedAt
                  \/ \E q \in waiting \ waiting' :
                        /\ q.replica = r /\ q.node = n
                        /\ nodes'[r][n].updatedAt = q.at]_vars

(* The abstract view: node records are last-write-wins registers, whatever *)
(* MergeState does about empty node tokens.                                *)
Registers == INSTANCE LastWriterWins WITH
    Keys <- NodeIDs,
    Record <- NodeRec,
    Absent <- NoNode,
    copies <- nodes,
    transit <- {m.nodes : m \in wire}

(* The handlers, the sync loops and MergeState implement those registers:  *)
(* no write reuses the version of a copy there is, on any control plane or *)
(* on the wire, though waiting requests write versions that are not the    *)
(* newest, and the rule about node tokens never decides a merge.           *)
NodesAreRegisters == Registers!Spec

(* Once handlers stop writing, the sync loops bring all replicas to the    *)
(* same node records, whatever messages were lost before.                  *)
NodesConverge == <>[](\A r, p \in Replicas : nodes[r] = nodes[p])

-----------------------------------------------------------------------------
(* What the documentation says and the code does not do *)

(* service_test.go: a token a peer reports exhausted is refused.  Once     *)
(* exhausted on a replica, a token is never accepted there again.          *)
ExhaustedIsFinal ==
    [][\A r \in Replicas, t \in TokenIDs :
          tokens[r][t] # NoToken /\ tokens[r][t].usesLeft = 0
            => \/ tokens'[r][t] = NoToken
               \/ tokens'[r][t].usesLeft = 0]_vars

(* docs/requirements.md: a node token is long-lived, for heartbeats and    *)
(* leaving.  A replica whose record of a node is as new as the join whose  *)
(* token the node's env file holds accepts that token.                     *)
NodeTokenLives ==
    \A r \in Replicas, n \in NodeIDs :
        nodes[r][n] # NoNode /\ env[n] # 0 /\ nodes[r][n].updatedAt >= env[n]
          /\ (\A a \in admissions : a.node = n => a.at <= env[n])
            => nodes[r][n].nodeToken = env[n]
=============================================================================
