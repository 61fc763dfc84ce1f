--------------------------- MODULE MembershipProofs ---------------------------
(***************************************************************************)
(* Theorems about Membership, for any number of control planes, nodes and  *)
(* tokens, any peer graph and any bounds.                                  *)
(***************************************************************************)
EXTENDS Membership, FiniteSetTheorems, TLAPS

-----------------------------------------------------------------------------
(* Types *)

(* The number of distinct nodes in UsedBy is a natural number. *)
LEMMA UsedCount ==
    ASSUME NEW S \in SUBSET NodeIDs, NEW T \in SUBSET NodeIDs
    PROVE  /\ Cardinality(S \cup T) \in Nat
           /\ S \cup T # {} => Cardinality(S \cup T) > 0
<1>1. IsFiniteSet(S \cup T)
  BY NodeIDsAssumption, FS_Subset
<1>2. QED
  BY <1>1, FS_CardinalityType, FS_EmptySet

(* MergeState's token rule yields a token or the absent key. *)
LEMMA MergeTokenType ==
    ASSUME NEW local \in TokenRec \cup {NoToken},
           NEW remote \in TokenRec \cup {NoToken}, NEW at \in Nat
    PROVE  MergeToken(local, remote, at) \in TokenRec \cup {NoToken}
<1>1. CASE local \in TokenRec /\ remote \in TokenRec
  <2>1. Cardinality(local.used \cup remote.used) \in Nat
    BY <1>1, UsedCount DEF TokenRec
  <2>2. Adopted(local, remote) \in TokenRec
    BY <1>1, <2>1 DEF Adopted, TokenRec, Instant
  <2>3. QED
    BY <2>2 DEF MergeToken
<1>2. QED
  BY <1>1 DEF MergeToken

(* MergeState's node rule yields a node or the absent key. *)
LEMMA MergeNodeType ==
    ASSUME NEW local \in NodeRec \cup {NoNode}, NEW remote \in NodeRec \cup {NoNode}
    PROVE  MergeNode(local, remote) \in NodeRec \cup {NoNode}
<1>1. CASE local \in NodeRec /\ remote \in NodeRec
  <2>1. [remote EXCEPT !.nodeToken = IF @ = 0 THEN local.nodeToken ELSE @] \in NodeRec
    BY <1>1 DEF NodeRec
  <2>2. QED
    BY <2>1 DEF MergeNode
<1>2. QED
  BY <1>1 DEF MergeNode

(* Merging a well-formed message leaves well-formed maps. *)
LEMMA MergeStateType ==
    ASSUME TypeOK, NEW m \in wire, NEW at \in Nat, MergeState(m, at)
    PROVE  tokens' \in [Replicas -> TokenMap] /\ nodes' \in [Replicas -> NodeMap]
<1>1. m \in Message /\ clock \in Nat
  BY DEF TypeOK, Instant
<1>2. \A t \in TokenIDs :
         MergeToken(tokens[m.dst][t], m.tokens[t], at) \in TokenRec \cup {NoToken}
  <2>1. TAKE t \in TokenIDs
  <2>2. tokens[m.dst][t] \in TokenRec \cup {NoToken} /\ m.tokens[t] \in TokenRec \cup {NoToken}
    BY <1>1 DEF TypeOK, Message, TokenMap
  <2>3. QED
    BY <1>1, <2>2, MergeTokenType
<1>3. [t \in TokenIDs |-> MergeToken(tokens[m.dst][t], m.tokens[t], at)] \in TokenMap
  BY <1>2 DEF TokenMap
<1>4. \A n \in NodeIDs :
         MergeNode(nodes[m.dst][n], m.nodes[n]) \in NodeRec \cup {NoNode}
  <2>1. TAKE n \in NodeIDs
  <2>2. nodes[m.dst][n] \in NodeRec \cup {NoNode} /\ m.nodes[n] \in NodeRec \cup {NoNode}
    BY <1>1 DEF TypeOK, Message, NodeMap
  <2>3. QED
    BY <2>2, MergeNodeType
<1>5. [n \in NodeIDs |-> MergeNode(nodes[m.dst][n], m.nodes[n])] \in NodeMap
  BY <1>4 DEF NodeMap
<1>6. QED
  BY <1>1, <1>3, <1>5 DEF MergeState, TypeOK, Message

(* A stamped node record is a node record. *)
LEMMA TouchedType ==
    ASSUME NEW node \in NodeRec, NEW status \in {"online", "offline"}, NEW at \in Nat
    PROVE  Touched(node, status, at) \in NodeRec
BY DEF Touched, NodeRec, Instant

(* A token with a use left is still a token when it is spent. *)
LEMMA SpendType ==
    ASSUME NEW token \in TokenRec, token.usesLeft > 0, NEW n \in NodeIDs
    PROVE  Spend(token, n) \in TokenRec
<1>1. token.usesLeft - 1 \in Nat /\ token.usedLen + 1 \in Nat
  BY DEF TokenRec
<1>2. QED
  BY <1>1 DEF Spend, TokenRec

(* Callers send requests. *)
LEMMA RequestsType ==
    ASSUME TypeOK, NEW r \in Replicas, NEW n \in NodeIDs, NEW at \in Nat,
           NEW q \in Requests(r, n, at)
    PROVE  q \in Request /\ q.at = at
BY DEF Requests, Request, TypeOK, Instant

(* A handler that writes either joins a node with a token that can be      *)
(* spent or touches a node that is known.                                  *)
LEMMA HandleWrites ==
    ASSUME TypeOK, NEW q \in Request, Handle(q)
    PROVE  \/ UNCHANGED <<stores, syncing, agents, history>>
           \/ /\ q.token \in TokenIDs
              /\ Spendable(tokens[q.replica][q.token], q.at)
              /\ \E delivered \in BOOLEAN : JoinNode(q, delivered)
           \/ /\ nodes[q.replica][q.node] # NoNode
              /\ \E status \in {"online", "offline"} : TouchNode(q, status)
BY DEF Handle, Admitted, JoinNode, HeartbeatNode, LeaveNode, AdminLeaveNode, PluginContact,
       Accepts, Request

(* A message carries maps of the types the stores have. *)
LEMMA RawStateType ==
    ASSUME TypeOK, NEW kind \in {"reply", "post"}, NEW src \in Replicas, NEW dst \in Replicas
    PROVE  RawState(kind, src, dst) \in Message
BY DEF RawState, Unexpired, TypeOK, Message, TokenMap

(* The initial states are well typed. *)
LEMMA TypeInit == Init => TypeOK
BY DEF Init, TypeOK, Idle, TokenMap, NodeMap, Instant

(* A handler keeps the types. *)
LEMMA HandleType ==
    ASSUME TypeOK, NEW q \in Request, Handle(q), clock' \in Nat, waiting' \subseteq Request
    PROVE  TypeOK'
<1> USE DEF stores, syncing, agents, history, Instant
<1>1. q.replica \in Replicas /\ q.node \in NodeIDs /\ q.at \in Nat
  BY DEF Request
<1>2. CASE UNCHANGED <<stores, syncing, agents, history>>
  BY <1>2 DEF TypeOK
<1>3. ASSUME q.token \in TokenIDs, Spendable(tokens[q.replica][q.token], q.at),
             NEW delivered \in BOOLEAN, JoinNode(q, delivered)
      PROVE  TypeOK'
  <2>1. tokens[q.replica][q.token] \in TokenRec /\ tokens[q.replica][q.token].usesLeft > 0
    BY <1>1, <1>3 DEF Spendable, TypeOK, TokenMap
  <2>2. Spend(tokens[q.replica][q.token], q.node) \in TokenRec
    BY <1>1, <2>1, SpendType
  <2>3. Joined(q.at) \in NodeRec
    BY <1>1 DEF Joined, NodeRec
  <2>4. tokens' \in [Replicas -> TokenMap]
    <3>1. tokens' = [tokens EXCEPT ![q.replica][q.token] =
                       Spend(tokens[q.replica][q.token], q.node)]
      BY <1>3 DEF JoinNode
    <3>2. QED
      BY <1>1, <1>3, <2>2, <3>1 DEF TypeOK, TokenMap
  <2>5. nodes' \in [Replicas -> NodeMap]
    BY <1>1, <1>3, <2>3 DEF JoinNode, TypeOK, NodeMap
  <2>6. Expired(tokens[q.replica][q.token], clock') \in BOOLEAN
    BY DEF Expired
  <2>7. admissions' \subseteq Admission
    BY <1>1, <1>3, <2>6 DEF JoinNode, TypeOK, Admission
  <2>8. env' \in [NodeIDs -> Nat]
    BY <1>1, <1>3 DEF JoinNode, TypeOK
  <2>9. QED
    BY <1>3, <2>4, <2>5, <2>7, <2>8 DEF JoinNode, TypeOK
<1>4. ASSUME nodes[q.replica][q.node] # NoNode, NEW status \in {"online", "offline"},
             TouchNode(q, status)
      PROVE  TypeOK'
  <2>1. Touched(nodes[q.replica][q.node], status, q.at) \in NodeRec
    BY <1>1, <1>4, TouchedType DEF TypeOK, NodeMap
  <2>2. QED
    BY <1>1, <1>4, <2>1 DEF TouchNode, TypeOK, NodeMap
<1>5. QED
  BY <1>2, <1>3, <1>4, HandleWrites

(* Every handler and every step of the sync loops keeps the types. *)
LEMMA TypeStep == TypeOK /\ [Next]_vars => TypeOK'
<1> SUFFICES ASSUME TypeOK, [Next]_vars PROVE TypeOK'
  OBVIOUS
<1> USE DEF stores, syncing, agents, history, Instant
<1>1. ASSUME NEW r \in Replicas, NEW t \in TokenIDs, NEW asked \in UsesAsked,
             NEW ttl \in TTLs, CreateJoinToken(r, t, asked, ttl)
      PROVE  TypeOK'
  <2> DEFINE token == [usesLeft |-> EffectiveUses(asked), used |-> {}, usedLen |-> 0,
                       expiresAt |-> now + ttl]
  <2>1. token \in TokenRec
    BY BoundsAssumption DEF TypeOK, TokenRec, EffectiveUses, now
  <2>2. /\ clock' = clock + 1
        /\ tokens' = [tokens EXCEPT ![r][t] = token]
        /\ minted' = [minted EXCEPT ![t] = token]
        /\ UNCHANGED <<nodes, waiting, syncing, agents, admissions>>
    BY <1>1 DEF CreateJoinToken, Stamp, now
  <2> HIDE DEF token
  <2>3. QED
    BY <2>1, <2>2 DEF TypeOK, TokenMap
<1>2. ASSUME NEW r \in Replicas, NEW t \in TokenIDs, JoinExpired(r, t)
      PROVE  TypeOK'
  BY <1>2 DEF JoinExpired, TypeOK, TokenMap
<1>3. ASSUME NEW r \in Replicas, NEW n \in NodeIDs, ServeAtOnce(r, n)
      PROVE  TypeOK'
  <2>1. now \in Nat /\ waiting \subseteq Request
    BY DEF TypeOK, now
  <2>2. PICK q \in Requests(r, n, now) : Stamp /\ Handle(q) /\ UNCHANGED waiting
    BY <1>3 DEF ServeAtOnce
  <2>3. QED
    BY <2>1, <2>2, RequestsType, HandleType DEF Stamp
<1>4. ASSUME NEW r \in Replicas, NEW n \in NodeIDs, Wait(r, n)
      PROVE  TypeOK'
  <2>1. now \in Nat
    BY DEF TypeOK, now
  <2>2. Requests(r, n, now) \subseteq Request
    BY <2>1, RequestsType
  <2>3. QED
    BY <1>4, <2>1, <2>2 DEF Wait, Stamp, TypeOK
<1>5. CASE ServeWaiting
  <2>1. PICK q \in waiting : waiting' = waiting \ {q} /\ UNCHANGED clock /\ Handle(q)
    BY <1>5 DEF ServeWaiting
  <2>2. q \in Request /\ waiting' \subseteq Request /\ clock' \in Nat
    BY <2>1 DEF TypeOK
  <2>3. QED
    BY <2>1, <2>2, HandleType
<1>6. ASSUME NEW n \in NodeIDs,
             StartAgent(n) \/ \E r \in Replicas : HeartbeatRefused(r, n)
      PROVE  TypeOK'
  BY <1>6 DEF StartAgent, HeartbeatRefused, TypeOK
<1>7. ASSUME NEW r \in Replicas, NEW p \in Peers[r], FetchState(r, p)
      PROVE  TypeOK'
  <2>1. p \in Replicas
    BY PeersAssumption
  <2>2. QED
    BY <1>7, <2>1, RawStateType DEF FetchState, TypeOK
<1>8. ASSUME NEW r \in Replicas, NEW p \in Peers[r], MergeFetched(r, p)
      PROVE  TypeOK'
  <2>1. p \in Replicas
    BY PeersAssumption
  <2>2. QED
    BY <1>8, <2>1, MergeStateType DEF MergeFetched, TypeOK
<1>9. ASSUME NEW r \in Replicas, PostState(r)
      PROVE  TypeOK'
  <2>1. loop[r].peer \in Replicas
    BY DEF TypeOK
  <2>2. QED
    BY <1>9, <2>1, RawStateType DEF PostState, TypeOK, Idle
<1>10. ASSUME NEW r \in Replicas, PostFails(r)
       PROVE  TypeOK'
  BY <1>10 DEF PostFails, TypeOK, Idle
<1>11. CASE DeliverPost
  BY <1>11, MergeStateType DEF DeliverPost, TypeOK
<1>12. CASE LoseMessage
  BY <1>12 DEF LoseMessage, TypeOK, Message, Idle
<1>13. CASE UNCHANGED vars
  BY <1>13 DEF vars, TypeOK
<1>14. QED
  BY <1>1, <1>2, <1>3, <1>4, <1>5, <1>6, <1>7, <1>8, <1>9, <1>10, <1>11, <1>12, <1>13
     DEF Next, TokenStep, NodeStep, SyncStep

(* The state of every control plane, of the sync loops and of the messages *)
(* between them keeps its type.                                            *)
THEOREM TypeCorrect == Spec => []TypeOK
BY TypeInit, TypeStep, PTL DEF Spec

-----------------------------------------------------------------------------
(* One-use tokens.  A copy of such a token is either unspent, and then no  *)
(* node is listed in it, or spent, and then a node is; that is what makes  *)
(* the token rule of MergeState refuse every unspent copy where the token  *)
(* is spent.  The invariant says so of every copy, on a replica or on the  *)
(* wire, and ties each admission to a spent or expired token where it was  *)
(* made.                                                                   *)

GoodCopy(token, mint) ==
    token # NoToken =>
        /\ mint # NoToken
        /\ token.expiresAt = mint.expiresAt
        /\ mint.usesLeft = 1 =>
             \/ token.usesLeft = 1 /\ token.usedLen = 0
             \/ token.usesLeft = 0 /\ token.usedLen > 0 /\ token.used # {}

Spent(token) == token # NoToken /\ token.usesLeft = 0

SpentOrPast(token, mint, at) == mint.expiresAt <= at \/ Spent(token)

LedgerInv ==
    /\ \A r \in Replicas, t \in TokenIDs : GoodCopy(tokens[r][t], minted[t])
    /\ \A m \in wire, t \in TokenIDs : GoodCopy(m.tokens[t], minted[t])
    /\ \A a \in admissions :
         /\ minted[a.token] # NoToken
         /\ OneUse(a.token)
              => SpentOrPast(tokens[a.replica][a.token], minted[a.token], clock)
    /\ OneUsePerReplica

(* The token rule of MergeState keeps copies good and spent tokens spent. *)
LEMMA MergeTokenGood ==
    ASSUME NEW local \in TokenRec \cup {NoToken}, NEW remote \in TokenRec \cup {NoToken},
           NEW mint \in TokenRec \cup {NoToken}, NEW at \in Nat,
           GoodCopy(local, mint), GoodCopy(remote, mint)
    PROVE  /\ GoodCopy(MergeToken(local, remote, at), mint)
           /\ mint # NoToken /\ mint.usesLeft = 1 /\ Spent(local)
                => Spent(MergeToken(local, remote, at))
<1>1. CASE local \in TokenRec /\ remote \in TokenRec /\ local # NoToken
             /\ remote # NoToken /\ ~Expired(remote, at) /\ Adopts(local, remote)
  <2>1. mint \in TokenRec
    BY <1>1 DEF GoodCopy
  <2>2. MergeToken(local, remote, at) = Adopted(local, remote)
    BY <1>1 DEF MergeToken
  <2>3. /\ local.used \cup remote.used # {} => Cardinality(local.used \cup remote.used) > 0
        /\ Cardinality(local.used \cup remote.used) \in Nat
    BY <1>1, UsedCount DEF TokenRec
  <2>4. Adopted(local, remote) \in TokenRec
    BY <1>1, <2>3 DEF Adopted, TokenRec
  <2>5. /\ Adopted(local, remote).usesLeft = remote.usesLeft
        /\ Adopted(local, remote).expiresAt = remote.expiresAt
        /\ Adopted(local, remote).used = local.used \cup remote.used
        /\ Adopted(local, remote).usedLen = Cardinality(local.used \cup remote.used)
    BY DEF Adopted
  <2>6. Adopted(local, remote) # NoToken
    BY <2>4, AbsentAssumption
  <2>7. /\ remote.expiresAt = mint.expiresAt
        /\ local.expiresAt = mint.expiresAt
        /\ mint.expiresAt \in Int
        /\ remote.usesLeft \in Int /\ local.usesLeft \in Int
        /\ remote.usedLen \in Int /\ local.usedLen \in Int
    BY <1>1, <2>1 DEF GoodCopy, TokenRec, Instant
  <2>8. mint.usesLeft = 1 => remote.usesLeft = 0 /\ remote.used # {}
    BY <1>1, <2>7 DEF GoodCopy, Adopts
  <2>9. QED
    BY <1>1, <2>1, <2>2, <2>3, <2>5, <2>6, <2>7, <2>8 DEF GoodCopy, Spent
<1>2. CASE local = NoToken /\ remote # NoToken /\ ~Expired(remote, at)
  <2>1. MergeToken(local, remote, at) = remote
    BY <1>2 DEF MergeToken
  <2>2. ~Spent(local)
    BY <1>2 DEF Spent
  <2>3. QED
    BY <2>1, <2>2
<1>3. CASE ~(local \in TokenRec /\ remote \in TokenRec /\ local # NoToken
              /\ remote # NoToken /\ ~Expired(remote, at) /\ Adopts(local, remote))
           /\ ~(local = NoToken /\ remote # NoToken /\ ~Expired(remote, at))
  <2>1. MergeToken(local, remote, at) = local
    BY <1>3 DEF MergeToken
  <2>2. QED
    BY <2>1
<1>4. QED
  BY <1>1, <1>2, <1>3

(* Spending an unspent copy of a one-use token gives a good spent copy. *)
LEMMA SpendGood ==
    ASSUME NEW token \in TokenRec, NEW mint \in TokenRec, NEW n \in NodeIDs,
           GoodCopy(token, mint), token.usesLeft > 0
    PROVE  /\ GoodCopy(Spend(token, n), mint)
           /\ mint.usesLeft = 1 => Spent(Spend(token, n))
<1>1. Spend(token, n) \in TokenRec
  BY SpendType
<1>2. /\ Spend(token, n).usesLeft = token.usesLeft - 1
      /\ Spend(token, n).usedLen = token.usedLen + 1
      /\ Spend(token, n).used = token.used \cup {n}
      /\ Spend(token, n).expiresAt = token.expiresAt
  BY DEF Spend, TokenRec
<1>3. token # NoToken /\ Spend(token, n) # NoToken /\ mint # NoToken
  BY <1>1, AbsentAssumption
<1>4. token.usesLeft \in Nat /\ token.usedLen \in Nat
  BY DEF TokenRec
<1>5. QED
  BY <1>2, <1>3, <1>4 DEF GoodCopy, Spent

(* A spent token stays spent as time passes. *)
LEMMA SpentLater ==
    ASSUME NEW token, NEW mint \in TokenRec, NEW at \in Nat, NEW later \in Nat,
           at <= later, SpentOrPast(token, mint, at)
    PROVE  SpentOrPast(token, mint, later)
BY DEF SpentOrPast, TokenRec, Instant

(* Merging a message of the invariant's kind keeps the token part of it,   *)
(* and leaves spent one-use tokens of every replica spent.                 *)
LEMMA MergeStateLedger ==
    ASSUME TypeOK, LedgerInv, NEW m \in wire, NEW at \in Nat, MergeState(m, at),
           UNCHANGED <<clock, history>>, NEW r \in Replicas, NEW t \in TokenIDs
    PROVE  /\ GoodCopy(tokens'[r][t], minted[t])
           /\ OneUse(t) /\ Spent(tokens[r][t]) => Spent(tokens'[r][t])
<1>1. /\ tokens[r][t] \in TokenRec \cup {NoToken}
      /\ m.tokens[t] \in TokenRec \cup {NoToken}
      /\ minted[t] \in TokenRec \cup {NoToken}
  BY DEF TypeOK, TokenMap, Message
<1>2. GoodCopy(tokens[r][t], minted[t]) /\ GoodCopy(m.tokens[t], minted[t])
  BY DEF LedgerInv
<1>3. CASE r = m.dst
  <2>1. tokens'[r][t] = MergeToken(tokens[r][t], m.tokens[t], at)
    BY <1>3 DEF MergeState, TypeOK
  <2>2. QED
    BY <1>1, <1>2, <2>1, MergeTokenGood DEF OneUse
<1>4. CASE r # m.dst
  <2>1. tokens'[r][t] = tokens[r][t]
    BY <1>4 DEF MergeState, TypeOK
  <2>2. QED
    BY <1>2, <2>1
<1>5. QED
  BY <1>3, <1>4

(* No token exists and nobody has joined at first. *)
LEMMA LedgerInit == Init => LedgerInv
BY DEF Init, LedgerInv, GoodCopy, OneUsePerReplica

(* A step that leaves tokens and joins alone keeps it as well. *)
LEMMA LedgerQuiet ==
    ASSUME TypeOK, LedgerInv, clock' \in Nat, clock <= clock', wire' \subseteq wire,
           UNCHANGED <<tokens, minted, admissions>>
    PROVE  LedgerInv'
<1>1. /\ clock \in Nat
      /\ \A t \in TokenIDs : minted[t] \in TokenRec \cup {NoToken}
      /\ \A a \in admissions : a.token \in TokenIDs
  BY DEF TypeOK, TokenMap, Admission, Instant
<1>2. \A a \in admissions' :
         OneUse(a.token)'
           => SpentOrPast(tokens'[a.replica][a.token], minted'[a.token], clock')
  BY <1>1, SpentLater DEF LedgerInv, OneUse
<1>3. QED
  BY <1>2 DEF LedgerInv, OneUsePerReplica, OneUse

(* So does a join: the token it spends was not spent before, so that an    *)
(* earlier join with a one-use token can only be there if it has expired.  *)
LEMMA LedgerJoin ==
    ASSUME TypeOK, LedgerInv, NEW q \in Request, q.token \in TokenIDs,
           Spendable(tokens[q.replica][q.token], q.at),
           NEW delivered \in BOOLEAN, JoinNode(q, delivered),
           clock' \in Nat, clock <= clock'
    PROVE  LedgerInv'
<1> DEFINE r == q.replica
           t == q.token
           new == [replica |-> r, token |-> t, node |-> q.node, at |-> q.at,
                   late |-> Expired(tokens[r][t], clock')]
<1>types. /\ clock \in Nat
          /\ \A p \in Replicas, u \in TokenIDs : tokens[p][u] \in TokenRec \cup {NoToken}
          /\ \A u \in TokenIDs : minted[u] \in TokenRec \cup {NoToken}
          /\ \A a \in admissions : a.replica \in Replicas /\ a.token \in TokenIDs
          /\ r \in Replicas /\ t \in TokenIDs /\ q.node \in NodeIDs
  BY DEF TypeOK, TokenMap, Admission, Instant, Request
<1>1. /\ tokens[r][t] \in TokenRec /\ tokens[r][t].usesLeft > 0
      /\ tokens' = [tokens EXCEPT ![r][t] = Spend(tokens[r][t], q.node)]
      /\ admissions' = admissions \cup {new}
      /\ UNCHANGED <<wire, minted>>
  BY <1>types DEF JoinNode, Spendable, syncing
<1>2. minted[t] \in TokenRec /\ minted[t] # NoToken /\ GoodCopy(tokens[r][t], minted[t])
  BY <1>types, <1>1, AbsentAssumption DEF LedgerInv, GoodCopy
<1>3. /\ GoodCopy(Spend(tokens[r][t], q.node), minted[t])
      /\ minted[t].usesLeft = 1 => Spent(Spend(tokens[r][t], q.node))
  BY <1>types, <1>1, <1>2, SpendGood
<1>4. \A p \in Replicas, u \in TokenIDs :
         tokens'[p][u] = IF p = r /\ u = t THEN Spend(tokens[r][t], q.node) ELSE tokens[p][u]
  BY <1>types, <1>1 DEF TypeOK, TokenMap
<1>5. \A p \in Replicas, u \in TokenIDs : GoodCopy(tokens'[p][u], minted'[u])
  BY <1>1, <1>3, <1>4 DEF LedgerInv
<1>6. \A a \in admissions :
         OneUse(a.token) /\ a.replica = r /\ a.token = t => minted[t].expiresAt <= clock
  BY <1>1, <1>2, <1>types DEF LedgerInv, Spent, SpentOrPast, TokenRec
<1>7. ASSUME NEW a \in admissions'
      PROVE  /\ minted'[a.token] # NoToken
             /\ OneUse(a.token)'
                  => SpentOrPast(tokens'[a.replica][a.token], minted'[a.token], clock')
  <2>1. CASE a.replica = r /\ a.token = t
    BY <1>1, <1>2, <1>3, <1>4, <1>types, <2>1 DEF OneUse, SpentOrPast
  <2>2. CASE ~(a.replica = r /\ a.token = t)
    <3>1. a \in admissions
      BY <1>1, <2>2
    <3>2. tokens'[a.replica][a.token] = tokens[a.replica][a.token]
      BY <1>4, <1>types, <2>2, <3>1
    <3>3. QED
      BY <1>1, <1>types, <3>1, <3>2, SpentLater DEF LedgerInv, OneUse
  <2>3. QED
    BY <2>1, <2>2
<1>8. OneUsePerReplica'
  <2>1. \A a \in admissions : OneUse(t) /\ a.replica = r /\ a.token = t => new.late
    <3>1. tokens[r][t].expiresAt = minted[t].expiresAt /\ minted[t].expiresAt \in Nat
      BY <1>1, <1>2, AbsentAssumption DEF GoodCopy, TokenRec, Instant
    <3>2. minted[t].expiresAt <= clock => Expired(tokens[r][t], clock')
      BY <1>types, <3>1 DEF Expired
    <3>3. QED
      BY <1>6, <3>2
  <2>2. SUFFICES ASSUME NEW a \in admissions', NEW b \in admissions',
                        a.token = b.token, a.replica = b.replica, OneUse(a.token)',
                        ~a.late, ~b.late
                 PROVE  a = b
    BY DEF OneUsePerReplica
  <2>3. OneUse(a.token)
    BY <1>1, <2>2 DEF OneUse
  <2>4. CASE a \in admissions /\ b \in admissions
    BY <2>2, <2>3, <2>4 DEF LedgerInv, OneUsePerReplica
  <2>5. CASE a = new \/ b = new
    BY <1>1, <2>1, <2>2, <2>3, <2>5
  <2>6. QED
    BY <1>1, <2>4, <2>5
<1>9. QED
  BY <1>1, <1>5, <1>7, <1>8 DEF LedgerInv

(* Every handler keeps the invariant, ... *)
LEMMA LedgerHandle ==
    ASSUME TypeOK, LedgerInv, NEW q \in Request, Handle(q), clock' \in Nat, clock <= clock'
    PROVE  LedgerInv'
<1>1. CASE UNCHANGED <<stores, syncing, agents, history>>
  BY <1>1, LedgerQuiet DEF stores, syncing, history
<1>2. ASSUME q.token \in TokenIDs, Spendable(tokens[q.replica][q.token], q.at),
             NEW delivered \in BOOLEAN, JoinNode(q, delivered)
      PROVE  LedgerInv'
  BY <1>2, LedgerJoin
<1>3. ASSUME NEW status \in {"online", "offline"}, TouchNode(q, status)
      PROVE  LedgerInv'
  BY <1>3, LedgerQuiet DEF TouchNode, syncing, history
<1>4. QED
  BY <1>1, <1>2, <1>3, HandleWrites

(* ... and so does every step. *)
LEMMA LedgerStep == TypeOK /\ LedgerInv /\ [Next]_vars => LedgerInv'
<1> SUFFICES ASSUME TypeOK, LedgerInv, [Next]_vars PROVE LedgerInv'
  OBVIOUS
<1> USE DEF stores, syncing, agents, history, Instant
<1>types. /\ clock \in Nat /\ now \in Nat
          /\ \A r \in Replicas, t \in TokenIDs : tokens[r][t] \in TokenRec \cup {NoToken}
          /\ \A t \in TokenIDs : minted[t] \in TokenRec \cup {NoToken}
          /\ \A a \in admissions : a.replica \in Replicas /\ a.token \in TokenIDs
  BY DEF TypeOK, TokenMap, Admission, now
<1>1. ASSUME NEW r \in Replicas, NEW t \in TokenIDs, NEW asked \in UsesAsked,
             NEW ttl \in TTLs, CreateJoinToken(r, t, asked, ttl)
      PROVE  LedgerInv'
  <2>1. PICK token \in TokenRec :
           /\ token.usedLen = 0
           /\ tokens' = [tokens EXCEPT ![r][t] = token]
           /\ minted' = [minted EXCEPT ![t] = token]
    <3> DEFINE token == [usesLeft |-> EffectiveUses(asked), used |-> {}, usedLen |-> 0,
                         expiresAt |-> now + ttl]
    <3>1. token \in TokenRec
      BY BoundsAssumption DEF TypeOK, TokenRec, EffectiveUses, now
    <3>2. QED
      BY <1>1, <3>1 DEF CreateJoinToken
  <2>2. /\ minted[t] = NoToken /\ token # NoToken
        /\ clock' = clock + 1 /\ UNCHANGED <<wire, admissions>>
    BY <1>1, AbsentAssumption DEF CreateJoinToken, Stamp, now
  <2>3. \A p \in Replicas, u \in TokenIDs : GoodCopy(tokens'[p][u], minted'[u])
    <3>1. GoodCopy(token, token) /\ GoodCopy(NoToken, token)
      BY <2>1 DEF GoodCopy
    <3>2. \A p \in Replicas : tokens[p][t] = NoToken
      BY <2>2 DEF LedgerInv, GoodCopy
    <3>3. TAKE p \in Replicas, u \in TokenIDs
    <3>4. /\ tokens'[p][u] = IF p = r /\ u = t THEN token ELSE tokens[p][u]
          /\ minted'[u] = IF u = t THEN token ELSE minted[u]
      BY <2>1 DEF TypeOK, TokenMap
    <3>5. QED
      BY <3>1, <3>2, <3>4 DEF LedgerInv
  <2>4. \A m \in wire', u \in TokenIDs : GoodCopy(m.tokens[u], minted'[u])
    BY <2>1, <2>2 DEF LedgerInv, GoodCopy, TypeOK, TokenMap
  <2>5. \A a \in admissions' :
           a.token # t /\ minted'[a.token] = minted[a.token]
             /\ tokens'[a.replica][a.token] = tokens[a.replica][a.token]
    BY <2>1, <2>2, <1>types DEF LedgerInv, TypeOK, TokenMap
  <2>6. \A a \in admissions' :
           /\ minted'[a.token] # NoToken
           /\ OneUse(a.token)'
                => SpentOrPast(tokens'[a.replica][a.token], minted'[a.token], clock')
    BY <2>2, <2>5, <1>types, SpentLater DEF LedgerInv, OneUse
  <2>7. OneUsePerReplica'
    BY <2>2, <2>5 DEF LedgerInv, OneUsePerReplica, OneUse
  <2>8. QED
    BY <2>3, <2>4, <2>6, <2>7 DEF LedgerInv
<1>2. ASSUME NEW r \in Replicas, NEW t \in TokenIDs, JoinExpired(r, t)
      PROVE  LedgerInv'
  <2>1. /\ tokens' = [tokens EXCEPT ![r][t] = NoToken]
        /\ UNCHANGED <<clock, wire, minted, admissions>>
        /\ tokens[r][t] # NoToken /\ tokens[r][t].expiresAt <= clock
    BY <1>2, <1>types DEF JoinExpired, Expired, TokenRec
  <2>2. minted[t].expiresAt <= clock
    BY <2>1 DEF LedgerInv, GoodCopy
  <2>3. \A p \in Replicas, u \in TokenIDs : GoodCopy(tokens'[p][u], minted'[u])
    <3>1. TAKE p \in Replicas, u \in TokenIDs
    <3>2. tokens'[p][u] = IF p = r /\ u = t THEN NoToken ELSE tokens[p][u]
      BY <2>1 DEF TypeOK, TokenMap
    <3>3. GoodCopy(NoToken, minted[u]) /\ GoodCopy(tokens[p][u], minted[u])
      BY DEF LedgerInv, GoodCopy
    <3>4. QED
      BY <2>1, <3>2, <3>3
  <2>4. \A a \in admissions' :
           OneUse(a.token)'
             => SpentOrPast(tokens'[a.replica][a.token], minted'[a.token], clock')
    BY <2>1, <2>2, <1>types DEF LedgerInv, OneUse, SpentOrPast, TypeOK, TokenMap
  <2>5. QED
    BY <2>1, <2>3, <2>4 DEF LedgerInv, OneUsePerReplica, OneUse
<1>3. ASSUME NEW r \in Replicas, NEW n \in NodeIDs, ServeAtOnce(r, n)
      PROVE  LedgerInv'
  <2>1. PICK q \in Requests(r, n, now) : Stamp /\ Handle(q)
    BY <1>3 DEF ServeAtOnce
  <2>2. q \in Request
    BY <1>types, RequestsType
  <2>3. QED
    BY <1>types, <2>1, <2>2, LedgerHandle DEF Stamp, now
<1>4. ASSUME NEW r \in Replicas, NEW n \in NodeIDs, Wait(r, n)
      PROVE  LedgerInv'
  BY <1>4, <1>types, LedgerQuiet DEF Wait, Stamp, now
<1>5. CASE ServeWaiting
  <2>1. PICK q \in waiting : UNCHANGED clock /\ Handle(q)
    BY <1>5 DEF ServeWaiting
  <2>2. q \in Request
    BY DEF TypeOK
  <2>3. QED
    BY <1>types, <2>1, <2>2, LedgerHandle
<1>6. ASSUME NEW n \in NodeIDs, StartAgent(n) \/ \E r \in Replicas : HeartbeatRefused(r, n)
      PROVE  LedgerInv'
  BY <1>6, <1>types, LedgerQuiet DEF StartAgent, HeartbeatRefused
<1>7. ASSUME NEW src \in Replicas, NEW dst \in Replicas, NEW kind \in {"reply", "post"},
             wire' = wire \cup {RawState(kind, src, dst)},
             UNCHANGED <<clock, tokens, minted, admissions>>
      PROVE  LedgerInv'
  <2>1. \A m \in wire', t \in TokenIDs : GoodCopy(m.tokens[t], minted[t])
    <3>1. \A t \in TokenIDs : RawState(kind, src, dst).tokens[t] \in {NoToken, tokens[src][t]}
      BY DEF RawState, Unexpired
    <3>2. QED
      BY <1>7, <3>1 DEF LedgerInv, GoodCopy
  <2>2. QED
    BY <1>7, <2>1 DEF LedgerInv, OneUsePerReplica, OneUse
<1>8. ASSUME NEW m \in wire, NEW at \in 0..clock, MergeState(m, at), wire' \subseteq wire,
             UNCHANGED <<clock, history>>
      PROVE  LedgerInv'
  <2>1. \A r \in Replicas, t \in TokenIDs :
           /\ GoodCopy(tokens'[r][t], minted[t])
           /\ OneUse(t) /\ Spent(tokens[r][t]) => Spent(tokens'[r][t])
    BY <1>8, MergeStateLedger
  <2>2. \A a \in admissions' :
           OneUse(a.token)'
             => SpentOrPast(tokens'[a.replica][a.token], minted'[a.token], clock')
    BY <1>8, <1>types, <2>1 DEF LedgerInv, OneUse, SpentOrPast
  <2>3. QED
    BY <1>8, <2>1, <2>2 DEF LedgerInv, OneUsePerReplica, OneUse
<1>9. CASE SyncStep
  <2>1. ASSUME NEW r \in Replicas, NEW p \in Peers[r], FetchState(r, p)
        PROVE  LedgerInv'
    <3>1. p \in Replicas
      BY PeersAssumption
    <3>2. QED
      BY <2>1, <3>1, <1>7 DEF FetchState
  <2>2. ASSUME NEW r \in Replicas, NEW p \in Peers[r], MergeFetched(r, p)
        PROVE  LedgerInv'
    BY <2>2, <1>8 DEF MergeFetched
  <2>3. ASSUME NEW r \in Replicas, PostState(r)
        PROVE  LedgerInv'
    <3>1. loop[r].peer \in Replicas
      BY DEF TypeOK
    <3>2. QED
      BY <2>3, <3>1, <1>7 DEF PostState
  <2>4. ASSUME NEW r \in Replicas, PostFails(r)
        PROVE  LedgerInv'
    BY <2>4, <1>types, LedgerQuiet DEF PostFails
  <2>5. CASE DeliverPost
    BY <2>5, <1>8 DEF DeliverPost
  <2>6. CASE LoseMessage
    BY <2>6, <1>types, LedgerQuiet DEF LoseMessage
  <2>7. QED
    BY <1>9, <2>1, <2>2, <2>3, <2>4, <2>5, <2>6 DEF SyncStep
<1>10. CASE UNCHANGED vars
  BY <1>10, <1>types, LedgerQuiet DEF vars
<1>11. QED
  BY <1>1, <1>2, <1>3, <1>4, <1>5, <1>6, <1>9, <1>10 DEF Next, TokenStep, NodeStep

(* One replica admits one join per one-use token, whatever the number of   *)
(* replicas and however their copies travel.                               *)
THEOREM OneUseAdmitsOnce == Spec => []OneUsePerReplica
<1>1. Init => TypeOK /\ LedgerInv
  BY TypeInit, LedgerInit
<1>2. TypeOK /\ LedgerInv /\ [Next]_vars => TypeOK' /\ LedgerInv'
  BY TypeStep, LedgerStep
<1>3. LedgerInv => OneUsePerReplica
  BY DEF LedgerInv
<1>4. QED
  BY <1>1, <1>2, <1>3, PTL DEF Spec

(* No step un-spends a one-use token on a replica. *)
LEMMA SpentStep ==
    ASSUME TypeOK, LedgerInv, [Next]_vars, NEW r \in Replicas, NEW t \in TokenIDs,
           OneUse(t), tokens[r][t] # NoToken, tokens[r][t].usesLeft = 0
    PROVE  tokens'[r][t] = NoToken \/ tokens'[r][t].usesLeft = 0
<1> USE DEF stores, syncing, agents, history
<1>1. ASSUME NEW m \in wire, NEW at \in 0..clock, MergeState(m, at), UNCHANGED <<clock, history>>
      PROVE  tokens'[r][t].usesLeft = 0
  <2>1. at \in Nat
    OBVIOUS
  <2>2. QED
    BY <1>1, <2>1, MergeStateLedger DEF Spent
<1>2. ASSUME NEW p \in Replicas, NEW u \in TokenIDs, NEW asked \in UsesAsked,
             NEW ttl \in TTLs, CreateJoinToken(p, u, asked, ttl)
      PROVE  tokens'[r][t] = tokens[r][t]
  <2>1. u # t
    BY <1>2 DEF CreateJoinToken, OneUse
  <2>2. QED
    BY <1>2, <2>1 DEF CreateJoinToken, TypeOK, TokenMap
<1>3. ASSUME NEW p \in Replicas, NEW u \in TokenIDs, JoinExpired(p, u)
      PROVE  tokens'[r][t] = NoToken \/ tokens'[r][t] = tokens[r][t]
  BY <1>3 DEF JoinExpired, TypeOK, TokenMap
<1>4. ASSUME NEW q \in Request, Handle(q)
      PROVE  tokens'[r][t] = tokens[r][t]
  <2>1. ASSUME Spendable(tokens[q.replica][q.token], q.at),
               NEW delivered \in BOOLEAN, JoinNode(q, delivered)
        PROVE  tokens'[r][t] = tokens[r][t]
    <3>1. ~(q.replica = r /\ q.token = t)
      BY <2>1 DEF Spendable
    <3>2. tokens' = [tokens EXCEPT ![q.replica][q.token] =
                       Spend(tokens[q.replica][q.token], q.node)]
      BY <2>1 DEF JoinNode
    <3>3. QED
      BY <3>1, <3>2 DEF TypeOK, TokenMap
  <2>2. QED
    BY <1>4, <2>1, HandleWrites DEF TouchNode
<1>5. CASE NodeStep \/ ServeWaiting
  <2>1. now \in Nat /\ waiting \subseteq Request
    BY DEF TypeOK, Instant, now
  <2>2. \/ UNCHANGED tokens
        \/ \E q \in Request : Handle(q)
    BY <1>5, <2>1, RequestsType
       DEF NodeStep, ServeWaiting, StartAgent, HeartbeatRefused, ServeAtOnce, Wait
  <2>3. QED
    BY <1>4, <2>2
<1>6. CASE SyncStep
  BY <1>1, <1>6 DEF SyncStep, FetchState, MergeFetched, PostState, PostFails, DeliverPost,
                    LoseMessage
<1>7. CASE UNCHANGED vars
  BY <1>7 DEF vars
<1>8. QED
  BY <1>2, <1>3, <1>5, <1>6, <1>7 DEF Next, TokenStep

(* Where a one-use token is spent it stays spent. *)
THEOREM OneUseStaysSpent == Spec => SpentStaysSpent
<1>1. Init => TypeOK /\ LedgerInv
  BY TypeInit, LedgerInit
<1>2. TypeOK /\ LedgerInv /\ [Next]_vars => TypeOK' /\ LedgerInv'
  BY TypeStep, LedgerStep
<1>3. TypeOK /\ LedgerInv /\ [Next]_vars =>
        [\A r \in Replicas, t \in TokenIDs :
           OneUse(t) /\ tokens[r][t] # NoToken /\ tokens[r][t].usesLeft = 0
             => \/ tokens'[r][t] = NoToken
                \/ tokens'[r][t].usesLeft = 0]_vars
  BY SpentStep
<1>4. QED
  BY <1>1, <1>2, <1>3, PTL DEF Spec, SpentStaysSpent

-----------------------------------------------------------------------------
(* Node records.  All copies of a node, on replicas and on the wire, are   *)
(* versions written by a handler at an instant of its own: a version       *)
(* determines its record, and no request that still waits holds it.        *)

Copies(n) == {nodes[r][n] : r \in Replicas} \cup {m.nodes[n] : m \in wire}

WaitingInv ==
    \A q \in waiting :
        /\ 0 < q.at /\ q.at <= clock
        /\ \A p \in waiting : q.at = p.at => q = p

Unused(at) == \A n \in NodeIDs : \A x \in Copies(n) \ {NoNode} : x.updatedAt # at

VersionInv ==
    /\ WaitingInv
    /\ \A q \in waiting : Unused(q.at)
    /\ \A n \in NodeIDs : \A x, y \in Copies(n) \ {NoNode} :
         /\ x.updatedAt <= clock
         /\ x.nodeToken # 0
         /\ x.updatedAt = y.updatedAt => x = y

(* MergeState keeps one of the two records it is given. *)
LEMMA MergeNodeKeeps ==
    ASSUME NEW local \in NodeRec \cup {NoNode}, NEW remote \in NodeRec \cup {NoNode},
           remote # NoNode => remote.nodeToken # 0
    PROVE  MergeNode(local, remote) \in {local, remote}
<1>1. remote # NoNode =>
        [remote EXCEPT !.nodeToken = IF @ = 0 THEN local.nodeToken ELSE @] = remote
  BY DEF NodeRec
<1>2. QED
  BY <1>1 DEF MergeNode

(* Copies are node records. *)
LEMMA CopiesType ==
    ASSUME TypeOK, NEW n \in NodeIDs
    PROVE  Copies(n) \subseteq NodeRec \cup {NoNode}
BY DEF Copies, TypeOK, NodeMap, Message

(* A handler's write adds one version, of an instant no copy has and no    *)
(* other request waits with.                                               *)
LEMMA VersionWritten ==
    ASSUME TypeOK, VersionInv, NEW r \in Replicas, NEW n \in NodeIDs, NEW new \in NodeRec,
           new.nodeToken # 0, Unused(new.updatedAt), new.updatedAt <= clock',
           clock' \in Nat, clock <= clock',
           waiting' \subseteq waiting, \A w \in waiting' : w.at # new.updatedAt,
           nodes' = [nodes EXCEPT ![r][n] = new], UNCHANGED wire
    PROVE  VersionInv'
<1>1. clock \in Nat /\ \A w \in waiting : w.at \in Nat
  BY DEF TypeOK, Instant, Request
<1>2. \A k \in NodeIDs : \A x \in Copies(k)' \ {NoNode} :
         x \in Copies(k) \/ (k = n /\ x = new)
  BY DEF Copies, TypeOK, NodeMap
<1>3. \A k \in NodeIDs : \A x \in Copies(k) \ {NoNode} : x.updatedAt \in Nat
  BY CopiesType DEF NodeRec, Instant
<1>4. WaitingInv'
  BY <1>1 DEF VersionInv, WaitingInv
<1>5. \A w \in waiting' : Unused(w.at)'
  BY <1>2 DEF VersionInv, Unused
<1>6. \A k \in NodeIDs : \A x, y \in Copies(k)' \ {NoNode} :
         /\ x.updatedAt <= clock'
         /\ x.nodeToken # 0
         /\ x.updatedAt = y.updatedAt => x = y
  BY <1>1, <1>2, <1>3 DEF VersionInv, Unused
<1>7. QED
  BY <1>4, <1>5, <1>6 DEF VersionInv

(* A step that only copies or drops records keeps the invariant. *)
LEMMA VersionCopied ==
    ASSUME TypeOK, VersionInv, clock' \in Nat, clock <= clock', waiting' \subseteq waiting,
           \A n \in NodeIDs : Copies(n)' \subseteq Copies(n)
    PROVE  VersionInv'
<1>1. clock \in Nat /\ \A w \in waiting : w.at \in Nat
  BY DEF TypeOK, Instant, Request
<1>2. \A k \in NodeIDs : \A x \in Copies(k) \ {NoNode} : x.updatedAt \in Nat
  BY CopiesType DEF NodeRec, Instant
<1>3. WaitingInv'
  BY <1>1 DEF VersionInv, WaitingInv
<1>4. \A w \in waiting' : Unused(w.at)'
  BY DEF VersionInv, Unused
<1>5. QED
  BY <1>1, <1>2, <1>3, <1>4 DEF VersionInv

(* A handler's write is a version of the handler's instant. *)
LEMMA HandleVersion ==
    ASSUME TypeOK, VersionInv, NEW q \in Request, q.at # 0, Handle(q)
    PROVE  /\ UNCHANGED wire
           /\ \/ UNCHANGED nodes
              \/ \E new \in NodeRec :
                    /\ new.updatedAt = q.at /\ new.nodeToken # 0
                    /\ nodes' = [nodes EXCEPT ![q.replica][q.node] = new]
<1>1. q.replica \in Replicas /\ q.node \in NodeIDs /\ q.at \in Nat
  BY DEF Request, Instant
<1>2. ASSUME NEW delivered \in BOOLEAN, JoinNode(q, delivered)
      PROVE  \E new \in NodeRec :
                    /\ new.updatedAt = q.at /\ new.nodeToken # 0
                    /\ nodes' = [nodes EXCEPT ![q.replica][q.node] = new]
  <2>1. Joined(q.at) \in NodeRec /\ Joined(q.at).updatedAt = q.at /\ Joined(q.at).nodeToken # 0
    BY <1>1 DEF Joined, NodeRec, Instant
  <2>2. QED
    BY <1>2, <2>1 DEF JoinNode
<1>3. ASSUME nodes[q.replica][q.node] # NoNode, NEW status \in {"online", "offline"},
             TouchNode(q, status)
      PROVE  \E new \in NodeRec :
                    /\ new.updatedAt = q.at /\ new.nodeToken # 0
                    /\ nodes' = [nodes EXCEPT ![q.replica][q.node] = new]
  <2> DEFINE old == nodes[q.replica][q.node]
  <2>1. old \in NodeRec /\ old.nodeToken # 0
    BY <1>1, <1>3 DEF TypeOK, NodeMap, VersionInv, Copies
  <2>2. /\ Touched(old, status, q.at) \in NodeRec
        /\ Touched(old, status, q.at).updatedAt = q.at
        /\ Touched(old, status, q.at).nodeToken # 0
    BY <1>1, <2>1 DEF Touched, NodeRec, Instant
  <2>3. QED
    BY <1>3, <2>2 DEF TouchNode
<1>4. QED
  BY <1>2, <1>3, HandleWrites DEF JoinNode, TouchNode, stores, syncing

(* A request served at once has an instant later than all there are. *)
LEMMA ServedAtOnce ==
    ASSUME TypeOK, VersionInv, NEW r \in Replicas, NEW n \in NodeIDs, ServeAtOnce(r, n)
    PROVE  \E q \in Request :
             /\ Handle(q) /\ q.at = now /\ q.at # 0 /\ q.at <= clock' /\ q.at > clock
             /\ clock' \in Nat /\ clock <= clock' /\ UNCHANGED waiting
             /\ Unused(q.at) /\ \A w \in waiting : w.at # q.at
<1>1. clock \in Nat /\ now \in Nat /\ now = clock + 1
  BY DEF TypeOK, Instant, now
<1>2. PICK q \in Requests(r, n, now) : Stamp /\ Handle(q) /\ UNCHANGED waiting
  BY DEF ServeAtOnce
<1>3. q \in Request /\ q.at = now
  BY <1>1, RequestsType
<1>4. Unused(now)
  BY <1>1, CopiesType DEF VersionInv, Unused, NodeRec, Instant
<1>5. \A w \in waiting : w.at # now
  BY <1>1 DEF VersionInv, WaitingInv, TypeOK, Request, Instant
<1>6. QED
  BY <1>1, <1>2, <1>3, <1>4, <1>5 DEF Stamp

(* A request that has waited has an instant of its own. *)
LEMMA ServedWaiting ==
    ASSUME TypeOK, VersionInv, ServeWaiting
    PROVE  \E q \in Request :
             /\ Handle(q) /\ q \in waiting /\ waiting' = waiting \ {q}
             /\ q.at # 0 /\ q.at <= clock' /\ clock' \in Nat /\ UNCHANGED clock
             /\ Unused(q.at) /\ \A w \in waiting' : w.at # q.at
<1>1. PICK q \in waiting : waiting' = waiting \ {q} /\ UNCHANGED clock /\ Handle(q)
  BY DEF ServeWaiting
<1>2. q \in Request /\ q.at \in Nat /\ clock \in Nat
  BY DEF TypeOK, Request, Instant
<1>3. QED
  BY <1>1, <1>2 DEF VersionInv, WaitingInv

(* Merging only copies records. *)
LEMMA MergeStateCopies ==
    ASSUME TypeOK, VersionInv, NEW m \in wire, NEW at, MergeState(m, at), wire' \subseteq wire,
           NEW n \in NodeIDs
    PROVE  /\ \A r \in Replicas :
                nodes'[r][n] = nodes[r][n] \/ nodes'[r][n] = MergeNode(nodes[r][n], m.nodes[n])
           /\ Copies(n)' \subseteq Copies(n)
<1>1. m.nodes[n] \in NodeRec \cup {NoNode} /\ m.nodes[n] \in Copies(n)
  BY DEF TypeOK, Message, NodeMap, Copies
<1>2. m.nodes[n] # NoNode => m.nodes[n].nodeToken # 0
  BY <1>1 DEF VersionInv
<1>3. \A r \in Replicas :
         nodes'[r][n] = nodes[r][n] \/ nodes'[r][n] = MergeNode(nodes[r][n], m.nodes[n])
  BY DEF MergeState, TypeOK, NodeMap
<1>4. \A r \in Replicas : nodes'[r][n] \in Copies(n)
  <2>1. TAKE r \in Replicas
  <2>2. nodes[r][n] \in NodeRec \cup {NoNode} /\ nodes[r][n] \in Copies(n)
    BY DEF TypeOK, NodeMap, Copies
  <2>3. MergeNode(nodes[r][n], m.nodes[n]) \in {nodes[r][n], m.nodes[n]}
    BY <1>1, <1>2, <2>2, MergeNodeKeeps
  <2>4. QED
    BY <1>1, <1>3, <2>2, <2>3
<1>5. QED
  BY <1>3, <1>4 DEF Copies

(* There are no node records at first. *)
LEMMA VersionInit == Init => VersionInv
BY DEF Init, VersionInv, WaitingInv, Copies

(* Every step keeps the invariant. *)
LEMMA VersionStep == TypeOK /\ VersionInv /\ [Next]_vars => VersionInv'
<1> SUFFICES ASSUME TypeOK, VersionInv, [Next]_vars PROVE VersionInv'
  OBVIOUS
<1> USE DEF stores, syncing, agents, history
<1>clock. clock \in Nat /\ now \in Nat /\ now = clock + 1
  BY DEF TypeOK, Instant, now
<1>1. ASSUME clock' \in Nat, clock <= clock', waiting' \subseteq waiting, UNCHANGED nodes,
             wire' \subseteq wire
      PROVE  VersionInv'
  <2>1. \A n \in NodeIDs : Copies(n)' \subseteq Copies(n)
    BY <1>1 DEF Copies
  <2>2. QED
    BY <1>1, <2>1, VersionCopied
<1>2. ASSUME NEW q \in Request, Handle(q), q.at # 0, q.at <= clock', clock' \in Nat,
             clock <= clock', waiting' \subseteq waiting, Unused(q.at),
             \A w \in waiting' : w.at # q.at
      PROVE  VersionInv'
  <2>1. q.replica \in Replicas /\ q.node \in NodeIDs
    BY DEF Request
  <2>2. UNCHANGED wire
    BY <1>2, HandleVersion
  <2>3. CASE UNCHANGED nodes
    BY <1>1, <1>2, <2>2, <2>3
  <2>4. ASSUME NEW new \in NodeRec, new.updatedAt = q.at, new.nodeToken # 0,
               nodes' = [nodes EXCEPT ![q.replica][q.node] = new]
        PROVE  VersionInv'
    BY <1>2, <2>1, <2>2, <2>4, VersionWritten
  <2>5. QED
    BY <1>2, <2>3, <2>4, HandleVersion
<1>3. ASSUME NEW r \in Replicas, NEW n \in NodeIDs, Wait(r, n)
      PROVE  VersionInv'
  <2>1. PICK q \in Requests(r, n, now) : waiting' = waiting \cup {q}
    BY <1>3 DEF Wait
  <2>2. q.at = now
    BY <1>clock, RequestsType
  <2>3. clock' = now /\ UNCHANGED <<nodes, wire>>
    BY <1>3 DEF Wait, Stamp
  <2>4. /\ \A w \in waiting : w.at \in Nat /\ 0 < w.at /\ w.at <= clock
        /\ \A w, v \in waiting : w.at = v.at => w = v
    BY DEF TypeOK, Request, Instant, VersionInv, WaitingInv
  <2>5. WaitingInv'
    BY <1>clock, <2>1, <2>2, <2>3, <2>4 DEF WaitingInv
  <2>6. \A k \in NodeIDs : \A x \in Copies(k) \ {NoNode} :
           x.updatedAt \in Nat /\ x.updatedAt <= clock
    BY CopiesType DEF VersionInv, NodeRec, Instant
  <2>7. \A k \in NodeIDs : Copies(k)' = Copies(k)
    BY <2>3 DEF Copies
  <2>8. \A w \in waiting' : Unused(w.at)'
    BY <1>clock, <2>1, <2>2, <2>6, <2>7 DEF VersionInv, Unused
  <2>9. QED
    BY <1>clock, <2>3, <2>5, <2>6, <2>7, <2>8 DEF VersionInv
<1>4. CASE NodeStep
  <2>1. ASSUME NEW r \in Replicas, NEW n \in NodeIDs, ServeAtOnce(r, n)
        PROVE  VersionInv'
    BY <1>2, <2>1, ServedAtOnce
  <2>2. QED
    BY <1>1, <1>3, <1>4, <1>clock, <2>1 DEF NodeStep, StartAgent, HeartbeatRefused
<1>5. CASE ServeWaiting
  BY <1>2, <1>5, <1>clock, ServedWaiting
<1>6. CASE TokenStep
  BY <1>1, <1>6, <1>clock DEF TokenStep, CreateJoinToken, JoinExpired, Stamp
<1>7. ASSUME NEW src \in Replicas, NEW dst \in Replicas, NEW kind \in {"reply", "post"},
             wire' = wire \cup {RawState(kind, src, dst)}, UNCHANGED <<clock, waiting, nodes>>
      PROVE  VersionInv'
  <2>1. \A n \in NodeIDs : Copies(n)' \subseteq Copies(n)
    BY <1>7 DEF Copies, RawState
  <2>2. QED
    BY <1>7, <1>clock, <2>1, VersionCopied
<1>8. ASSUME NEW m \in wire, NEW at, MergeState(m, at), wire' \subseteq wire,
             UNCHANGED <<clock, waiting>>
      PROVE  VersionInv'
  BY <1>8, <1>clock, MergeStateCopies, VersionCopied
<1>9. CASE SyncStep
  <2>1. ASSUME NEW r \in Replicas, NEW p \in Peers[r], FetchState(r, p)
        PROVE  VersionInv'
    <3>1. p \in Replicas
      BY PeersAssumption
    <3>2. QED
      BY <2>1, <3>1, <1>7 DEF FetchState
  <2>2. ASSUME NEW r \in Replicas, NEW p \in Peers[r], MergeFetched(r, p)
        PROVE  VersionInv'
    BY <2>2, <1>8 DEF MergeFetched
  <2>3. ASSUME NEW r \in Replicas, PostState(r)
        PROVE  VersionInv'
    <3>1. loop[r].peer \in Replicas
      BY DEF TypeOK
    <3>2. QED
      BY <2>3, <3>1, <1>7 DEF PostState
  <2>4. ASSUME NEW r \in Replicas, PostFails(r)
        PROVE  VersionInv'
    BY <2>4, <1>1, <1>clock DEF PostFails
  <2>5. CASE DeliverPost
    BY <2>5, <1>8 DEF DeliverPost
  <2>6. CASE LoseMessage
    BY <2>6, <1>1, <1>clock DEF LoseMessage
  <2>7. QED
    BY <1>9, <2>1, <2>2, <2>3, <2>4, <2>5, <2>6 DEF SyncStep
<1>10. CASE UNCHANGED vars
  BY <1>1, <1>10, <1>clock DEF vars
<1>11. QED
  BY <1>4, <1>5, <1>6, <1>9, <1>10 DEF Next

(* Replicas with the same version of a node have the same record of it. *)
THEOREM VersionsAgree == Spec => []NodeVersionsAgree
<1>1. Init => TypeOK /\ VersionInv
  BY TypeInit, VersionInit
<1>2. TypeOK /\ VersionInv /\ [Next]_vars => TypeOK' /\ VersionInv'
  BY TypeStep, VersionStep
<1>3. VersionInv => NodeVersionsAgree
  BY DEF VersionInv, NodeVersionsAgree, Copies
<1>4. QED
  BY <1>1, <1>2, <1>3, PTL DEF Spec

(* Of two records MergeState keeps one that is not older than the local. *)
LEMMA MergeNodeNewer ==
    ASSUME NEW local \in NodeRec, NEW remote \in NodeRec \cup {NoNode},
           local.nodeToken # 0, remote # NoNode => remote.nodeToken # 0
    PROVE  /\ MergeNode(local, remote) # NoNode
           /\ MergeNode(local, remote).updatedAt >= local.updatedAt
<1>1. local # NoNode /\ local.updatedAt \in Nat
  BY AbsentAssumption DEF NodeRec, Instant
<1>2. CASE remote # NoNode /\ Newer(local, remote)
  <2>1. [remote EXCEPT !.nodeToken = IF @ = 0 THEN local.nodeToken ELSE @] = remote
    BY <1>2 DEF NodeRec
  <2>2. MergeNode(local, remote) = remote
    BY <1>1, <1>2, <2>1 DEF MergeNode
  <2>3. remote.updatedAt \in Nat /\ remote.updatedAt > local.updatedAt
    BY <1>2 DEF Newer, NodeRec, Instant
  <2>4. QED
    BY <1>1, <1>2, <2>2, <2>3
<1>3. CASE ~(remote # NoNode /\ Newer(local, remote))
  <2>1. MergeNode(local, remote) = local
    BY <1>1, <1>3 DEF MergeNode
  <2>2. QED
    BY <1>1, <2>1
<1>4. QED
  BY <1>2, <1>3

(* No step but a waiting request for this node, served, takes a replica's  *)
(* record of it to an older version.                                       *)
LEMMA RegressStep ==
    ASSUME TypeOK, VersionInv, [Next]_vars, NEW r \in Replicas, NEW n \in NodeIDs,
           nodes[r][n] # NoNode
    PROVE  /\ nodes'[r][n] # NoNode
           /\ \/ nodes'[r][n].updatedAt >= nodes[r][n].updatedAt
              \/ \E q \in waiting \ waiting' :
                    q.replica = r /\ q.node = n /\ nodes'[r][n].updatedAt = q.at
<1> USE DEF stores, syncing, agents, history
<1>1. /\ nodes[r][n] \in NodeRec /\ nodes[r][n].nodeToken # 0
      /\ nodes[r][n].updatedAt \in Nat
      /\ nodes[r][n].updatedAt <= clock
      /\ clock \in Nat
  BY DEF TypeOK, NodeMap, NodeRec, VersionInv, Copies, Instant
<1>2. ASSUME NEW q \in Request, q.at # 0, Handle(q)
      PROVE  \/ nodes'[r][n] = nodes[r][n]
             \/ /\ q.replica = r /\ q.node = n
                /\ nodes'[r][n] # NoNode /\ nodes'[r][n].updatedAt = q.at
  <2>1. ASSUME NEW new \in NodeRec, new.updatedAt = q.at,
               nodes' = [nodes EXCEPT ![q.replica][q.node] = new]
        PROVE  \/ nodes'[r][n] = nodes[r][n]
               \/ /\ q.replica = r /\ q.node = n
                  /\ nodes'[r][n] # NoNode /\ nodes'[r][n].updatedAt = q.at
    <3>1. nodes'[r][n] = IF q.replica = r /\ q.node = n THEN new ELSE nodes[r][n]
      BY <2>1 DEF TypeOK, NodeMap
    <3>2. QED
      BY <2>1, <3>1, AbsentAssumption
  <2>2. QED
    BY <1>2, <2>1, HandleVersion
<1>3. CASE TokenStep
  BY <1>1, <1>3 DEF TokenStep, CreateJoinToken, JoinExpired
<1>4. CASE NodeStep
  <2>1. ASSUME NEW p \in Replicas, NEW k \in NodeIDs, ServeAtOnce(p, k)
        PROVE  nodes'[r][n] # NoNode /\ nodes'[r][n].updatedAt >= nodes[r][n].updatedAt
    <3>1. PICK q \in Request : Handle(q) /\ q.at # 0 /\ q.at > clock
      BY <2>1, ServedAtOnce
    <3>2. q.at \in Nat
      BY DEF Request, Instant
    <3>3. QED
      BY <1>1, <1>2, <3>1, <3>2
  <2>2. QED
    BY <1>1, <1>4, <2>1 DEF NodeStep, StartAgent, HeartbeatRefused, Wait
<1>5. CASE ServeWaiting
  <2>1. PICK q \in Request :
           Handle(q) /\ q.at # 0 /\ q \in waiting /\ waiting' = waiting \ {q}
    BY <1>5, ServedWaiting
  <2>2. QED
    BY <1>1, <1>2, <2>1
<1>6. ASSUME NEW m \in wire, NEW at, MergeState(m, at), wire' \subseteq wire
      PROVE  nodes'[r][n] # NoNode /\ nodes'[r][n].updatedAt >= nodes[r][n].updatedAt
  <2>1. m.nodes[n] \in NodeRec \cup {NoNode}
    BY DEF TypeOK, Message, NodeMap
  <2>2. m.nodes[n] # NoNode => m.nodes[n].nodeToken # 0
    BY DEF VersionInv, Copies
  <2>3. nodes'[r][n] = nodes[r][n] \/ nodes'[r][n] = MergeNode(nodes[r][n], m.nodes[n])
    BY <1>6, MergeStateCopies
  <2>4. QED
    BY <1>1, <2>1, <2>2, <2>3, MergeNodeNewer
<1>7. CASE SyncStep
  <2>1. \/ UNCHANGED nodes
        \/ \E m \in wire : \E at \in 0..clock : MergeState(m, at) /\ wire' \subseteq wire
    BY <1>7 DEF SyncStep, FetchState, MergeFetched, PostState, PostFails,
                DeliverPost, LoseMessage
  <2>2. QED
    BY <1>1, <1>6, <2>1
<1>8. CASE UNCHANGED vars
  BY <1>1, <1>8 DEF vars
<1>9. QED
  BY <1>3, <1>4, <1>5, <1>7, <1>8 DEF Next

(* A replica's record of a node moves to older versions only by requests   *)
(* that had to wait for the mutex.                                         *)
THEOREM OnlyWaitingGoesBack == Spec => OnlyWaitingRegresses
<1>1. Init => TypeOK /\ VersionInv
  BY TypeInit, VersionInit
<1>2. TypeOK /\ VersionInv /\ [Next]_vars => TypeOK' /\ VersionInv'
  BY TypeStep, VersionStep
<1>3. TypeOK /\ VersionInv /\ [Next]_vars =>
        [\A r \in Replicas, n \in NodeIDs :
           nodes[r][n] # NoNode
             => /\ nodes'[r][n] # NoNode
                /\ \/ nodes'[r][n].updatedAt >= nodes[r][n].updatedAt
                   \/ \E q \in waiting \ waiting' :
                         /\ q.replica = r /\ q.node = n
                         /\ nodes'[r][n].updatedAt = q.at]_vars
  BY RegressStep
<1>4. QED
  BY <1>1, <1>2, <1>3, PTL DEF Spec, OnlyWaitingRegresses

-----------------------------------------------------------------------------
(* Node records are last-write-wins registers: every step of the system is *)
(* a step of LastWriterWins, or changes nothing there.                     *)

(* A handler's write has a version no copy has. *)
LEMMA RegisterWrite ==
    ASSUME TypeOK, NEW r \in Replicas, NEW n \in NodeIDs, NEW new \in NodeRec,
           Unused(new.updatedAt), nodes' = [nodes EXCEPT ![r][n] = new], UNCHANGED wire
    PROVE  Registers!Write(r, n)
<1>1. nodes'[r][n] = new
  BY DEF TypeOK, NodeMap
<1>2. \A old \in Registers!CopiesOf(n) : old.updatedAt # new.updatedAt
  BY DEF Registers!CopiesOf, Copies, Unused
<1>3. {m.nodes : m \in wire}' = {m.nodes : m \in wire}
  OBVIOUS
<1>4. QED
  BY <1>1, <1>2, <1>3 DEF Registers!Write

(* The merge of two copies is the newer one: the rule about empty node     *)
(* tokens does not apply to copies the handlers make.                      *)
LEMMA RegisterMerge ==
    ASSUME TypeOK, VersionInv, NEW m \in wire, NEW at, MergeState(m, at), wire' = wire \ {m}
    PROVE  Registers!Receive(m.dst, m.nodes)
<1>1. m.dst \in Replicas /\ m.nodes \in NodeMap /\ m \in Message
  BY DEF TypeOK, Message
<1>2. \A n \in NodeIDs :
         MergeNode(nodes[m.dst][n], m.nodes[n]) = Registers!Latest(nodes[m.dst][n], m.nodes[n])
  <2>1. TAKE n \in NodeIDs
  <2>2. /\ nodes[m.dst][n] \in NodeRec \cup {NoNode} /\ nodes[m.dst][n] \in Copies(n)
        /\ m.nodes[n] \in NodeRec \cup {NoNode} /\ m.nodes[n] \in Copies(n)
    BY <1>1 DEF TypeOK, NodeMap, Copies
  <2>3. /\ nodes[m.dst][n] # NoNode => nodes[m.dst][n].nodeToken # 0
        /\ m.nodes[n] # NoNode => m.nodes[n].nodeToken # 0
    BY <2>2 DEF VersionInv
  <2>4. m.nodes[n] # NoNode =>
          [m.nodes[n] EXCEPT !.nodeToken = IF @ = 0 THEN nodes[m.dst][n].nodeToken ELSE @]
            = m.nodes[n]
    BY <2>2, <2>3 DEF NodeRec
  <2>5. QED
    BY <2>2, <2>3, <2>4 DEF MergeNode, Newer, Registers!Latest
<1>3. nodes' = [nodes EXCEPT ![m.dst] =
                  [n \in NodeIDs |-> Registers!Latest(nodes[m.dst][n], m.nodes[n])]]
  BY <1>2 DEF MergeState
<1>4. {x.nodes : x \in wire}' \in {{x.nodes : x \in wire},
                                   {x.nodes : x \in wire} \ {m.nodes}}
  OBVIOUS
<1>5. QED
  BY <1>3, <1>4 DEF Registers!Receive

(* The refinement, step by step. *)
LEMMA RegisterStep ==
    TypeOK /\ VersionInv /\ [Next]_vars => [Registers!Next]_(Registers!vars)
<1> SUFFICES ASSUME TypeOK, VersionInv, [Next]_vars
             PROVE  Registers!Next \/ UNCHANGED Registers!vars
  OBVIOUS
<1> USE DEF stores, syncing, agents, history
<1> DEFINE transit == {m.nodes : m \in wire}
<1>1. ASSUME UNCHANGED <<nodes, wire>>
      PROVE  UNCHANGED Registers!vars
  BY <1>1 DEF Registers!vars
<1>2. ASSUME NEW q \in Request, Handle(q), q.at # 0, Unused(q.at)
      PROVE  Registers!Next \/ UNCHANGED Registers!vars
  <2>1. q.replica \in Replicas /\ q.node \in NodeIDs
    BY DEF Request
  <2>2. QED
    BY <1>1, <1>2, <2>1, HandleVersion, RegisterWrite DEF Registers!Next
<1>3. CASE TokenStep
  BY <1>1, <1>3 DEF TokenStep, CreateJoinToken, JoinExpired
<1>4. CASE NodeStep \/ ServeWaiting
  <2>1. ASSUME NEW r \in Replicas, NEW n \in NodeIDs, ServeAtOnce(r, n)
        PROVE  Registers!Next \/ UNCHANGED Registers!vars
    BY <1>2, <2>1, ServedAtOnce
  <2>2. CASE ServeWaiting
    BY <1>2, <2>2, ServedWaiting
  <2>3. QED
    BY <1>1, <1>4, <2>1, <2>2 DEF NodeStep, StartAgent, HeartbeatRefused, Wait
<1>5. ASSUME NEW src \in Replicas, NEW dst \in Replicas, NEW kind \in {"reply", "post"},
             wire' = wire \cup {RawState(kind, src, dst)}, UNCHANGED nodes
      PROVE  Registers!Next
  <2>1. transit' = transit \cup {nodes[src]}
    <3>1. RawState(kind, src, dst).nodes = nodes[src]
      BY DEF RawState
    <3>2. QED
      BY <1>5, <3>1
  <2>2. Registers!Send(src)
    BY <1>5, <2>1 DEF Registers!Send
  <2>3. QED
    BY <2>2 DEF Registers!Next
<1>6. ASSUME NEW m \in wire, NEW at, MergeState(m, at), wire' = wire \ {m}
      PROVE  Registers!Next
  <2>1. m.dst \in Replicas /\ m.nodes \in transit
    BY DEF TypeOK, Message
  <2>2. QED
    BY <1>6, <2>1, RegisterMerge DEF Registers!Next
<1>7. ASSUME NEW m \in wire, wire' = wire \ {m}, UNCHANGED nodes
      PROVE  Registers!Next \/ UNCHANGED Registers!vars
  <2>1. transit' = transit \/ transit' = transit \ {m.nodes}
    BY <1>7
  <2>2. CASE transit' = transit
    BY <1>7, <2>2 DEF Registers!vars
  <2>3. CASE transit' = transit \ {m.nodes}
    BY <1>7, <2>3 DEF Registers!Lose, Registers!Next
  <2>4. QED
    BY <2>1, <2>2, <2>3
<1>8. CASE SyncStep
  <2>1. ASSUME NEW r \in Replicas, NEW p \in Peers[r], FetchState(r, p)
        PROVE  Registers!Next
    <3>1. p \in Replicas
      BY PeersAssumption
    <3>2. QED
      BY <2>1, <3>1, <1>5 DEF FetchState
  <2>2. ASSUME NEW r \in Replicas, PostState(r)
        PROVE  Registers!Next
    <3>1. loop[r].peer \in Replicas
      BY DEF TypeOK
    <3>2. QED
      BY <2>2, <3>1, <1>5 DEF PostState
  <2>3. ASSUME NEW r \in Replicas, NEW p \in Peers[r], MergeFetched(r, p)
        PROVE  Registers!Next
    BY <2>3, <1>6 DEF MergeFetched
  <2>4. CASE DeliverPost
    BY <2>4, <1>6 DEF DeliverPost
  <2>5. CASE LoseMessage
    BY <2>5, <1>7 DEF LoseMessage
  <2>6. QED
    BY <1>1, <1>8, <2>1, <2>2, <2>3, <2>4, <2>5 DEF SyncStep, PostFails
<1>9. QED
  BY <1>1, <1>3, <1>4, <1>8 DEF Next, vars

(* No node is known at first. *)
LEMMA RegisterInit == Init => Registers!Init
BY DEF Init, Registers!Init

(* Membership implements LastWriterWins. *)
THEOREM ImplementsRegisters == Spec => NodesAreRegisters
<1>1. Init => TypeOK /\ VersionInv /\ Registers!Init
  BY TypeInit, VersionInit, RegisterInit
<1>2. TypeOK /\ VersionInv /\ [Next]_vars => TypeOK' /\ VersionInv'
  BY TypeStep, VersionStep
<1>3. TypeOK /\ VersionInv /\ [Next]_vars => [Registers!Next]_(Registers!vars)
  BY RegisterStep
<1>4. QED
  BY <1>1, <1>2, <1>3, PTL DEF Spec, NodesAreRegisters, Registers!Spec
=============================================================================
