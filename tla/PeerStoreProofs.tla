---------------------------- MODULE PeerStoreProofs ----------------------------
(***************************************************************************)
(* Theorems about PeerStore: any control planes, nodes and clients, any    *)
(* number of instants, waiting handlers, failed saves, restarts and POSTs  *)
(* in flight.                                                              *)
(***************************************************************************)
EXTENDS PeerStore, FiniteSetTheorems, TLAPS

(* No copy of a client is from the future, and none has the instant of a   *)
(* handler that waits: what a handler stamps, at once or after waiting, is *)
(* of another version than every copy there is, wherever it is.            *)
InThePast == \A c \in ClientIDs : \A x \in Copies(c) : x.updatedAt <= clock

NotYetUsed ==
    \A r \in Replicas : \A at \in waiting[r] :
        /\ \A c \in ClientIDs : \A x \in Copies(c) : x.updatedAt # at
        /\ \A q \in Replicas : at \in waiting[q] => q = r

(* What a control plane has saved is not forgotten in memory either.       *)
MemoryKeeps == \A r \in Replicas, c \in ClientIDs : Version(mem[r].clients[c]) >= acked[r][c]

Inv == TypeOK /\ InThePast /\ NotYetUsed /\ MemoryKeeps /\ AcknowledgedSurvives /\ ClientVersionsAgree

-----------------------------------------------------------------------------
LEMMA VersionType == ASSUME NEW client \in ClientRec \cup {NoClient} PROVE Version(client) \in Nat
  BY AbsentAssumption DEF Version, ClientRec

(* Every copy of a client is a record. *)
LEMMA CopiesType == ASSUME TypeOK, NEW c \in ClientIDs PROVE Copies(c) \subseteq ClientRec
  BY DEF TypeOK, Copies, State, Message

(* A state that a control plane may keep: what it says of a client is a    *)
(* copy there is, not older than the one in memory, or was stamped by the  *)
(* handler that is served.                                                 *)
MayKeep(r, state, at) ==
    /\ state \in State
    /\ at \in {now} \cup waiting[r]
    /\ \A c \in ClientIDs :
         \/ /\ state.clients[c] \in Copies(c) \cup {NoClient}
            /\ Version(state.clients[c]) >= Version(mem[r].clients[c])
         \/ state.clients[c] \in ClientRec /\ state.clients[c].updatedAt = at /\ Served(r, at)

(* The rest of a step that ends by keeping a state. *)
Around ==
    /\ clock' \in 0..MaxClock /\ clock' \in {clock, now}
    /\ waiting' \in [Replicas -> SUBSET (1..clock)]
    /\ \A q \in Replicas : waiting'[q] \subseteq waiting[q]
    /\ posting' \in [Replicas -> SUBSET Replicas]
    /\ \A q \in Replicas : Cardinality(posting'[q]) < 2
    /\ wire' \in SUBSET wire

(* saveLocked keeps the invariant, whether it fails or not. *)
LEMMA KeepKeeps ==
    ASSUME Inv, NEW r \in Replicas, NEW state, NEW at, NEW saved \in BOOLEAN,
           Keep(r, state, at, saved), MayKeep(r, state, at), Around
    PROVE  Inv'
<1> DEFINE yielded == [c \in ClientIDs |->
                         IF Version(state.clients[c]) = at /\ at < acked[r][c] THEN at
                         ELSE acked[r][c]]
<1>1. /\ state \in State
      /\ clock \in Nat /\ clock' \in {clock, clock + 1}
      /\ now = clock + 1 /\ waiting[r] \subseteq 1..clock
      /\ at \in Nat
  <2>1. /\ state \in State /\ at \in {now} \cup waiting[r]
        /\ clock \in Nat /\ waiting[r] \subseteq 1..clock
    BY BoundsAssumption DEF MayKeep, Inv, TypeOK
  <2>2. QED
    BY <2>1 DEF Around, now
<1>2. /\ mem' = [mem EXCEPT ![r] = state]
      /\ \/ disk' = [disk EXCEPT ![r] = state]
            /\ acked' = [acked EXCEPT ![r] = NewestOf(yielded, Versions(state))]
         \/ disk' = disk /\ acked' = [acked EXCEPT ![r] = yielded]
  BY DEF Keep
<1>3. \A c \in ClientIDs : /\ Version(state.clients[c]) \in Nat
                           /\ yielded[c] \in {acked[r][c], at} /\ yielded[c] \in Nat
                           /\ \A q \in Replicas : /\ Version(mem[q].clients[c]) \in Nat
                                                  /\ Version(disk[q].clients[c]) \in Nat
                                                  /\ acked[q][c] \in Nat
  BY <1>1, VersionType DEF Inv, TypeOK, State
<1>4. TypeOK'
  <2>1. /\ mem' \in [Replicas -> State]
        /\ disk' \in [Replicas -> State]
    BY <1>1, <1>2 DEF Inv, TypeOK
  <2>2. NewestOf(yielded, Versions(state)) \in [ClientIDs -> Nat] /\ yielded \in [ClientIDs -> Nat]
    BY <1>3 DEF NewestOf, Versions
  <2> HIDE DEF yielded
  <2>3. acked' \in [Replicas -> [ClientIDs -> Nat]]
    BY <1>2, <2>2 DEF Inv, TypeOK
  <2>4. faults' \in 0..MaxFaults
    BY BoundsAssumption DEF Keep, Fault, Inv, TypeOK
  <2>5. wire' \in SUBSET Message
    BY DEF Around, Inv, TypeOK
  <2>6. waiting' \in [Replicas -> SUBSET (1..clock')]
    <3>1. 1..clock \subseteq 1..clock'
      BY <1>1
    <3>2. QED
      BY <3>1 DEF Around
  <2>7. QED
    BY <2>1, <2>3, <2>4, <2>5, <2>6 DEF Around, TypeOK
<1>5. ASSUME NEW c \in ClientIDs
      PROVE  Copies(c)' \subseteq Copies(c) \cup ({state.clients[c]} \ {NoClient})
  <2>1. \A q \in Replicas : mem'[q] \in {mem[q], state} /\ disk'[q] \in {disk[q], state}
    BY <1>2 DEF Inv, TypeOK
  <2>2. QED
    BY <2>1 DEF Around, Copies
<1>6. ASSUME NEW c \in ClientIDs, NEW x \in Copies(c)'
      PROVE  \/ x \in Copies(c)
             \/ x = state.clients[c] /\ x.updatedAt = at /\ Served(r, at)
  BY <1>5 DEF MayKeep
<1>7. \A c \in ClientIDs : \A z \in Copies(c) : z.updatedAt \in Nat /\ z.updatedAt <= clock
  <2>1. \A c \in ClientIDs : Copies(c) \subseteq ClientRec
    BY CopiesType DEF Inv
  <2>2. QED
    BY <2>1 DEF ClientRec, Inv, InThePast
<1>8. ASSUME Served(r, at)
      PROVE  /\ at <= clock'
             /\ \A q \in Replicas : at \notin waiting'[q]
             /\ \A c \in ClientIDs : \A z \in Copies(c) : z.updatedAt # at
  <2>1. CASE at = now /\ clock' = now /\ waiting' = waiting
    <3>1. \A q \in Replicas : waiting[q] \subseteq 1..clock
      BY DEF Inv, TypeOK
    <3>2. QED
      BY <1>1, <1>7, <2>1, <3>1
  <2>2. CASE at \in waiting[r] /\ waiting' = [waiting EXCEPT ![r] = waiting[r] \ {at}]
    <3>1. \A q \in Replicas : at \in waiting[q] => q = r
      BY <2>2 DEF Inv, NotYetUsed
    <3>2. \A q \in Replicas : at \notin waiting'[q]
      BY <2>2, <3>1 DEF Inv, TypeOK
    <3>3. QED
      BY <1>1, <2>2, <3>2 DEF Inv, NotYetUsed
  <2>3. QED
    BY <1>8, <2>1, <2>2 DEF Served, ServedAtOnce, Draw
<1>9. InThePast'
  <2>1. SUFFICES ASSUME NEW c \in ClientIDs, NEW x \in Copies(c)' PROVE x.updatedAt <= clock'
    BY DEF InThePast
  <2>2. QED
    BY <1>1, <1>6, <1>7, <1>8
<1>10. NotYetUsed'
  <2>1. SUFFICES ASSUME NEW q \in Replicas, NEW d \in waiting'[q]
                 PROVE  /\ \A c \in ClientIDs : \A x \in Copies(c)' : x.updatedAt # d
                        /\ \A p \in Replicas : d \in waiting'[p] => p = q
    BY DEF NotYetUsed
  <2>2. \A p \in Replicas : waiting'[p] \subseteq waiting[p]
    BY DEF Around
  <2>3. /\ \A c \in ClientIDs : \A x \in Copies(c) : x.updatedAt # d
        /\ \A p \in Replicas : d \in waiting[p] => p = q
    BY <2>1, <2>2 DEF Inv, NotYetUsed
  <2>4. Served(r, at) => d # at
    BY <1>8, <2>1
  <2>5. QED
    BY <1>6, <2>2, <2>3, <2>4
<1>11. ClientVersionsAgree'
  <2>1. SUFFICES ASSUME NEW c \in ClientIDs, NEW x \in Copies(c)', NEW y \in Copies(c)',
                        x.updatedAt = y.updatedAt
                 PROVE  x = y
    BY DEF ClientVersionsAgree
  <2>2. CASE x \in Copies(c) /\ y \in Copies(c)
    BY <2>1, <2>2 DEF Inv, ClientVersionsAgree
  <2>3. QED
    BY <1>6, <1>8, <2>1, <2>2
<1>12. MemoryKeeps' /\ AcknowledgedSurvives'
  <2>1. SUFFICES ASSUME NEW q \in Replicas, NEW c \in ClientIDs
                 PROVE  /\ Version(mem'[q].clients[c]) >= acked'[q][c]
                        /\ Version(disk'[q].clients[c]) >= acked'[q][c]
    BY DEF MemoryKeeps, AcknowledgedSurvives, Version
  <2>2. /\ Version(mem[q].clients[c]) >= acked[q][c]
        /\ Version(disk[q].clients[c]) >= acked[q][c]
    BY DEF Inv, MemoryKeeps, AcknowledgedSurvives
  <2>3. CASE q # r
    BY <1>2, <2>2, <2>3 DEF Inv, TypeOK
  <2>4. CASE q = r
    <3>1. yielded[c] <= acked[q][c] /\ yielded[c] <= Version(state.clients[c])
      <4>1. CASE Version(state.clients[c]) >= Version(mem[r].clients[c])
        BY <1>1, <1>3, <2>2, <2>4, <4>1
      <4>2. CASE Version(state.clients[c]) = at
        BY <1>1, <1>3, <2>4, <4>2
      <4>3. state.clients[c] \in ClientRec => Version(state.clients[c]) = state.clients[c].updatedAt
        BY AbsentAssumption DEF Version
      <4>4. QED
        BY <4>1, <4>2, <4>3 DEF MayKeep
    <3> HIDE DEF yielded
    <3>2. mem'[q] = state
      BY <1>2, <2>4 DEF Inv, TypeOK
    <3>3. \/ disk'[q] = state /\ acked'[q] = NewestOf(yielded, Versions(state))
          \/ disk'[q] = disk[q] /\ acked'[q] = yielded
      BY <1>2, <2>4 DEF Inv, TypeOK
    <3>4. NewestOf(yielded, Versions(state))[c] \in {yielded[c], Version(state.clients[c])}
      BY DEF NewestOf, Versions
    <3>5. QED
      BY <1>3, <2>2, <2>4, <3>1, <3>2, <3>3, <3>4
  <2>5. QED
    BY <2>3, <2>4
<1>13. QED
  BY <1>4, <1>9, <1>10, <1>11, <1>12 DEF Inv

-----------------------------------------------------------------------------
(* The initial state *)

LEMMA FirstStateTyped ==
    ASSUME NEW r \in Replicas
    PROVE  FirstState(r) \in State /\ FirstState(r).clients = [c \in ClientIDs |-> NoClient]
  BY BootstrapAssumption DEF FirstState, Configured, State

LEMMA InitInv == Init => Inv
<1>1. SUFFICES ASSUME Init PROVE Inv
  OBVIOUS
<1>2. \A r \in Replicas : /\ mem[r] \in State /\ disk[r] = mem[r]
                          /\ mem[r].clients = [c \in ClientIDs |-> NoClient]
  BY <1>1, FirstStateTyped DEF Init
<1>3. \A r \in Replicas, c \in ClientIDs : Version(mem[r].clients[c]) = 0 /\ acked[r][c] = 0
  BY <1>1, <1>2 DEF Init, Version, Versions
<1>4. TypeOK
  <2>1. mem \in [Replicas -> State] /\ disk \in [Replicas -> State]
    BY <1>1, <1>2 DEF Init
  <2>2. acked \in [Replicas -> [ClientIDs -> Nat]]
    BY <1>1, <1>2 DEF Init, Version, Versions
  <2>3. Cardinality({}) = 0
    BY FS_EmptySet
  <2>4. waiting \in [Replicas -> SUBSET (1..clock)]
    BY <1>1 DEF Init
  <2>5. QED
    BY <1>1, <2>1, <2>2, <2>3, <2>4, BoundsAssumption DEF Init, TypeOK
<1>5. \A c \in ClientIDs : Copies(c) = {}
  BY <1>1, <1>2 DEF Init, Copies
<1>6. QED
  BY <1>1, <1>2, <1>3, <1>4, <1>5
     DEF Init, Inv, InThePast, NotYetUsed, MemoryKeeps, AcknowledgedSurvives, ClientVersionsAgree

-----------------------------------------------------------------------------
(* The handlers, which stamp what they change *)

(* A record that a handler leaves alone or stamps. *)
Touched(client, old, at) ==
    \/ client = old
    \/ client \in ClientRec /\ client.updatedAt = at

LEMMA TouchedMayKeep ==
    ASSUME Inv, NEW r \in Replicas, NEW clients \in [ClientIDs -> ClientRec \cup {NoClient}],
           NEW at \in {now} \cup waiting[r], Served(r, at),
           \A c \in ClientIDs : Touched(clients[c], mem[r].clients[c], at)
    PROVE  MayKeep(r, [mem[r] EXCEPT !.clients = clients], at)
<1> DEFINE state == [mem[r] EXCEPT !.clients = clients]
<1>1. mem[r] \in State
  BY DEF Inv, TypeOK
<1>2. state \in State /\ state.clients = clients
  BY <1>1 DEF State
<1>3. ASSUME NEW c \in ClientIDs
      PROVE  \/ /\ clients[c] \in Copies(c) \cup {NoClient}
                /\ Version(clients[c]) >= Version(mem[r].clients[c])
             \/ clients[c] \in ClientRec /\ clients[c].updatedAt = at
  <2>1. /\ mem[r].clients[c] \in ClientRec \cup {NoClient}
        /\ mem[r].clients[c] \in Copies(c) \cup {NoClient}
    BY <1>1 DEF State, Copies
  <2>2. Version(mem[r].clients[c]) \in Nat
    BY <2>1, VersionType
  <2>3. QED
    BY <2>1, <2>2 DEF Touched
<1>4. QED
  BY <1>2, <1>3 DEF MayKeep

(* What surrounds a handler that posts nothing. *)
LEMMA ServedAround ==
    ASSUME Inv, NEW r \in Replicas, NEW at, Served(r, at), UNCHANGED <<posting, wire>>
    PROVE  Around /\ at \in {now} \cup waiting[r]
<1>1. clock \in 0..MaxClock /\ waiting \in [Replicas -> SUBSET (1..clock)]
  BY DEF Inv, TypeOK
<1>2. /\ clock' \in 0..MaxClock /\ clock' \in {clock, now}
      /\ at \in {now} \cup waiting[r]
      /\ waiting' = waiting \/ waiting' = [waiting EXCEPT ![r] = waiting[r] \ {at}]
  BY <1>1, BoundsAssumption DEF Served, ServedAtOnce, Draw, now
<1>3. /\ waiting' \in [Replicas -> SUBSET (1..clock)]
      /\ \A q \in Replicas : waiting'[q] \subseteq waiting[q]
  BY <1>1, <1>2
<1>4. QED
  BY <1>2, <1>3 DEF Around, Inv, TypeOK

LEMMA AdviceTyped ==
    ASSUME NEW client \in ClientRec, NEW n \in NodeIDs, NEW at \in Nat
    PROVE  /\ Advise(client, n, at) \in ClientRec /\ Advise(client, n, at).updatedAt = at
           /\ Unadvise(client, at) \in ClientRec /\ Unadvise(client, at).updatedAt = at
  BY DEF Advise, Unadvise, ClientRec

LEMMA AdvisedTouched ==
    ASSUME NEW client \in ClientRec \cup {NoClient}, NEW old, NEW at \in Nat,
           Touched(client, old, at), NEW advised \in Advised(client, at)
    PROVE  advised \in ClientRec \cup {NoClient} /\ Touched(advised, old, at)
<1>1. CASE advised = client
  BY <1>1
<1>2. CASE client \in ClientRec /\ \E n \in NodeIDs : advised = Advise(client, n, at)
  BY <1>2, AdviceTyped DEF Touched
<1>3. CASE client \in ClientRec /\ advised = Unadvise(client, at)
  <2>1. NodeIDs # {}
    BY <1>3 DEF ClientRec
  <2>2. QED
    BY <1>3, <2>1, AdviceTyped DEF Touched
<1>4. QED
  BY <1>1, <1>2, <1>3 DEF Advised

(* A handler that leaves clients alone or stamps them, and then settles. *)
LEMMA SettleKeeps ==
    ASSUME Inv, NEW r \in Replicas, NEW clients \in [ClientIDs -> ClientRec \cup {NoClient}],
           NEW at \in Nat, NEW saved \in BOOLEAN,
           Served(r, at), Settle(r, clients, at, saved), UNCHANGED <<posting, wire>>,
           \A c \in ClientIDs : Touched(clients[c], mem[r].clients[c], at)
    PROVE  Inv'
<1>1. PICK advised \in [ClientIDs -> UNION {Advised(clients[c], at) : c \in ClientIDs}] :
        /\ \A c \in ClientIDs : advised[c] \in Advised(clients[c], at)
        /\ KeepClients(r, advised, at, saved)
  BY DEF Settle
<1>2. \A c \in ClientIDs : /\ advised[c] \in ClientRec \cup {NoClient}
                           /\ Touched(advised[c], mem[r].clients[c], at)
  BY <1>1, AdvisedTouched
<1>3. advised \in [ClientIDs -> ClientRec \cup {NoClient}]
  BY <1>1, <1>2
<1>4. Around /\ at \in {now} \cup waiting[r]
  BY ServedAround
<1>5. MayKeep(r, [mem[r] EXCEPT !.clients = advised], at)
  BY <1>2, <1>3, <1>4, TouchedMayKeep
<1>6. Keep(r, [mem[r] EXCEPT !.clients = advised], at, saved)
  BY <1>1 DEF KeepClients
<1>7. QED
  BY <1>4, <1>5, <1>6, KeepKeeps

LEMMA ClientsInMemory ==
    ASSUME Inv, NEW r \in Replicas
    PROVE  /\ mem[r] \in State
           /\ mem[r].clients \in [ClientIDs -> ClientRec \cup {NoClient}]
           /\ clock \in Nat /\ now \in Nat
  BY BoundsAssumption DEF Inv, TypeOK, State, now

LEMMA HandlerKeeps ==
    ASSUME Inv, NEW r \in Replicas, NEW at \in {now} \cup waiting[r], NEW saved \in BOOLEAN,
           \/ \E c \in ClientIDs :
                \/ \E n \in NodeIDs : PluginContact(r, c, n, at, saved)
                \/ PluginLogout(r, c, at, saved)
                \/ \E n \in NodeIDs \cup {None} : SetClientTarget(r, c, n, at, saved)
           \/ \E n \in NodeIDs : LeaveNode(r, n, at, saved)
           \/ HeartbeatNode(r, at, saved)
    PROVE  Inv'
<1> USE ClientsInMemory
<1>0. at \in Nat
  BY DEF Inv, TypeOK
<1>1. ASSUME NEW c \in ClientIDs, NEW n \in NodeIDs, PluginContact(r, c, n, at, saved)
      PROVE  Inv'
  <2> DEFINE client == Upserted(mem[r].clients[c], n, at)
             clients == [mem[r].clients EXCEPT ![c] = client]
  <2>1. client \in ClientRec /\ client.updatedAt = at
    BY <1>0 DEF Upserted, ClientRec
  <2>2. /\ clients \in [ClientIDs -> ClientRec \cup {NoClient}]
        /\ \A d \in ClientIDs : Touched(clients[d], mem[r].clients[d], at)
    BY <2>1 DEF Touched
  <2>3. Served(r, at) /\ Settle(r, clients, at, saved) /\ UNCHANGED <<posting, wire>>
    BY <1>1 DEF PluginContact
  <2> HIDE DEF clients
  <2>4. QED
    BY <1>0, <2>2, <2>3, SettleKeeps
<1>2. ASSUME NEW c \in ClientIDs, PluginLogout(r, c, at, saved)
      PROVE  Inv'
  <2> DEFINE client == Offline(mem[r].clients[c], at)
             clients == [mem[r].clients EXCEPT ![c] = client]
  <2>0. mem[r].clients[c] \in ClientRec
    BY <1>2 DEF PluginLogout
  <2>1. client \in ClientRec /\ client.updatedAt = at
    BY <1>0, <2>0 DEF Offline, ClientRec
  <2>2. /\ clients \in [ClientIDs -> ClientRec \cup {NoClient}]
        /\ \A d \in ClientIDs : Touched(clients[d], mem[r].clients[d], at)
    BY <2>1 DEF Touched
  <2>3. Served(r, at) /\ Settle(r, clients, at, saved) /\ UNCHANGED <<posting, wire>>
    BY <1>2 DEF PluginLogout
  <2> HIDE DEF clients
  <2>4. QED
    BY <1>0, <2>2, <2>3, SettleKeeps
<1>3. ASSUME NEW n \in NodeIDs, LeaveNode(r, n, at, saved)
      PROVE  Inv'
  <2> DEFINE clients == [c \in ClientIDs |->
                           LET client == mem[r].clients[c] IN
                           IF client = NoClient THEN NoClient
                           ELSE IF client.node = n THEN Offline(client, at) ELSE client]
  <2>1. \A client \in ClientRec : Offline(client, at) \in ClientRec
                                  /\ Offline(client, at).updatedAt = at
    BY <1>0 DEF Offline, ClientRec
  <2>2. /\ clients \in [ClientIDs -> ClientRec \cup {NoClient}]
        /\ \A d \in ClientIDs : Touched(clients[d], mem[r].clients[d], at)
    BY <2>1 DEF Touched
  <2>3. Served(r, at) /\ Settle(r, clients, at, saved) /\ UNCHANGED <<posting, wire>>
    BY <1>3 DEF LeaveNode
  <2> HIDE DEF clients
  <2>4. QED
    BY <1>0, <2>2, <2>3, SettleKeeps
<1>4. ASSUME HeartbeatNode(r, at, saved)
      PROVE  Inv'
  <2>1. \A d \in ClientIDs : Touched(mem[r].clients[d], mem[r].clients[d], at)
    BY DEF Touched
  <2>2. QED
    BY <1>0, <1>4, <2>1, SettleKeeps DEF HeartbeatNode
<1>5. ASSUME NEW c \in ClientIDs, NEW n \in NodeIDs \cup {None}, SetClientTarget(r, c, n, at, saved)
      PROVE  Inv'
  <2> DEFINE client == [mem[r].clients[c] EXCEPT !.preferred = n, !.updatedAt = at,
                                                 !.state = IF n = None THEN "" ELSE "manual"]
             clients == [mem[r].clients EXCEPT ![c] = client]
  <2>0. mem[r].clients[c] \in ClientRec
    BY <1>5 DEF SetClientTarget
  <2>1. client \in ClientRec /\ client.updatedAt = at
    BY <1>0, <2>0 DEF ClientRec
  <2>2. /\ clients \in [ClientIDs -> ClientRec \cup {NoClient}]
        /\ \A d \in ClientIDs : Touched(clients[d], mem[r].clients[d], at)
    BY <2>1 DEF Touched
  <2>3. Served(r, at) /\ KeepClients(r, clients, at, saved) /\ UNCHANGED <<posting, wire>>
    BY <1>5 DEF SetClientTarget
  <2> HIDE DEF clients
  <2>4. Around
    BY <2>3, ServedAround
  <2>5. MayKeep(r, [mem[r] EXCEPT !.clients = clients], at)
    BY <2>2, <2>3, TouchedMayKeep
  <2>6. QED
    BY <2>3, <2>4, <2>5, KeepKeeps DEF KeepClients
<1>6. QED
  BY <1>1, <1>2, <1>3, <1>4, <1>5

-----------------------------------------------------------------------------
(* Joining and synchronising: every record that is kept is a copy there is *)

LEMMA JoinKeeps ==
    ASSUME Inv, NEW r \in Replicas, NEW saved \in BOOLEAN, NEW q \in Replicas,
           JoinNode(r, q, saved)
    PROVE  Inv'
<1> DEFINE state == [mem[r] EXCEPT !.joined = @ \cup {q}, !.peers = (@ \cup {q}) \ {r}]
<1>1. mem[r] \in State /\ mem[r].clients \in [ClientIDs -> ClientRec \cup {NoClient}]
  BY ClientsInMemory
<1>2. state \in State /\ state.clients = mem[r].clients
  BY <1>1 DEF State
<1>3. \A c \in ClientIDs : /\ mem[r].clients[c] \in Copies(c) \cup {NoClient}
                           /\ Version(mem[r].clients[c]) \in Nat
  BY <1>1, VersionType DEF Copies
<1> HIDE DEF state
<1>4. MayKeep(r, state, now)
  BY <1>2, <1>3 DEF MayKeep
<1>5. Keep(r, state, now, saved) /\ clock' = clock /\ waiting' = waiting /\ posting' = posting /\ wire' = wire
  BY DEF JoinNode, state
<1>6. Around
  BY <1>5 DEF Around, Inv, TypeOK
<1>7. QED
  BY <1>4, <1>5, <1>6, KeepKeeps

(* MergeState keeps one of the two copies, and never the older one. *)
LEMMA MergedMayKeep ==
    ASSUME Inv, NEW r \in Replicas, NEW src \in Replicas, NEW remote \in State,
           \A c \in ClientIDs : remote.clients[c] \in Copies(c) \cup {NoClient}
    PROVE  MayKeep(r, Merged(r, src, remote), now)
<1>1. mem[r] \in State
  BY ClientsInMemory
<1>2. ASSUME NEW c \in ClientIDs
      PROVE  LET merged == MergeClient(mem[r].clients[c], remote.clients[c]) IN
             /\ merged \in ClientRec \cup {NoClient}
             /\ merged \in Copies(c) \cup {NoClient}
             /\ Version(merged) >= Version(mem[r].clients[c])
  <2>1. /\ mem[r].clients[c] \in ClientRec \cup {NoClient}
        /\ remote.clients[c] \in ClientRec \cup {NoClient}
        /\ mem[r].clients[c] \in Copies(c) \cup {NoClient}
    BY <1>1 DEF State, Copies
  <2>2. /\ Version(mem[r].clients[c]) \in Nat
        /\ Version(remote.clients[c]) \in Nat
    BY <2>1, VersionType
  <2>3. QED
    BY <2>1, <2>2 DEF MergeClient, Version
<1>3. MergePeers(r, mem[r].peers, src, remote) \in SUBSET Replicas
  BY <1>1 DEF MergePeers, State
<1>4. /\ Merged(r, src, remote) \in State
      /\ \A c \in ClientIDs :
           Merged(r, src, remote).clients[c] = MergeClient(mem[r].clients[c], remote.clients[c])
  <2> DEFINE clients == [c \in ClientIDs |-> MergeClient(mem[r].clients[c], remote.clients[c])]
  <2>1. clients \in [ClientIDs -> ClientRec \cup {NoClient}]
    BY <1>2
  <2>2. mem[r].joined \cup remote.joined \in SUBSET Replicas
    BY <1>1 DEF State
  <2>3. Merged(r, src, remote) = [clients |-> clients,
                                  peers |-> MergePeers(r, mem[r].peers, src, remote),
                                  joined |-> mem[r].joined \cup remote.joined]
    BY DEF Merged
  <2>4. \A c \in ClientIDs : clients[c] = MergeClient(mem[r].clients[c], remote.clients[c])
    OBVIOUS
  <2> HIDE DEF clients
  <2>5. QED
    BY <1>3, <2>1, <2>2, <2>3, <2>4 DEF State
<1>5. QED
  BY <1>2, <1>4 DEF MayKeep

LEMMA PullKeeps ==
    ASSUME Inv, NEW r \in Replicas, NEW saved \in BOOLEAN, NEW p \in Replicas,
           PullState(r, p, saved)
    PROVE  Inv'
<1>1. mem[p] \in State /\ \A c \in ClientIDs : mem[p].clients[c] \in Copies(c) \cup {NoClient}
  BY ClientsInMemory DEF Copies
<1>2. /\ Keep(r, Merged(r, p, mem[p]), now, saved) /\ clock' = clock /\ waiting' = waiting /\ wire' = wire
      /\ posting' = [posting EXCEPT ![r] = IF saved THEN {p} ELSE {}]
  BY DEF PullState
<1>3. Cardinality({p}) = 1 /\ Cardinality({}) = 0
  BY FS_EmptySet, FS_Singleton
<1>4. Around
  BY <1>2, <1>3 DEF Around, Inv, TypeOK
<1>5. MayKeep(r, Merged(r, p, mem[p]), now)
  BY <1>1, MergedMayKeep
<1>6. QED
  BY <1>2, <1>4, <1>5, KeepKeeps

LEMMA DeliverKeeps ==
    ASSUME Inv, NEW r \in Replicas, NEW saved \in BOOLEAN, DeliverPost(r, saved)
    PROVE  Inv'
<1>1. PICK m \in wire : /\ Keep(r, Merged(r, m.src, m.state), now, saved)
                        /\ wire' = wire \ {m}
                        /\ clock' = clock /\ waiting' = waiting /\ posting' = posting
  BY DEF DeliverPost
<1>2. /\ m.src \in Replicas /\ m.state \in State
      /\ \A c \in ClientIDs : m.state.clients[c] \in Copies(c) \cup {NoClient}
  BY DEF Copies, Inv, TypeOK, Message
<1>3. Around
  BY <1>1 DEF Around, Inv, TypeOK
<1>4. MayKeep(r, Merged(r, m.src, m.state), now)
  BY <1>2, MergedMayKeep
<1>5. QED
  BY <1>1, <1>3, <1>4, KeepKeeps

(* A step that makes no new copy and forgets nothing that was saved. *)
LEMMA NoNewCopyKeeps ==
    ASSUME Inv, TypeOK', clock' = clock,
           \A r \in Replicas : waiting'[r] \subseteq waiting[r],
           \A c \in ClientIDs : Copies(c)' \subseteq Copies(c),
           MemoryKeeps', AcknowledgedSurvives'
    PROVE  Inv'
<1>1. InThePast' /\ ClientVersionsAgree'
  BY DEF Inv, InThePast, ClientVersionsAgree
<1>2. NotYetUsed'
  BY DEF Inv, NotYetUsed
<1>3. QED
  BY <1>1, <1>2 DEF Inv

LEMMA PostKeeps ==
    ASSUME Inv, NEW r \in Replicas, PostState(r) \/ PostFails(r) \/ LosePost
    PROVE  Inv'
<1>1. UNCHANGED <<clock, waiting, mem, disk, acked, faults>>
  BY DEF PostState, PostFails, LosePost
<1>2. posting' = posting \/ posting' = [posting EXCEPT ![r] = {}]
  BY DEF PostState, PostFails, LosePost
<1>3. \/ wire' \in SUBSET wire
      \/ \E p \in Replicas : wire' = wire \cup {[src |-> r, dst |-> p, state |-> mem[r]]}
  BY DEF PostState, PostFails, LosePost, Inv, TypeOK
<1>4. TypeOK'
  <2>1. Cardinality({}) = 0
    BY FS_EmptySet
  <2>2. wire' \in SUBSET Message
    BY <1>3, ClientsInMemory DEF Message, Inv, TypeOK
  <2>3. /\ posting' \in [Replicas -> SUBSET Replicas]
        /\ \A q \in Replicas : posting'[q] \in {posting[q], {}}
    BY <1>2 DEF Inv, TypeOK
  <2>4. ASSUME NEW q \in Replicas PROVE Cardinality(posting'[q]) < 2
    <3>1. CASE posting'[q] = posting[q]
      BY <3>1 DEF Inv, TypeOK
    <3>2. CASE posting'[q] = {}
      BY <2>1, <3>2
    <3>3. QED
      BY <2>3, <3>1, <3>2
  <2>5. QED
    BY <1>1, <2>2, <2>3, <2>4 DEF Inv, TypeOK
<1>5. \A c \in ClientIDs : Copies(c)' \subseteq Copies(c)
  BY <1>1, <1>3 DEF Copies
<1>6. MemoryKeeps' /\ AcknowledgedSurvives'
  BY <1>1 DEF MemoryKeeps, AcknowledgedSurvives, Version, Inv
<1>7. QED
  BY <1>1, <1>4, <1>5, <1>6, NoNewCopyKeeps

LEMMA RestartKeeps == ASSUME Inv, NEW r \in Replicas, Restart(r) PROVE Inv'
<1> DEFINE state == Configured(r, disk[r])
<1>1. /\ mem' = [mem EXCEPT ![r] = state] /\ disk' = [disk EXCEPT ![r] = state]
      /\ posting' = [posting EXCEPT ![r] = {}] /\ waiting' = [waiting EXCEPT ![r] = {}]
      /\ UNCHANGED <<clock, wire, acked>> /\ Fault
  BY DEF Restart, Inv, TypeOK
<1>2. state \in State /\ state.clients = disk[r].clients
  <2>1. disk[r] \in State
    BY DEF Inv, TypeOK
  <2>2. QED
    BY <2>1, BootstrapAssumption DEF Configured, State
<1> HIDE DEF state
<1>3. TypeOK'
  <2>1. Cardinality({}) = 0
    BY FS_EmptySet
  <2>2. faults' \in 0..MaxFaults
    BY <1>1, BoundsAssumption DEF Fault, Inv, TypeOK
  <2>3. mem' \in [Replicas -> State] /\ disk' \in [Replicas -> State]
    BY <1>1, <1>2 DEF Inv, TypeOK
  <2>4. posting' \in [Replicas -> SUBSET Replicas] /\ \A q \in Replicas : Cardinality(posting'[q]) < 2
    BY <1>1, <2>1 DEF Inv, TypeOK
  <2>5. waiting' \in [Replicas -> SUBSET (1..clock)]
    BY <1>1 DEF Inv, TypeOK
  <2>6. QED
    BY <1>1, <2>2, <2>3, <2>4, <2>5 DEF Inv, TypeOK
<1>4. \A q \in Replicas : /\ mem'[q].clients \in {mem[q].clients, disk[q].clients}
                          /\ disk'[q].clients = disk[q].clients
                          /\ q = r => mem'[q].clients = disk[q].clients
                          /\ q # r => mem'[q].clients = mem[q].clients
  BY <1>1, <1>2 DEF Inv, TypeOK
<1>5. \A c \in ClientIDs : Copies(c)' \subseteq Copies(c)
  BY <1>1, <1>4 DEF Copies
<1>6. MemoryKeeps' /\ AcknowledgedSurvives'
  BY <1>1, <1>4 DEF MemoryKeeps, AcknowledgedSurvives, Version, Inv
<1>7. \A q \in Replicas : waiting'[q] \subseteq waiting[q]
  BY <1>1 DEF Inv, TypeOK
<1>8. QED
  BY <1>1, <1>3, <1>5, <1>6, <1>7, NoNewCopyKeeps

(* A handler that waits has an instant that no copy and no other has. *)
LEMMA WaitKeeps == ASSUME Inv, NEW r \in Replicas, Wait(r) PROVE Inv'
<1>1. /\ clock \in Nat /\ now = clock + 1 /\ clock' = now /\ clock' \in 0..MaxClock
      /\ waiting' = [waiting EXCEPT ![r] = waiting[r] \cup {now}]
      /\ UNCHANGED <<mem, disk, posting, wire, acked, faults>>
  BY BoundsAssumption DEF Wait, Draw, now, Inv, TypeOK
<1>2. \A q \in Replicas : /\ waiting[q] \subseteq 1..clock
                          /\ waiting'[q] = waiting[q] \/ (q = r /\ waiting'[q] = waiting[q] \cup {now})
  BY <1>1 DEF Inv, TypeOK
<1>3. TypeOK'
  <2>1. waiting' \in [Replicas -> SUBSET (1..clock')]
    <3>1. 1..clock \subseteq 1..clock' /\ now \in 1..clock'
      BY <1>1
    <3>2. \A q \in Replicas : waiting'[q] \subseteq 1..clock'
      BY <1>2, <3>1
    <3>3. QED
      BY <1>1, <3>2 DEF Inv, TypeOK
  <2>2. QED
    BY <1>1, <2>1 DEF Inv, TypeOK
<1>4. \A c \in ClientIDs : Copies(c)' = Copies(c)
  BY <1>1 DEF Copies
<1>5. \A c \in ClientIDs : \A x \in Copies(c) : x.updatedAt \in Nat /\ x.updatedAt <= clock
  <2>1. \A c \in ClientIDs : Copies(c) \subseteq ClientRec
    BY CopiesType DEF Inv
  <2>2. QED
    BY <2>1 DEF ClientRec, Inv, InThePast
<1>6. InThePast'
  BY <1>1, <1>4, <1>5 DEF InThePast
<1>7. NotYetUsed'
  <2>1. SUFFICES ASSUME NEW q \in Replicas, NEW at \in waiting'[q]
                 PROVE  /\ \A c \in ClientIDs : \A x \in Copies(c) : x.updatedAt # at
                        /\ \A p \in Replicas : at \in waiting'[p] => p = q
    BY <1>4 DEF NotYetUsed
  <2>2. CASE at = now
    BY <1>1, <1>2, <1>5, <2>1, <2>2
  <2>3. CASE at # now
    <3>1. \A p \in Replicas : at \in waiting'[p] => at \in waiting[p]
      BY <1>2, <2>3
    <3>2. QED
      BY <2>1, <3>1 DEF Inv, NotYetUsed
  <2>4. QED
    BY <2>2, <2>3
<1>8. /\ MemoryKeeps' /\ AcknowledgedSurvives'
      /\ ClientVersionsAgree'
  BY <1>1, <1>4 DEF MemoryKeeps, AcknowledgedSurvives, ClientVersionsAgree, Version, Inv
<1>9. QED
  BY <1>3, <1>6, <1>7, <1>8 DEF Inv

-----------------------------------------------------------------------------
LEMMA StepKeepsInv == ASSUME Inv, [Next]_vars PROVE Inv'
<1>1. ASSUME NEW r \in Replicas, NEW saved \in BOOLEAN,
             NEW at \in {now} \cup waiting[r], Handler(r, at, saved)
      PROVE  Inv'
  BY <1>1, HandlerKeeps DEF Handler
<1>2. ASSUME UNCHANGED vars
      PROVE  Inv'
  BY <1>2 DEF vars, Inv, TypeOK, InThePast, NotYetUsed, MemoryKeeps,
              AcknowledgedSurvives, ClientVersionsAgree, Copies, Version
<1>3. ASSUME LosePost
      PROVE  Inv'
  <2>1. PICK m \in wire : TRUE
    BY <1>3 DEF LosePost
  <2>2. m.src \in Replicas
    BY DEF Inv, TypeOK, Message
  <2>3. QED
    BY <1>3, <2>2, PostKeeps
<1>4. QED
  BY <1>1, <1>2, <1>3, JoinKeeps, WaitKeeps, PullKeeps, DeliverKeeps, PostKeeps, RestartKeeps
     DEF Next

LEMMA AlwaysInv == Spec => []Inv
  BY InitInv, StepKeepsInv, PTL DEF Spec

(* Types, in every deployment: the sync loop deals with one peer at a time *)
(* (runPeerSync of main.go).                                               *)
THEOREM TypeCorrect == Spec => []TypeOK
  BY AlwaysInv, PTL DEF Inv

(* A restart never takes back what a handler or a merge has acknowledged,  *)
(* however many saves have failed before it (saveLocked of store.go); only *)
(* a handler that had waited for the mutex does.                           *)
THEOREM AcknowledgedWritesSurvive == Spec => []AcknowledgedSurvives
  BY AlwaysInv, PTL DEF Inv

(* Last-write-wins never takes two different records for equal, whatever   *)
(* was restarted, lost, or delivered late (MergeState of service.go).      *)
THEOREM VersionsAgree == Spec => []ClientVersionsAgree
  BY AlwaysInv, PTL DEF Inv
===============================================================================
