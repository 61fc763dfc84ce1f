------------------------------ MODULE PeerStore -------------------------------
(***************************************************************************)
(* Client records, peer lists and the state file of every control plane    *)
(* (store.go): what Membership leaves out of the state that control planes *)
(* keep, save and copy from one another.                                   *)
(*                                                                         *)
(* Every handler changes the state in memory and then saves all of it,     *)
(* under the mutex.  If the save fails the caller is told so and the       *)
(* change stays in memory, from where it is copied to peers; a restart     *)
(* goes back to the file.  The file is replaced by a rename, by one writer *)
(* at a time, so it always holds the last state that was saved.            *)
(*                                                                         *)
(* A control plane's URL is its name, and each is on a machine whose node  *)
(* record carries that URL.  Which node is recommended is ControlStore's   *)
(* matter: here it is any.  Clocks are as in Membership: a handler draws   *)
(* its instant with time.Now() before it waits for the mutex, so it may    *)
(* write an older version over a newer one.                                *)
(***************************************************************************)
EXTENDS Integers, FiniteSets

CONSTANTS
    Replicas,     \* control planes
    Bootstrap,    \* Bootstrap[r]: the peers r is started with (--peer)
    Joins,        \* Joins[r]: the machines that join at r, and had before its peers start
    NodeIDs,      \* proxy nodes
    ClientIDs,    \* clients
    NoClient,     \* absent key of state.Clients
    None,         \* the empty node id
    MaxClock,     \* bound: instants in a behaviour
    MaxWaiting,   \* bound: handlers waiting for the mutex of a control plane
    MaxFaults,    \* bound: restarts of control planes and saves that fail
    MaxPosts      \* bound: POSTs in flight at once

ClientRec ==
    [node : NodeIDs, status : {"online", "offline"}, preferred : NodeIDs \cup {None},
     state : {"", "pending", "manual"}, updatedAt : Nat]

ASSUME BootstrapAssumption ==
    Bootstrap \in [Replicas -> SUBSET Replicas] /\ Joins \in [Replicas -> SUBSET Replicas]
ASSUME BoundsAssumption ==
    MaxClock \in Nat /\ MaxWaiting \in Nat /\ MaxFaults \in Nat /\ MaxPosts \in Nat
ASSUME AbsentAssumption == NoClient \notin ClientRec /\ None \notin NodeIDs

(* The part of ClusterState kept here; joined: the control planes whose    *)
(* node record it has.                                                     *)
State ==
    [clients : [ClientIDs -> ClientRec \cup {NoClient}], peers : SUBSET Replicas,
     joined : SUBSET Replicas]

VARIABLES
    clock,     \* the current instant
    waiting,   \* waiting[r]: instants of the handlers that wait for the mutex of r
    mem,       \* mem[r]: the state of control plane r
    disk,      \* disk[r]: its state file
    posting,   \* posting[r]: the peer its sync loop has merged and will post to, or none
    wire,      \* POST bodies in flight
    acked,     \* history: acked[r][c]: newest version of c that r has saved, or the
               \* older one that a handler that had waited wrote over it
    faults     \* how many there were

vars == <<clock, waiting, mem, disk, posting, wire, acked, faults>>

Message == [src : Replicas, dst : Replicas, state : State]

now == clock + 1
Fault == faults < MaxFaults /\ faults' = faults + 1
Draw == clock < MaxClock /\ clock' = now

Version(client) == IF client = NoClient THEN 0 ELSE client.updatedAt

Versions(state) == [c \in ClientIDs |-> Version(state.clients[c])]

NewestOf(u, v) == [c \in ClientIDs |-> IF u[c] > v[c] THEN u[c] ELSE v[c]]

-----------------------------------------------------------------------------
(* saveLocked, which ends every handler; at: what the handler has stamped  *)
(* its changes with, and now if it stamps none.                            *)
Keep(r, state, at, saved) ==
    LET yielded == [c \in ClientIDs |->
                      IF Version(state.clients[c]) = at /\ at < acked[r][c] THEN at
                      ELSE acked[r][c]] IN
    /\ mem' = [mem EXCEPT ![r] = state]
    /\ disk' = IF saved THEN [disk EXCEPT ![r] = state] ELSE disk
    /\ acked' = [acked EXCEPT ![r] = IF saved THEN NewestOf(yielded, Versions(state)) ELSE yielded]
    /\ IF saved THEN UNCHANGED faults ELSE Fault

KeepClients(r, clients, at, saved) == Keep(r, [mem[r] EXCEPT !.clients = clients], at, saved)

(* A handler finds the mutex free ... *)
ServedAtOnce == Draw /\ UNCHANGED waiting

(* ... or has to wait for it ... *)
Wait(r) ==
    /\ Cardinality(waiting[r]) < MaxWaiting
    /\ Draw
    /\ waiting' = [waiting EXCEPT ![r] = @ \cup {now}]
    /\ UNCHANGED <<mem, disk, posting, wire, acked, faults>>

(* ... and is served after others that were later. *)
Served(r, at) ==
    \/ at = now /\ ServedAtOnce
    \/ at \in waiting[r] /\ waiting' = [waiting EXCEPT ![r] = @ \ {at}] /\ UNCHANGED clock

(* Mutant of Advise: only an administrator's change is stamped. *)
AdviseUnstamped(client, node, at) == [client EXCEPT !.preferred = node, !.state = "pending"]

Advise(client, node, at) ==
    [client EXCEPT !.preferred = node, !.state = "pending", !.updatedAt = at]

Unadvise(client, at) == [client EXCEPT !.preferred = None, !.state = "", !.updatedAt = at]

(* applyMigrationRecommendationsLocked with AutoMigration on: what may     *)
(* become of an online client, whose record is stamped if it changes.  A   *)
(* new reason for the same target changes it as well.                      *)
Advised(client, at) ==
    IF client = NoClient THEN {client}
    ELSE IF client.status # "online" THEN {client}
    ELSE {client} \cup {Advise(client, n, at) : n \in NodeIDs}
           \cup (IF client.state = "" THEN {} ELSE {Unadvise(client, at)})

(* How the handlers of nodes and the frps plugin end. *)
Settle(r, clients, at, saved) ==
    \E advised \in [ClientIDs -> UNION {Advised(clients[c], at) : c \in ClientIDs}] :
        /\ \A c \in ClientIDs : advised[c] \in Advised(clients[c], at)
        /\ KeepClients(r, advised, at, saved)

(* upsertClientLocked, by a login, a ping or a new proxy. *)
Upserted(client, n, at) ==
    IF client = NoClient
    THEN [node |-> n, status |-> "online", preferred |-> None, state |-> "", updatedAt |-> at]
    ELSE [client EXCEPT !.node = n, !.status = "online", !.updatedAt = at]

Offline(client, at) == [client EXCEPT !.status = "offline", !.updatedAt = at]

-----------------------------------------------------------------------------
(* The handlers *)

PluginContact(r, c, n, at, saved) ==
    /\ Served(r, at)
    /\ Settle(r, [mem[r].clients EXCEPT ![c] = Upserted(@, n, at)], at, saved)
    /\ UNCHANGED <<posting, wire>>

PluginLogout(r, c, at, saved) ==
    /\ mem[r].clients[c] # NoClient
    /\ Served(r, at)
    /\ Settle(r, [mem[r].clients EXCEPT ![c] = Offline(@, at)], at, saved)
    /\ UNCHANGED <<posting, wire>>

(* leaveNode: the node's clients go offline. *)
LeaveNode(r, n, at, saved) ==
    /\ Served(r, at)
    /\ Settle(r, [c \in ClientIDs |->
                    LET client == mem[r].clients[c] IN
                    IF client = NoClient THEN NoClient
                    ELSE IF client.node = n THEN Offline(client, at) ELSE client], at, saved)
    /\ UNCHANGED <<posting, wire>>

(* A heartbeat, or any other plugin event: only the recommendations.       *)
HeartbeatNode(r, at, saved) ==
    /\ Served(r, at)
    /\ Settle(r, mem[r].clients, at, saved)
    /\ UNCHANGED <<posting, wire>>

(* SetClientTarget and AutoSwitchClientTarget; None clears the target. *)
SetClientTarget(r, c, n, at, saved) ==
    /\ mem[r].clients[c] # NoClient
    /\ Served(r, at)
    /\ KeepClients(r,
           [mem[r].clients EXCEPT ![c].preferred = n, ![c].updatedAt = at,
                                  ![c].state = IF n = None THEN "" ELSE "manual"], at, saved)
    /\ UNCHANGED <<posting, wire>>

(* The machine of control plane q joins again at r. *)
JoinNode(r, q, saved) ==
    /\ q \in Joins[r]
    /\ Keep(r, [mem[r] EXCEPT !.joined = @ \cup {q}, !.peers = (@ \cup {q}) \ {r}], now, saved)
    /\ UNCHANGED <<clock, waiting, posting, wire>>

-----------------------------------------------------------------------------
(* MergeState *)

(* Mutants of MergeClient: what arrives is taken, however old; a client    *)
(* already known is not updated.                                           *)
MergeClientAlways(local, remote) == IF remote = NoClient THEN local ELSE remote
MergeClientOnlyNew(local, remote) == IF local = NoClient THEN remote ELSE local

MergeClient(local, remote) ==
    IF remote = NoClient THEN local
    ELSE IF local = NoClient THEN remote
    ELSE IF remote.updatedAt > local.updatedAt THEN remote
    ELSE local

(* The own URL is taken out before the ones of the node records are put in.*)
MergePeers(r, peers, src, remote) ==
    ((peers \cup remote.peers \cup {src}) \ {r}) \cup remote.joined

Merged(r, src, remote) ==
    LET local == mem[r] IN
    [clients |-> [c \in ClientIDs |-> MergeClient(local.clients[c], remote.clients[c])],
     peers |-> MergePeers(r, local.peers, src, remote),
     joined |-> local.joined \cup remote.joined]

(* Mutant of PullState: the next peer is begun with before the POST. *)
PullStateAhead(r, p, saved) ==
    /\ p \in mem[r].peers
    /\ Keep(r, Merged(r, p, mem[p]), now, saved)
    /\ posting' = [posting EXCEPT ![r] = IF saved THEN @ \cup {p} ELSE @]
    /\ UNCHANGED <<clock, waiting, wire>>

(* runPeerSync and syncPeer of main.go, the peers in any order.  What the  *)
(* GET reads is merged at once: an answer that is late is merged just as a *)
(* late POST is, and those are below.  A merge that cannot be saved ends   *)
(* the round with this peer.                                               *)
PullState(r, p, saved) ==
    /\ posting[r] = {} /\ p \in mem[r].peers
    /\ Keep(r, Merged(r, p, mem[p]), now, saved)
    /\ posting' = [posting EXCEPT ![r] = IF saved THEN {p} ELSE {}]
    /\ UNCHANGED <<clock, waiting, wire>>

PostState(r) ==
    /\ Cardinality(wire) < MaxPosts
    /\ \E p \in posting[r] : wire' = wire \cup {[src |-> r, dst |-> p, state |-> mem[r]]}
    /\ posting' = [posting EXCEPT ![r] = {}]
    /\ UNCHANGED <<clock, waiting, mem, disk, acked, faults>>

PostFails(r) ==
    /\ posting[r] # {}
    /\ posting' = [posting EXCEPT ![r] = {}]
    /\ UNCHANGED <<clock, waiting, mem, disk, wire, acked, faults>>

(* handlePeerState *)
DeliverPost(r, saved) ==
    \E m \in wire :
        /\ m.dst = r
        /\ Keep(r, Merged(r, m.src, m.state), now, saved)
        /\ wire' = wire \ {m}
        /\ UNCHANGED <<clock, waiting, posting>>

LosePost ==
    \E m \in wire :
        /\ wire' = wire \ {m}
        /\ UNCHANGED <<clock, waiting, mem, disk, posting, acked, faults>>

(* load and ConfigureControlPlaneWithOptions: the file, and the peers of   *)
(* the command line, but not the own URL.  What was sent stays under way.  *)
Configured(r, state) == [state EXCEPT !.peers = (@ \cup Bootstrap[r]) \ {r}]

Restart(r) ==
    /\ Fault
    /\ mem' = [mem EXCEPT ![r] = Configured(r, disk[r])]
    /\ disk' = [disk EXCEPT ![r] = mem'[r]]
    /\ posting' = [posting EXCEPT ![r] = {}]
    /\ waiting' = [waiting EXCEPT ![r] = {}]
    /\ UNCHANGED <<clock, wire, acked>>

-----------------------------------------------------------------------------
FirstState(r) ==
    Configured(r, [clients |-> [c \in ClientIDs |-> NoClient], peers |-> Joins[r], joined |-> Joins[r]])

Init ==
    /\ clock = 0
    /\ waiting = [r \in Replicas |-> {}]
    /\ mem = [r \in Replicas |-> FirstState(r)]
    /\ disk = mem
    /\ posting = [r \in Replicas |-> {}]
    /\ wire = {}
    /\ acked = [r \in Replicas |-> Versions(mem[r])]
    /\ faults = 0

Handler(r, at, saved) ==
    \/ \E c \in ClientIDs :
         \/ \E n \in NodeIDs : PluginContact(r, c, n, at, saved)
         \/ PluginLogout(r, c, at, saved)
         \/ \E n \in NodeIDs \cup {None} : SetClientTarget(r, c, n, at, saved)
    \/ \E n \in NodeIDs : LeaveNode(r, n, at, saved)
    \/ HeartbeatNode(r, at, saved)

Next ==
    \/ \E r \in Replicas :
         \/ \E saved \in BOOLEAN :
              \/ \E at \in waiting[r] \cup {now} : Handler(r, at, saved)
              \/ \E q \in Replicas : JoinNode(r, q, saved)
              \/ \E p \in Replicas : PullState(r, p, saved)
              \/ DeliverPost(r, saved)
         \/ Wait(r)
         \/ PostState(r) \/ PostFails(r)
         \/ Restart(r)
    \/ LosePost

Spec == Init /\ [][Next]_vars

(* The loop is a goroutine that comes round to every peer of its list      *)
(* again and again, as no request takes it more than five seconds.  Of     *)
(* infinitely many GETs to a peer infinitely many are answered, merged and *)
(* saved; a POST need never arrive.                                        *)
Fairness ==
    \A r \in Replicas :
        /\ WF_vars(PostState(r) \/ PostFails(r))
        /\ \A p \in Replicas \ {r} : SF_vars(PullState(r, p, TRUE))

FairSpec == Spec /\ Fairness

-----------------------------------------------------------------------------
(* Properties *)

(* Types; the loop deals with one peer at a time. *)
TypeOK ==
    /\ clock \in 0..MaxClock
    /\ waiting \in [Replicas -> SUBSET (1..clock)]
    /\ mem \in [Replicas -> State]
    /\ disk \in [Replicas -> State]
    /\ posting \in [Replicas -> SUBSET Replicas]
    /\ wire \in SUBSET Message
    /\ acked \in [Replicas -> [ClientIDs -> Nat]]
    /\ faults \in 0..MaxFaults
    /\ \A r \in Replicas : Cardinality(posting[r]) < 2

(* What was acknowledged survives: at every moment the file that a restart *)
(* would read holds every client as new as any version the control plane   *)
(* has ever saved, own or merged, whatever saves have failed since.  Only  *)
(* a handler that had waited for the mutex takes a version back, by one of *)
(* its own that it drew before; from then on that one counts.              *)
AcknowledgedSurvives ==
    \A r \in Replicas, c \in ClientIDs : Version(disk[r].clients[c]) >= acked[r][c]

Copies(c) ==
    ({mem[r].clients[c] : r \in Replicas} \cup {disk[r].clients[c] : r \in Replicas}
        \cup {m.state.clients[c] : m \in wire}) \ {NoClient}

(* Two copies of a client of one version are the same, in memory, in a     *)
(* file or under way, and stay so when a control plane forgets changes it  *)
(* had already passed on and goes on from an older state: last-write-wins  *)
(* never takes different records for equal.                                *)
ClientVersionsAgree ==
    \A c \in ClientIDs :
        \A x, y \in Copies(c) : x.updatedAt = y.updatedAt => x = y

(* "Every proxy server runs the Web control plane and they synchronise     *)
(* their state; any of them shows the cluster" (README.md:107): once       *)
(* nothing new happens, control planes have the same clients, whatever     *)
(* saves failed, POSTs were lost or late and restarts went back to the     *)
(* file meanwhile, and although they poll themselves as well.              *)
EveryoneAgrees == <>[](\A r, p \in Replicas : mem[r].clients = mem[p].clients)
===============================================================================
