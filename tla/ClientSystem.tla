---------------------------- MODULE ClientSystem -----------------------------
(***************************************************************************)
(* The client daemon of FrpcClient together with the control plane that    *)
(* answers it: the nodes online, the client's record there, and the choice *)
(* of nodes the two make together (selectNodesForClient of service.go).    *)
(* FrpcClient lets the control plane answer with any nodes.                *)
(*                                                                         *)
(* A running frpc reports to the control plane through the frps plugin of  *)
(* its node; a report may be late, and come from a process that is being   *)
(* drained or gone.  Nodes come and go, administrators and the auto-switch *)
(* loop set and clear the client's target (ControlStore has why).          *)
(*                                                                         *)
(* The order of sortNodesByPreference is Scheduler's matter and changes    *)
(* with every heartbeat: here it is any.                                   *)
(***************************************************************************)
EXTENDS FrpcClient

CONSTANTS
    NoClient,   \* the control plane has no record of the client
    None        \* no manual target

ClientRec == [node : NodeIDs, target : NodeIDs \cup {None}]

ASSUME AbsentRecordAssumption == NoClient \notin ClientRec /\ None \notin NodeIDs

VARIABLES
    online,   \* nodes the control plane takes for online
    client,   \* the client's record at the control plane
    pings     \* nodes the client was reported at, not applied yet

serverVars == <<online, client, pings>>
systemVars == <<vars, serverVars>>

Target == IF client = NoClient THEN None ELSE client.target

-----------------------------------------------------------------------------
(* Mutant of pinnedNode: the current node goes before the target. *)
pinnedNodeCurrent(nodes) ==
    IF client = NoClient THEN {}
    ELSE IF client.node \in nodes THEN {client.node}
    ELSE {Target} \cap nodes

(* pinnedNode: the manual target, or else the current node, if available.  *)
pinnedNode(nodes) ==
    IF client = NoClient THEN {}
    ELSE IF Target \in nodes THEN {Target}
    ELSE {client.node} \cap nodes

pinnedOrAny(nodes) ==
    IF pinnedNode(nodes) # {} THEN {pinnedNode(nodes)} ELSE {{n} : n \in nodes}

(* selectNodesForClient, of the nodes it may choose from: none is an error.*)
selectNodesForClient(nodes) ==
    LET limit == IF Limit > Cardinality(nodes) THEN Cardinality(nodes) ELSE Limit IN
    CASE nodes = {} -> {}
      [] nodes # {} /\ Mode = "aggregate" -> {nodes}
      [] nodes # {} /\ Mode = "failover" /\ limit # 1 ->
             {S \in SUBSET nodes : Cardinality(S) = limit}
      [] OTHER -> pinnedOrAny(nodes)

(* A sync is answered with the files of the nodes selected. *)
Served(excluded) ==
    /\ {files'[p].node : p \in {q \in Paths : files'[q] # NoFile}}
            \in selectNodesForClient(online \ excluded)
    /\ UNCHANGED serverVars

ServedFirst == FirstSync /\ Served({})

(* Mutant of ServedTick: the nodes of exited processes stay excluded. *)
ServedTickExcluding == Tick /\ Served(ExitedNodes)

ServedTick == Tick /\ Served({})

ServedFailover == FailoverTick /\ Served(ExitedNodes)

(* The steps of the daemon for which it asks nobody. *)
DaemonAlone ==
    /\ FirstSyncFails \/ Restart \/ Interrupt \/ Killed \/ Reconcile \/ Drain \/ Exits
    /\ UNCHANGED serverVars

-----------------------------------------------------------------------------
(* A process, an orphan too, logs in at its node, or pings it. *)
Report(n) ==
    /\ n \in orphans \/ \E process \in Running : process.hash.node = n
    /\ pings' = pings \cup {n}
    /\ UNCHANGED <<vars, online, client>>

(* ApplyPluginEvent with a login or a ping; the node is online with it. *)
ApplyPluginEvent(n) ==
    /\ n \in pings
    /\ pings' = pings \ {n}
    /\ online' = online \cup {n}
    /\ client' = [node |-> n, target |-> Target]
    /\ UNCHANGED vars

(* SetClientTarget and AutoSwitchClientTarget: an online node is needed. *)
SetClientTarget(n) ==
    /\ client # NoClient /\ n \in online
    /\ client' = [client EXCEPT !.target = n]
    /\ UNCHANGED <<vars, online, pings>>

(* The target cleared, by an administrator or for a recommendation. *)
ClearTarget ==
    /\ client # NoClient
    /\ client' = [client EXCEPT !.target = None]
    /\ UNCHANGED <<vars, online, pings>>

HeartbeatNode(n) ==
    /\ online' = online \cup {n}
    /\ UNCHANGED <<vars, client, pings>>

(* A node leaves, or is not heard of for 90 seconds. *)
NodeGone(n) ==
    /\ online' = online \ {n}
    /\ UNCHANGED <<vars, client, pings>>

-----------------------------------------------------------------------------
SystemInit == Init /\ online = {} /\ client = NoClient /\ pings = {}

SystemNext ==
    \/ ServedFirst \/ ServedTick \/ ServedFailover \/ DaemonAlone
    \/ ClearTarget
    \/ \E n \in NodeIDs :
         Report(n) \/ ApplyPluginEvent(n) \/ SetClientTarget(n) \/ HeartbeatNode(n) \/ NodeGone(n)

SystemSpec == SystemInit /\ [][SystemNext]_systemVars

(* The first synchronisation ends, well or not, and the goroutine runs on  *)
(* as in FrpcClient; besides, the select of runClient takes one of the     *)
(* tickers that have fired at random, so the ordinary one has its turn     *)
(* among the others, and frpc can be started for any node now and then.    *)
FairSystemSpec ==
    /\ SystemSpec
    /\ WF_systemVars(ServedFirst \/ (FirstSyncFails /\ UNCHANGED serverVars))
    /\ WF_systemVars(Reconcile /\ UNCHANGED serverVars)
    /\ WF_systemVars(Drain /\ UNCHANGED serverVars)
    /\ SF_systemVars(ServedTick)
    /\ \A n \in NodeIDs :
         SF_systemVars(StartNew /\ Head(todo) = Path(n) /\ UNCHANGED serverVars)

-----------------------------------------------------------------------------
(* Properties *)

RunsAt(n) == \E process \in Running : process.hash.node = n

(* "Wait for the client's next synchronisation" after a manual switch      *)
(* (docs/proxy-cluster-deployment.md:466): a client runs at its manual     *)
(* target in the end, whatever it ran at and however late its old          *)
(* processes report, unless the target changes or goes offline first, or   *)
(* the client is stopped.                                                  *)
TargetIsFollowed ==
    \A n \in NodeIDs :
        (Target = n /\ n \in online)
            ~> (RunsAt(n) \/ Target # n \/ n \notin online \/ pc \in {"stopped", "killed"})

(* A client all of whose processes have exited runs again.  The failover   *)
(* ticker excludes all their nodes and may be refused for want of another: *)
(* the ordinary ticker must not exclude any.                               *)
DownIsRetried ==
    (pc = "idle" /\ Running = {}) ~> (Running # {} \/ online = {} \/ pc \in {"stopped", "killed"})
===============================================================================
