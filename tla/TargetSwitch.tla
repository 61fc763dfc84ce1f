----------------------------- MODULE TargetSwitch -----------------------------
(***************************************************************************)
(* Moving a client to another node: the DNS hook and the target (dns.go,   *)
(* handleClientAction of api.go, runAutoSwitch of main.go), on top of one  *)
(* control plane's store.                                                  *)
(*                                                                         *)
(* A request reads the store under its lock, runs the administrator's hook *)
(* outside of it for up to 30 seconds, and takes the lock again to write   *)
(* the target, so requests of several administrators and of the            *)
(* auto-switch loop interleave with one another and with every handler.    *)
(*                                                                         *)
(* PUBLIC_ENTRY_HOST and DNS_UPDATE_HOOK are taken as set: without them    *)
(* every request is refused before it starts.  All clients share the one   *)
(* public entry host, hence one DNS entry.                                 *)
(***************************************************************************)
EXTENDS ControlStore

CONSTANTS
    Admins,  \* concurrent requests of administrators
    Loop,    \* the goroutine of runAutoSwitch
    Nobody   \* no worker

ASSUME LoopAssumption == Loop \notin Admins /\ Nobody \notin Admins \cup {Loop}
ASSUME NoClientAssumption == NoClient \notin ClientIDs

Workers == Admins \cup {Loop}

VARIABLES
    dns,   \* node the public entry host points to, None before the first hook
    mover, \* history: who moved the entry last, if that request is not over yet
    job,   \* job[w]: the request that w is serving
    todo   \* candidates the loop still has to serve, at most one per client

entry == <<dns, mover>>
switchVars == <<entry, job, todo>>
allVars == <<vars, switchVars>>

Idle == [phase |-> "idle", client |-> NoClient, node |-> None]

(* phase: the hook is running, or has moved the DNS entry.  No client: a   *)
(* DNS test.  target and auto-target run the same steps for a client.      *)
JobRec ==
    [phase : {"hook", "moved"}, client : ClientIDs \cup {NoClient}, node : NodeIDs]

HookFor(c, n) == [phase |-> "hook", client |-> c, node |-> n]

Candidate == [client : ClientIDs, node : NodeIDs]

-----------------------------------------------------------------------------
(* dnsUpdateRequestForNode: what the hook's start depends on.              *)
MayUpdateDNS(c, n) == IsOnline(nodes[n]) /\ (c # NoClient => clients[c] # NoClient)

(* An administrator posts target or auto-target for client c, or, with no  *)
(* client, a DNS test, which runs the hook for real.                       *)
StartHook(w, c, n) ==
    /\ job[w] = Idle
    /\ MayUpdateDNS(c, n)
    /\ job' = [job EXCEPT ![w] = HookFor(c, n)]
    /\ UNCHANGED <<vars, entry, todo>>

(* The hook changes the DNS entry. *)
HookMovesDNS(w) ==
    /\ job[w].phase = "hook"
    /\ dns' = job[w].node
    /\ mover' = w
    /\ job' = [job EXCEPT ![w].phase = "moved"]
    /\ UNCHANGED <<vars, todo>>

(* The worker is free for another request. *)
RequestOver(w) ==
    /\ job' = [job EXCEPT ![w] = Idle]
    /\ mover' = IF mover = w THEN Nobody ELSE mover

(* The hook fails, or its 30 seconds are over, before or after it changed  *)
(* the entry; or the save that follows it fails.  The request ends there.  *)
(* It need not: a hook whose child keeps the output open is waited for.    *)
HookFails(w) ==
    /\ job[w].phase \in {"hook", "moved"}
    /\ RequestOver(w)
    /\ UNCHANGED <<vars, dns, todo>>

(* SetClientTarget and AutoSwitchClientTarget write the same target under  *)
(* the same conditions: client and node known, node online.                *)
Switched(c, n) ==
    IF clients[c] = NoClient THEN clients
    ELSE IF ~IsOnline(nodes[n]) THEN clients
    ELSE [clients EXCEPT ![c].preferred = n, ![c].state = "manual"]

(* Mutant of SwitchTarget: the hook's result is not waited for. *)
SwitchTargetEarly(w) ==
    /\ job[w].phase \in {"hook", "moved"} /\ job[w].client # NoClient
    /\ clients' = Switched(job[w].client, job[w].node)
    /\ RequestOver(w)
    /\ UNCHANGED <<nodes, proxies, config, dns, todo>>

(* The hook has succeeded: the target is written, or refused. *)
SwitchTarget(w) ==
    /\ job[w].phase = "moved" /\ job[w].client # NoClient
    /\ clients' = Switched(job[w].client, job[w].node)
    /\ RequestOver(w)
    /\ UNCHANGED <<nodes, proxies, config, dns, todo>>

TestDone(w) ==
    /\ job[w].phase = "moved" /\ job[w].client = NoClient
    /\ RequestOver(w)
    /\ UNCHANGED <<vars, dns, todo>>

-----------------------------------------------------------------------------
(* runAutoSwitch *)

(* AutoSwitchCandidates: the clients a recommendation is pending for. *)
Candidates ==
    IF ~config.auto THEN {}
    ELSE {k \in Candidate : clients[k.client] # NoClient
                            /\ clients[k.client].state = "pending"
                            /\ clients[k.client].preferred = k.node}

(* Mutant of LoopScan: it does not wait for the candidates it has. *)
LoopScanEager ==
    /\ todo' = todo \cup Candidates
    /\ UNCHANGED <<vars, entry, job>>

LoopScan ==
    /\ job[Loop] = Idle /\ todo = {}
    /\ todo' = Candidates
    /\ UNCHANGED <<vars, entry, job>>

(* The next candidate: the hook starts for it, or it is skipped.           *)
LoopNext(k) ==
    /\ job[Loop] = Idle
    /\ todo' = todo \ {k}
    /\ job' = IF MayUpdateDNS(k.client, k.node)
              THEN [job EXCEPT ![Loop] = HookFor(k.client, k.node)] ELSE job
    /\ UNCHANGED <<vars, entry>>

-----------------------------------------------------------------------------
SwitchInit ==
    /\ Init
    /\ dns = None
    /\ mover = Nobody
    /\ job = [w \in Workers |-> Idle]
    /\ todo = {}

(* Every handler of the store but the target's. *)
StoreStep ==
    /\ \/ \E n \in NodeIDs : JoinNode(n) \/ LeaveNode(n)
       \/ Heartbeats
       \/ PluginEvent
       \/ \E c \in ClientIDs : ClearClientTarget(c)
       \/ \E auto \in BOOLEAN, gap \in Gaps : UpdateConfig(auto, gap)
       \/ Tick
    /\ UNCHANGED switchVars

AdminRequest(w) ==
    \E n \in NodeIDs, c \in ClientIDs \cup {NoClient} : StartHook(w, c, n)

HookStep(w) == HookMovesDNS(w) \/ HookFails(w) \/ SwitchTarget(w) \/ TestDone(w)

LoopServe == \E k \in todo : LoopNext(k)

SwitchNext ==
    \/ StoreStep
    \/ \E w \in Admins : AdminRequest(w)
    \/ LoopScan
    \/ LoopServe
    \/ \E w \in Workers : HookStep(w)

SwitchSpec == SwitchInit /\ [][SwitchNext]_allVars

-----------------------------------------------------------------------------
(* Properties *)

(* Types of the state this module adds, and one candidate per client.      *)
SwitchTypeOK ==
    /\ dns \in NodeIDs \cup {None}
    /\ mover \in Workers \cup {Nobody}
    /\ job \in [Workers -> JobRec \cup {Idle}]
    /\ todo \in SUBSET Candidate
    /\ \A j, k \in todo : j.client = k.client => j = k

(* The request of w for client c and node n has moved the DNS entry. *)
HookDone(w, c, n) == job[w] = [phase |-> "moved", client |-> c, node |-> n]

(* docs/proxy-cluster-deployment.md: a target is written only after the    *)
(* hook has moved the DNS entry, so that no client is switched to a node   *)
(* while the public name still points to another one, unless another       *)
(* request has moved the name again in between.                            *)
SwitchedWhereDNSPoints ==
    [][\A c \in ClientIDs, n \in NodeIDs :
          Targeted(c, n)' /\ ~Targeted(c, n)
            => \E w \in Workers : HookDone(w, c, n) /\ (mover = w => dns = n)]_allVars

(* docs/proxy-cluster-deployment.md: a client on a live node is given      *)
(* another one only by a request, of an administrator or of the            *)
(* auto-switch loop, that was for this client and node and whose hook has  *)
(* succeeded.                                                              *)
OnlyRequestsMove ==
    [][\A c \in ClientIDs, n \in NodeIDs :
          /\ clients[c] # NoClient
          /\ n # clients[c].node /\ clients'[c].node = clients[c].node
          /\ IsOnline(nodes'[clients[c].node])
          /\ ~Targeted(c, n) /\ Served(nodes', clients'[c]) = n
          => \E w \in Workers : HookDone(w, c, n)]_allVars
===============================================================================
