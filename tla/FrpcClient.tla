------------------------------ MODULE FrpcClient ------------------------------
(***************************************************************************)
(* The client daemon (runClient of main.go): one goroutine that fetches    *)
(* the client's frpc configurations, writes them to the work directory,    *)
(* and starts, replaces and drains one frpc process per configuration.     *)
(* The processes run beside it and may exit at any moment, also while the  *)
(* goroutine sleeps through a drain.                                       *)
(*                                                                         *)
(* SIGINT and SIGTERM are caught only once the first synchronisation has   *)
(* succeeded; until then they end the client at once, without its deferred *)
(* stopAll, and the frpc it has started go on running.                     *)
(*                                                                         *)
(* The control plane answers with any nodes it may select; a file's path   *)
(* is the node it is for, or, in single mode, the same for every node.     *)
(* Reads and writes in the work directory succeed; --no-run is left out.   *)
(***************************************************************************)
EXTENDS Integers, Sequences, SequencesExt, FiniteSets

CONSTANTS
    NodeIDs,    \* proxy nodes
    Mode,       \* "single", "failover" or "aggregate"
    Limit,      \* how many nodes failover mode asks for
    Versions,   \* versions of a node's configuration (auth token, address)
    NoFile,     \* a configuration that is not in the work directory
    NoProcess   \* absent key of manager.processes

ASSUME NodesAssumption == IsFiniteSet(NodeIDs) /\ NodeIDs # {}
ASSUME ModeAssumption == Mode \in {"single", "failover", "aggregate"}
ASSUME LimitAssumption == Limit \in Nat \ {0}

Path(n) == IF Mode = "single" THEN "frpc" ELSE n
Paths == {Path(n) : n \in NodeIDs}

Content == [node : NodeIDs, version : Versions]
Process == [hash : Content, up : BOOLEAN]

ASSUME AbsentClientAssumption == NoFile \notin Content /\ NoProcess \notin Process

VARIABLES
    pc,        \* where the goroutine is
    todo,      \* paths its loop has left, the one it is at first
    files,     \* the work directory
    procs,     \* manager.processes
    draining,  \* processes taken out of the map, SIGTERM not yet sent
    ready,     \* the first synchronisation has succeeded
    orphans    \* nodes of the frpc that run and that no client knows of

vars == <<pc, todo, files, procs, draining, ready, orphans>>

-----------------------------------------------------------------------------
(* filterExcludedNodes: some nodes are online, and not excluded.           *)
Available(excluded) == (SUBSET (NodeIDs \ excluded)) \ {{}}

(* GenerateFrpcConfigFiles: the nodes whose files a sync may be given.     *)
Answers(excluded) ==
    CASE Mode = "single" -> {S \in Available(excluded) : Cardinality(S) = 1}
      [] Mode = "failover" -> {S \in Available(excluded) : Cardinality(S) <= Limit}
      [] Mode = "aggregate" -> Available(excluded)

Written == {p \in Paths : files[p] # NoFile}
Known == {p \in Paths : procs[p] # NoProcess}
Exited == {p \in Known : ~procs[p].up}

(* Mutant of ExitedNodes: nothing is reported while another process runs. *)
ExitedNodesWhenAllDown ==
    IF Exited = Known THEN {files[p].node : p \in Exited \cap Written} ELSE {}

(* exitedNodeIDs: the node is read from the file, which may be gone. *)
ExitedNodes == {files[p].node : p \in Exited \cap Written}

Running == {procs[p] : p \in Known \ Exited} \cup {d \in draining : d.up}

NothingRuns == [p \in Paths |-> NoProcess]

(* fetchFrpcConfigFiles and writeConfigFiles: every other frpc-*.toml of   *)
(* the work directory is removed before any process is touched.            *)
Sync(excluded) ==
    \E S \in Answers(excluded), v \in Versions :
        LET desired == {Path(n) : n \in S} IN
        /\ files' = [p \in Paths |->
                       IF p \in desired
                       THEN [node |-> CHOOSE n \in S : Path(n) = p, version |-> v]
                       ELSE NoFile]
        /\ todo' \in SetToSeqs(desired)
        /\ pc' = "start"
        /\ UNCHANGED <<procs, draining, ready, orphans>>

FirstSync == pc = "boot" /\ Sync({})

(* The control plane does not answer the first time: runClient returns. *)
FirstSyncFails ==
    /\ pc = "boot"
    /\ pc' = "stopped"
    /\ UNCHANGED <<todo, files, procs, draining, ready, orphans>>

Tick == pc = "idle" /\ Sync({})

FailoverTick == pc = "idle" /\ ExitedNodes # {} /\ Sync(ExitedNodes)

-----------------------------------------------------------------------------
(* reconcile *)

Keeps(p) == p \in Known \ Exited /\ procs[p].hash = files[p]

KeepProcess ==
    /\ pc = "start" /\ todo # <<>>
    /\ Keeps(Head(todo))
    /\ todo' = Tail(todo)
    /\ UNCHANGED <<pc, files, procs, draining, ready, orphans>>

(* Mutant of StopOld: an exited process is not cleared away. *)
StopOldRunning ==
    /\ pc = "start" /\ todo # <<>>
    /\ Head(todo) \in Known \ Exited /\ ~Keeps(Head(todo))
    /\ procs' = [procs EXCEPT ![Head(todo)] = NoProcess]
    /\ UNCHANGED <<pc, todo, files, draining, ready, orphans>>

(* stop: SIGTERM, SIGKILL after 5 seconds, and the process is waited for. *)
StopOld ==
    /\ pc = "start" /\ todo # <<>>
    /\ Head(todo) \in Known /\ ~Keeps(Head(todo))
    /\ procs' = [procs EXCEPT ![Head(todo)] = NoProcess]
    /\ UNCHANGED <<pc, todo, files, draining, ready, orphans>>

StartNew ==
    /\ pc = "start" /\ todo # <<>>
    /\ Head(todo) \notin Known
    /\ procs' = [procs EXCEPT ![Head(todo)] = [hash |-> files[Head(todo)], up |-> TRUE]]
    /\ todo' = Tail(todo)
    /\ UNCHANGED <<pc, files, draining, ready, orphans>>

(* Mutant of StartFails: an error of the first sync stops nothing. *)
StartFailsLeaving ==
    /\ pc = "start" /\ todo # <<>>
    /\ Head(todo) \notin Known
    /\ todo' = <<>>
    /\ pc' = IF ready THEN "idle" ELSE "stopped"
    /\ UNCHANGED <<files, procs, draining, ready, orphans>>

(* Mutant of StartFails: an error of the first sync does not end the client. *)
StartFailsGoingOn ==
    /\ pc = "start" /\ todo # <<>>
    /\ Head(todo) \notin Known
    /\ todo' = <<>>
    /\ pc' = "idle"
    /\ UNCHANGED <<files, procs, draining, ready, orphans>>

(* frpc cannot be started: reconcile returns at once, and runClient with   *)
(* it if this is the first sync, after the deferred stopAll.               *)
StartFails ==
    /\ pc = "start" /\ todo # <<>>
    /\ Head(todo) \notin Known
    /\ todo' = <<>>
    /\ pc' = IF ready THEN "idle" ELSE "stopped"
    /\ procs' = IF ready THEN procs ELSE NothingRuns
    /\ UNCHANGED <<files, draining, ready, orphans>>

(* Mutant of AllStarted: the stale processes go first. *)
AllStartedLate ==
    /\ pc = "start"
    /\ todo' \in SetToSeqs(Known \ Written)
    /\ pc' = "stale"
    /\ UNCHANGED <<files, procs, draining, ready, orphans>>

AllStarted ==
    /\ pc = "start" /\ todo = <<>>
    /\ todo' \in SetToSeqs(Known \ Written)
    /\ pc' = "stale"
    /\ UNCHANGED <<files, procs, draining, ready, orphans>>

(* Mutant of DrainStale: the drain is left to another goroutine. *)
DrainStaleBehind ==
    /\ pc = "stale" /\ todo # <<>>
    /\ draining' = draining \cup {procs[Head(todo)]}
    /\ procs' = [procs EXCEPT ![Head(todo)] = NoProcess]
    /\ todo' = Tail(todo)
    /\ UNCHANGED <<pc, files, ready, orphans>>

(* stopAfterDrain: out of the map, then the goroutine sleeps. *)
DrainStale ==
    /\ pc = "stale" /\ todo # <<>>
    /\ draining' = {procs[Head(todo)]}
    /\ procs' = [procs EXCEPT ![Head(todo)] = NoProcess]
    /\ pc' = "drain"
    /\ UNCHANGED <<todo, files, ready, orphans>>

Drained ==
    /\ pc = "drain"
    /\ draining' = {}
    /\ todo' = Tail(todo)
    /\ pc' = "stale"
    /\ UNCHANGED <<files, procs, ready, orphans>>

Synced ==
    /\ pc = "stale" /\ todo = <<>>
    /\ pc' = "idle"
    /\ ready' = TRUE
    /\ UNCHANGED <<todo, files, procs, draining, orphans>>

(* SIGINT or SIGTERM, seen between two syncs: stopAll. *)
Interrupt ==
    /\ pc = "idle"
    /\ pc' = "stopped"
    /\ procs' = NothingRuns
    /\ UNCHANGED <<todo, files, draining, ready, orphans>>

(* The same before signal.Notify: nobody stops anything. *)
Killed ==
    /\ pc \notin {"stopped", "killed"} /\ ~ready
    /\ pc' = "killed"
    /\ todo' = <<>>
    /\ UNCHANGED <<files, procs, draining, ready, orphans>>

(* The client is started again, on the files it left, with an empty map.   *)
Restart ==
    /\ pc \in {"stopped", "killed"}
    /\ pc' = "boot"
    /\ ready' = FALSE
    /\ orphans' = orphans \cup {process.hash.node : process \in Running}
    /\ procs' = NothingRuns
    /\ draining' = {}
    /\ UNCHANGED <<todo, files>>

(* A frpc process exits. *)
Exit(p) ==
    /\ p \in Known \ Exited
    /\ procs' = [procs EXCEPT ![p].up = FALSE]
    /\ UNCHANGED <<pc, todo, files, draining, ready, orphans>>

DrainingExits ==
    /\ \E d \in draining : d.up
    /\ draining' = {[d EXCEPT !.up = FALSE] : d \in draining}
    /\ UNCHANGED <<pc, todo, files, procs, ready, orphans>>

OrphanExits(n) ==
    /\ n \in orphans
    /\ orphans' = orphans \ {n}
    /\ UNCHANGED <<pc, todo, files, procs, draining, ready>>

-----------------------------------------------------------------------------
Init ==
    /\ pc = "boot"
    /\ todo = <<>>
    /\ files = [p \in Paths |-> NoFile]
    /\ procs = NothingRuns
    /\ draining = {}
    /\ ready = FALSE
    /\ orphans = {}

Reconcile == KeepProcess \/ StopOld \/ StartNew \/ StartFails \/ AllStarted

Drain == DrainStale \/ Drained \/ Synced

Exits ==
    \/ DrainingExits
    \/ \E p \in Paths : Exit(p)
    \/ \E n \in NodeIDs : OrphanExits(n)

Next ==
    \/ FirstSync \/ FirstSyncFails \/ Restart
    \/ Tick \/ FailoverTick \/ Interrupt \/ Killed
    \/ Reconcile \/ Drain
    \/ Exits

Spec == Init /\ [][Next]_vars

(* The goroutine runs on through a sync (a stopped process is killed after *)
(* 5 seconds, a drain sleeps a fixed time), and its failover ticker fires  *)
(* every 10 seconds while the control plane answers.                       *)
FairSpec == Spec /\ WF_vars(Reconcile) /\ WF_vars(Drain) /\ WF_vars(FailoverTick)

-----------------------------------------------------------------------------
(* Properties *)

(* The goroutine's position and the client's files and processes; it is    *)
(* back at its tickers only after a first successful sync, with no drain   *)
(* under way.                                                              *)
TypeOK ==
    /\ pc \in {"boot", "idle", "start", "stale", "drain", "stopped", "killed"}
    /\ todo \in Seq(Paths)
    /\ files \in [Paths -> Content \cup {NoFile}]
    /\ procs \in [Paths -> Process \cup {NoProcess}]
    /\ draining \in SUBSET Process
    /\ ready \in BOOLEAN
    /\ orphans \in SUBSET NodeIDs
    /\ pc = "idle" => ready /\ todo = <<>> /\ draining = {}

(* Two frpc processes of one run of the client never run against the same  *)
(* node, where their proxies would claim the same ports: not while an old  *)
(* one drains, not when a node is given up and chosen again.  (Next to an  *)
(* orphan of an earlier run one may.)                                      *)
OnePerNode ==
    /\ \A p, q \in Known \ Exited : procs[p].hash.node = procs[q].hash.node => p = q
    /\ \A p \in Known \ Exited :
         \A d \in draining : d.up => d.hash.node # procs[p].hash.node

(* A client leaves no frpc process behind for the one that is started      *)
(* after it, whether its first sync failed half-way or a signal stopped    *)
(* it, unless that signal came before the first sync was over.             *)
NoOrphans == [][\A n \in orphans' \ orphans : pc = "killed" /\ ~ready]_vars

(* docs/requirements.md: a new frpc is started before the old one is       *)
(* drained.  The client itself never stops the last process that runs,     *)
(* unless it is told to stop, the ones it had started instead have exited, *)
(* or the file it was started from is a new one.  (Those of a client that  *)
(* was killed run on, but for nobody.)                                     *)
NeverStopsTheLast ==
    [][Running # {} /\ Running' = {}
         => \/ pc' = "stopped" \/ pc = "killed"
            \/ Exited' # {}
            \/ \E p \in Known \cap Written : procs'[p] = NoProcess]_vars

(* An idle client one of whose processes has exited syncs again, even if   *)
(* its other processes run and the ordinary ticker never comes: the        *)
(* failover ticker finds it, as long as the control plane has a node left  *)
(* to answer with.                                                         *)
ExitIsRetried == (pc = "idle" /\ Exited \cap Written # {}) ~> pc # "idle"

(* However nodes and processes come and go, a sync ends: the client gets   *)
(* back to its tickers, or is stopped.                                     *)
SyncEnds == pc \in {"start", "stale", "drain"} ~> pc \in {"idle", "stopped", "killed"}
===============================================================================
