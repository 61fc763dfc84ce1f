--------------------------- MODULE FrpcClientProofs ---------------------------
(***************************************************************************)
(* Theorems about FrpcClient, in every mode, for any finite set of nodes   *)
(* and any versions of their configurations; and, at the end, that they    *)
(* hold of the client in ClientSystem, with the control plane beside it.   *)
(***************************************************************************)
EXTENDS ClientSystem, FiniteSetTheorems, TLAPS

-----------------------------------------------------------------------------
(* Sequences of paths *)

Distinct(s) == \A i, j \in 1..Len(s) : i # j => s[i] # s[j]

LEMMA PathsFinite == IsFiniteSet(Paths)
<1>1. CASE Mode = "single"
  <2>1. Paths = {"frpc"}
    BY <1>1, NodesAssumption DEF Paths, Path
  <2>2. QED
    BY <2>1, FS_Singleton
<1>2. CASE Mode # "single"
  <2>1. Paths = NodeIDs
    BY <1>2 DEF Paths, Path
  <2>2. QED
    BY <2>1, NodesAssumption
<1>3. QED
  BY <1>1, <1>2

(* The orders in which a loop over a map may take its keys. *)
LEMMA LoopOrder ==
    ASSUME NEW S \in SUBSET Paths, NEW s \in SetToSeqs(S)
    PROVE  s \in Seq(Paths) /\ Distinct(s) /\ \A i \in 1..Len(s) : s[i] \in S
<1>1. Cardinality(S) \in Nat
  BY PathsFinite, FS_Subset, FS_CardinalityType
<1>2. s \in [1..Cardinality(S) -> S] /\ \A i, j \in 1..Cardinality(S) : i # j => s[i] # s[j]
  BY DEF SetToSeqs
<1>3. s \in Seq(S) /\ Len(s) = Cardinality(S)
  BY <1>1, <1>2
<1>4. s \in Seq(Paths)
  BY <1>1, <1>2
<1>5. QED
  BY <1>2, <1>3, <1>4 DEF Distinct

(* None of them is left out: an injection between sets of one size is onto.*)
LEMMA LoopTakesAll ==
    ASSUME NEW S \in SUBSET Paths, NEW s \in SetToSeqs(S)
    PROVE  \A p \in S : \E i \in 1..Len(s) : s[i] = p
<1> DEFINE n == Cardinality(S)
<1>1. IsFiniteSet(S) /\ n \in Nat
  BY PathsFinite, FS_Subset, FS_CardinalityType
<1>2. s \in Injection(1..n, S)
  BY DEF SetToSeqs, Injection, IsInjective
<1>3. Cardinality(1..n) = n
  BY <1>1, FS_Interval
<1>4. s \in Surjection(1..n, S)
  BY <1>1, <1>2, <1>3, FS_Injection
<1>5. Len(s) = n
  BY <1>1, <1>2 DEF Injection
<1>6. QED
  BY <1>4, <1>5 DEF Surjection

(* What a loop has left once it is through with one key. *)
LEMMA LoopTail ==
    ASSUME NEW s \in Seq(Paths), s # <<>>
    PROVE  /\ Head(s) \in Paths
           /\ Tail(s) \in Seq(Paths)
           /\ Distinct(s) => Distinct(Tail(s))
           /\ \A i \in 1..Len(Tail(s)) : i + 1 \in 1..Len(s) /\ Tail(s)[i] = s[i + 1]
<1>1. Head(s) = s[1] /\ Len(s) \in Nat \ {0} /\ Head(s) \in Paths
  OBVIOUS
<1>2. Tail(s) \in Seq(Paths) /\ Len(Tail(s)) = Len(s) - 1
  OBVIOUS
<1>3. \A i \in 1..Len(Tail(s)) : i + 1 \in 1..Len(s) /\ Tail(s)[i] = s[i + 1]
  BY <1>1, <1>2
<1>4. Distinct(s) => Distinct(Tail(s))
  BY <1>1, <1>2, <1>3 DEF Distinct
<1>5. QED
  BY <1>1, <1>2, <1>3, <1>4
-----------------------------------------------------------------------------
(* The invariant *)

(* A file and a process are at the path of the node they are for. *)
Placed ==
    /\ \A p \in Written : Path(files[p].node) = p
    /\ \A p \in Known : Path(procs[p].hash.node) = p

(* What the goroutine's loop has left at each position.  It may not meet a *)
(* process twice, or DrainStale would find none.                           *)
LoopLeft ==
    /\ pc = "start" => \A i \in 1..Len(todo) : todo[i] \in Written
    /\ pc \in {"stale", "drain"} => Distinct(todo)
    /\ pc = "stale" => \A i \in 1..Len(todo) : todo[i] \in Known
    /\ pc = "drain" => /\ todo # <<>>
                       /\ \A i \in 1..Len(todo) : i # 1 => todo[i] \in Known

(* A process drains only while the goroutine sleeps, or was killed in its  *)
(* sleep, and its path is free.                                            *)
DrainAlone ==
    /\ pc \notin {"drain", "killed"} => draining = {}
    /\ \A d \in draining : Path(d.hash.node) \notin Known

(* Before the first sync and after the end the client has no process.      *)
NoneBefore == pc \in {"boot", "stopped"} => procs = NothingRuns

(* A client is killed only before its first sync has succeeded.            *)
KilledEarly == pc \in {"boot", "killed"} => ~ready

Inv == TypeOK /\ Placed /\ LoopLeft /\ DrainAlone /\ NoneBefore /\ KilledEarly

LEMMA InitInv == Init => Inv
<1>1. SUFFICES ASSUME Init PROVE Inv
  OBVIOUS
<1>2. Known = {} /\ Written = {}
  BY <1>1, AbsentClientAssumption DEF Init, NothingRuns, Known, Written
<1>3. TypeOK
  <2>1. <<>> \in Seq(Paths)
    OBVIOUS
  <2>2. procs \in [Paths -> Process \cup {NoProcess}] /\ files \in [Paths -> Content \cup {NoFile}]
    BY <1>1 DEF Init, NothingRuns
  <2>3. QED
    BY <1>1, <2>1, <2>2 DEF Init, TypeOK
<1>4. QED
  BY <1>1, <1>2, <1>3 DEF Init, Inv, Placed, LoopLeft, DrainAlone, NoneBefore, KilledEarly

(* The configurations a sync is given name nodes, one of them at least. *)
LEMMA AnswersAreNodes ==
    ASSUME NEW excluded, NEW S \in Answers(excluded)
    PROVE  S \in SUBSET NodeIDs /\ S # {}
  BY ModeAssumption DEF Answers, Available

LEMMA SyncKeeps ==
    ASSUME Inv, NEW excluded, Sync(excluded), pc \in {"boot", "idle"}
    PROVE  Inv'
<1>1. PICK S \in Answers(excluded), v \in Versions :
         LET desired == {Path(n) : n \in S} IN
         /\ files' = [p \in Paths |->
                        IF p \in desired
                        THEN [node |-> CHOOSE n \in S : Path(n) = p, version |-> v]
                        ELSE NoFile]
         /\ todo' \in SetToSeqs(desired)
         /\ pc' = "start"
         /\ UNCHANGED <<procs, draining, ready, orphans>>
  BY DEF Sync
<1> DEFINE desired == {Path(n) : n \in S}
           content(p) == [node |-> CHOOSE n \in S : Path(n) = p, version |-> v]
<1>2. desired \in SUBSET Paths
  BY AnswersAreNodes DEF Paths
<1>3. \A p \in desired : content(p) \in Content /\ Path(content(p).node) = p
  <2>1. TAKE p \in desired
  <2>2. PICK n \in S : Path(n) = p
    OBVIOUS
  <2>3. (CHOOSE k \in S : Path(k) = p) \in S /\ Path(CHOOSE k \in S : Path(k) = p) = p
    BY <2>2
  <2>4. QED
    BY <2>3, AnswersAreNodes DEF Content
<1>4. /\ files' \in [Paths -> Content \cup {NoFile}]
      /\ \A p \in Paths : p \in desired => files'[p] = content(p)
      /\ \A p \in Paths : p \notin desired => files'[p] = NoFile
  BY <1>1, <1>3
<1>5. Written' = desired
  <2>1. \A p \in desired : content(p) # NoFile
    BY <1>3, AbsentClientAssumption
  <2> HIDE DEF desired, content
  <2>2. \A p \in Paths : files'[p] # NoFile <=> p \in desired
    BY <1>4, <2>1
  <2>3. QED
    BY <1>2, <2>2 DEF Written
<1>6. todo' \in Seq(Paths) /\ \A i \in 1..Len(todo') : todo'[i] \in desired
  BY <1>1, <1>2, LoopOrder
<1>7. Known' = Known /\ draining' = {} /\ pc' = "start"
  BY <1>1 DEF Known, Inv, DrainAlone
<1>8. TypeOK'
  BY <1>1, <1>4, <1>6 DEF Inv, TypeOK
<1>9. Placed'
  BY <1>1, <1>2, <1>3, <1>4, <1>5, <1>7 DEF Inv, Placed
<1>10. LoopLeft' /\ DrainAlone' /\ NoneBefore' /\ KilledEarly'
  BY <1>5, <1>6, <1>7 DEF LoopLeft, DrainAlone, NoneBefore, KilledEarly
<1>11. QED
  BY <1>8, <1>9, <1>10 DEF Inv

(* Steps that leave the work directory and the processes as they are. *)
LEMMA QuietKeeps ==
    ASSUME Inv, UNCHANGED <<files, procs, draining, orphans>>,
           pc' \in {"idle", "stopped", "killed"}, todo' \in {todo, <<>>},
           ready' \in BOOLEAN, pc' # "killed" => pc \notin {"drain", "killed"},
           pc' = "idle" => ready' /\ todo' = <<>>,
           pc' = "stopped" => pc = "boot",
           pc' = "killed" => ~ready'
    PROVE  Inv'
<1>1. Known' = Known /\ Written' = Written /\ (pc' # "killed" => draining' = {})
  BY DEF Known, Written, Inv, DrainAlone
<1>2. TypeOK'
  <2>1. todo' \in Seq(Paths)
    <3>1. <<>> \in Seq(Paths)
      OBVIOUS
    <3>2. todo \in Seq(Paths)
      BY DEF Inv, TypeOK
    <3>3. QED
      BY <3>1, <3>2
  <2>2. QED
    BY <1>1, <2>1 DEF Inv, TypeOK
<1>3. Placed' /\ LoopLeft' /\ DrainAlone' /\ NoneBefore' /\ KilledEarly'
  BY <1>1 DEF Inv, Placed, LoopLeft, DrainAlone, NoneBefore, KilledEarly
<1>4. QED
  BY <1>2, <1>3 DEF Inv

(* Steps that take or lose the process at one path, the files unchanged.   *)
LEMMA ReconcileKeeps == Inv /\ Reconcile => Inv'
<1>1. SUFFICES ASSUME Inv, Reconcile, pc = "start" PROVE Inv'
  BY DEF Reconcile, KeepProcess, StopOld, StartNew, StartFails, AllStarted
<1>2. draining = {} /\ todo \in Seq(Paths) /\ \A i \in 1..Len(todo) : todo[i] \in Written
  BY <1>1 DEF Inv, TypeOK, LoopLeft, DrainAlone
<1>3. ASSUME todo # <<>>
      PROVE  /\ Head(todo) \in Written /\ Tail(todo) \in Seq(Paths)
             /\ \A i \in 1..Len(Tail(todo)) : Tail(todo)[i] \in Written
  BY <1>2, <1>3, LoopTail DEF Written
<1>4. CASE KeepProcess
  <2>1. Known' = Known /\ Written' = Written /\ draining' = {} /\ pc' = "start"
    BY <1>1, <1>2, <1>4 DEF KeepProcess, Known, Written
  <2>2. TypeOK'
    BY <1>1, <1>3, <1>4 DEF KeepProcess, Inv, TypeOK
  <2>3. Placed' /\ LoopLeft' /\ DrainAlone' /\ NoneBefore' /\ KilledEarly'
    BY <1>1, <1>3, <1>4, <2>1
       DEF KeepProcess, Inv, Placed, LoopLeft, DrainAlone, NoneBefore, KilledEarly
  <2>4. QED
    BY <2>2, <2>3 DEF Inv
<1>5. CASE StopOld
  <2>1. Known' = Known \ {Head(todo)} /\ Written' = Written /\ draining' = {} /\ pc' = "start"
    BY <1>1, <1>2, <1>5 DEF StopOld, Known, Written, Inv, TypeOK
  <2>2. TypeOK'
    BY <1>1, <1>5 DEF StopOld, Inv, TypeOK
  <2>3. \A p \in Known' : procs'[p] = procs[p]
    BY <1>1, <1>5, <2>1 DEF StopOld, Known, Inv, TypeOK
  <2>4. Placed' /\ LoopLeft' /\ DrainAlone' /\ NoneBefore' /\ KilledEarly'
    BY <1>1, <1>5, <2>1, <2>3
       DEF StopOld, Inv, Placed, LoopLeft, DrainAlone, NoneBefore, KilledEarly
  <2>5. QED
    BY <2>2, <2>4 DEF Inv
<1>6. CASE StartNew
  <2> DEFINE new == [hash |-> files[Head(todo)], up |-> TRUE]
  <2>1. Head(todo) \in Written /\ Head(todo) \in Paths
    BY <1>3, <1>6 DEF StartNew, Written
  <2>2. new \in Process /\ Path(new.hash.node) = Head(todo)
    BY <1>1, <2>1 DEF Inv, TypeOK, Placed, Process, Written
  <2>3. procs' = [procs EXCEPT ![Head(todo)] = new]
    BY <1>6 DEF StartNew
  <2>4. /\ Known' = Known \cup {Head(todo)} /\ Written' = Written
        /\ draining' = {} /\ pc' = "start"
    <3>1. new # NoProcess
      BY <2>2, AbsentClientAssumption
    <3>2. procs \in [Paths -> Process \cup {NoProcess}]
      BY <1>1 DEF Inv, TypeOK
    <3>3. Known' = Known \cup {Head(todo)}
      BY <2>1, <2>3, <3>1, <3>2 DEF Known
    <3>4. QED
      BY <1>1, <1>2, <1>6, <3>3 DEF StartNew, Written
  <2>5. TypeOK'
    BY <1>1, <1>3, <1>6, <2>2, <2>3 DEF StartNew, Inv, TypeOK
  <2>6. \A p \in Known' : Path(procs'[p].hash.node) = p
    BY <1>1, <2>1, <2>2, <2>3, <2>4 DEF Inv, TypeOK, Placed, Known
  <2>7. Placed' /\ LoopLeft' /\ DrainAlone' /\ NoneBefore' /\ KilledEarly'
    BY <1>1, <1>3, <1>6, <2>4, <2>6
       DEF StartNew, Inv, Placed, LoopLeft, DrainAlone, NoneBefore, KilledEarly
  <2>8. QED
    BY <2>5, <2>7 DEF Inv
<1>7. CASE StartFails
  <2>1. CASE ready
    BY <1>1, <1>7, <2>1, QuietKeeps DEF StartFails, Inv, TypeOK
  <2>2. CASE ~ready
    <3>1. procs' = NothingRuns /\ pc' = "stopped" /\ todo' = <<>>
      BY <1>7, <2>2 DEF StartFails
    <3>2. Known' = {} /\ Written' = Written /\ draining' = {}
      BY <1>2, <1>7, <3>1 DEF StartFails, Known, Written, NothingRuns
    <3>3. TypeOK'
      BY <1>1, <1>7, <3>1 DEF StartFails, Inv, TypeOK, NothingRuns
    <3>4. Placed' /\ LoopLeft' /\ DrainAlone' /\ NoneBefore' /\ KilledEarly'
      BY <1>1, <1>7, <3>1, <3>2
         DEF StartFails, Inv, Placed, LoopLeft, DrainAlone, NoneBefore, KilledEarly
    <3>5. QED
      BY <3>3, <3>4 DEF Inv
  <2>3. QED
    BY <2>1, <2>2
<1>8. CASE AllStarted
  <2>1. Known \ Written \in SUBSET Paths
    BY DEF Known
  <2>2. todo' \in Seq(Paths) /\ Distinct(todo') /\ \A i \in 1..Len(todo') : todo'[i] \in Known
    BY <1>8, <2>1, LoopOrder DEF AllStarted
  <2>3. Known' = Known /\ Written' = Written /\ draining' = {} /\ pc' = "stale"
    BY <1>2, <1>8 DEF AllStarted, Known, Written
  <2>4. TypeOK'
    BY <1>1, <1>8, <2>2 DEF AllStarted, Inv, TypeOK
  <2>5. Distinct(todo)'
    BY <2>2 DEF Distinct
  <2>6. Placed' /\ LoopLeft' /\ DrainAlone' /\ NoneBefore' /\ KilledEarly'
    BY <1>1, <1>8, <2>2, <2>3, <2>5
       DEF AllStarted, Inv, Placed, LoopLeft, DrainAlone, NoneBefore, KilledEarly
  <2>7. QED
    BY <2>4, <2>6 DEF Inv
<1>9. QED
  BY <1>1, <1>4, <1>5, <1>6, <1>7, <1>8 DEF Reconcile

(* The drain of a stale process takes it out of the map. *)
LEMMA DrainKeeps == Inv /\ Drain => Inv'
<1>1. SUFFICES ASSUME Inv, Drain PROVE Inv'
  OBVIOUS
<1>2. /\ todo \in Seq(Paths) /\ procs \in [Paths -> Process \cup {NoProcess}]
      /\ Known \subseteq Paths
  BY <1>1 DEF Inv, TypeOK, Known
<1>3. CASE DrainStale
  <2>1. Head(todo) = todo[1] /\ Head(todo) \in Known /\ Len(todo) \in Nat \ {0}
    BY <1>1, <1>2, <1>3 DEF DrainStale, Inv, LoopLeft
  <2>2. procs[Head(todo)] \in Process /\ Path(procs[Head(todo)].hash.node) = Head(todo)
    BY <1>1, <1>2, <2>1 DEF Inv, Placed, Known
  <2>3. Known' = Known \ {Head(todo)} /\ \A p \in Known' : procs'[p] = procs[p]
    BY <1>2, <1>3, <2>1 DEF DrainStale, Known
  <2>4. Written' = Written /\ draining' = {procs[Head(todo)]} /\ pc' = "drain" /\ todo' = todo
    BY <1>3 DEF DrainStale, Written
  <2>5. TypeOK'
    BY <1>1, <1>3, <2>2, <2>4 DEF DrainStale, Inv, TypeOK
  <2>6. Placed'
    BY <1>1, <1>3, <2>3, <2>4 DEF DrainStale, Inv, Placed
  <2>7. Distinct(todo)'
    BY <1>1, <1>3, <2>4 DEF DrainStale, Inv, LoopLeft, Distinct
  <2>8. \A i \in 1..Len(todo) : i # 1 => todo[i] \in Known'
    <3>1. TAKE i \in 1..Len(todo)
    <3>2. ASSUME i # 1 PROVE todo[i] # todo[1]
      BY <1>1, <1>3, <2>1, <3>2 DEF DrainStale, Inv, LoopLeft, Distinct
    <3>3. todo[i] \in Known
      BY <1>1, <1>3 DEF DrainStale, Inv, LoopLeft
    <3>4. QED
      BY <2>1, <2>3, <3>2, <3>3
  <2>9. LoopLeft'
    BY <1>3, <2>4, <2>7, <2>8 DEF DrainStale, LoopLeft
  <2>10. DrainAlone' /\ NoneBefore' /\ KilledEarly'
    BY <2>2, <2>3, <2>4 DEF DrainAlone, NoneBefore, KilledEarly
  <2>11. QED
    BY <2>5, <2>6, <2>9, <2>10 DEF Inv
<1>4. CASE Drained
  <2>1. todo # <<>> /\ Distinct(todo) /\ \A i \in 1..Len(todo) : i # 1 => todo[i] \in Known
    BY <1>1, <1>4 DEF Drained, Inv, LoopLeft
  <2>2. /\ Tail(todo) \in Seq(Paths) /\ Distinct(Tail(todo))
        /\ \A i \in 1..Len(Tail(todo)) : Tail(todo)[i] \in Known
    <3>1. Tail(todo) \in Seq(Paths) /\ Distinct(Tail(todo)) /\ Len(Tail(todo)) \in Nat
      BY <1>2, <2>1, LoopTail
    <3>2. \A i \in 1..Len(Tail(todo)) : i + 1 \in 1..Len(todo) /\ Tail(todo)[i] = todo[i + 1]
      BY <1>2, <2>1, LoopTail
    <3>3. \A i \in 1..Len(Tail(todo)) : i + 1 # 1
      BY <3>1
    <3>4. QED
      BY <2>1, <3>1, <3>2, <3>3
  <2>3. /\ Known' = Known /\ Written' = Written
        /\ draining' = {} /\ pc' = "stale" /\ todo' = Tail(todo)
    BY <1>4 DEF Drained, Known, Written
  <2>4. Distinct(todo)'
    BY <2>2, <2>3 DEF Distinct
  <2>5. TypeOK'
    BY <1>1, <1>4, <2>2, <2>3 DEF Drained, Inv, TypeOK
  <2>6. Placed' /\ LoopLeft' /\ DrainAlone' /\ NoneBefore' /\ KilledEarly'
    BY <1>1, <1>4, <2>2, <2>3, <2>4
       DEF Drained, Inv, Placed, LoopLeft, DrainAlone, NoneBefore, KilledEarly
  <2>7. QED
    BY <2>5, <2>6 DEF Inv
<1>5. CASE Synced
  BY <1>1, <1>5, QuietKeeps DEF Synced
<1>6. QED
  BY <1>1, <1>3, <1>4, <1>5 DEF Drain

(* A process that exits stays in the map, and in the drain. *)
LEMMA ExitsKeep == Inv /\ Exits => Inv'
<1>1. SUFFICES ASSUME Inv, Exits PROVE Inv'
  OBVIOUS
<1>2. CASE DrainingExits
  <2>1. \A d \in draining : [d EXCEPT !.up = FALSE] \in Process
    BY <1>1 DEF Inv, TypeOK, Process
  <2>2. \A d \in draining : [d EXCEPT !.up = FALSE].hash = d.hash
    BY <1>1 DEF Inv, TypeOK, Process
  <2>3. draining' = {[d EXCEPT !.up = FALSE] : d \in draining} /\ draining # {}
    BY <1>2 DEF DrainingExits
  <2>4. pc \in {"drain", "killed"}
    BY <1>1, <2>3 DEF Inv, DrainAlone
  <2>5. Known' = Known /\ Written' = Written
    BY <1>2 DEF DrainingExits, Known, Written
  <2>6. TypeOK'
    BY <1>1, <1>2, <2>1, <2>3, <2>4 DEF DrainingExits, Inv, TypeOK
  <2>7. Placed' /\ LoopLeft' /\ NoneBefore' /\ KilledEarly'
    BY <1>1, <1>2, <2>4, <2>5
       DEF DrainingExits, Inv, Placed, LoopLeft, NoneBefore, KilledEarly, Distinct
  <2>8. DrainAlone'
    BY <1>1, <1>2, <2>2, <2>3, <2>4, <2>5 DEF DrainingExits, Inv, DrainAlone
  <2>9. QED
    BY <2>6, <2>7, <2>8 DEF Inv
<1>3. ASSUME NEW p \in Paths, Exit(p) PROVE Inv'
  <2>1. procs[p] \in Process /\ p \in Known
    BY <1>1, <1>3 DEF Exit, Inv, TypeOK, Known
  <2>2. /\ [procs[p] EXCEPT !.up = FALSE] \in Process
        /\ [procs[p] EXCEPT !.up = FALSE].hash = procs[p].hash
    BY <2>1 DEF Process
  <2>3. procs' = [procs EXCEPT ![p] = [procs[p] EXCEPT !.up = FALSE]]
    BY <1>3 DEF Exit
  <2>4. procs \in [Paths -> Process \cup {NoProcess}]
    BY <1>1 DEF Inv, TypeOK
  <2>5. Known' = Known /\ \A q \in Known : procs'[q].hash = procs[q].hash
    BY <2>1, <2>2, <2>3, <2>4, AbsentClientAssumption DEF Known
  <2>6. Written' = Written
    BY <1>3 DEF Exit, Written
  <2>7. pc \notin {"boot", "stopped"}
    BY <1>1, <2>1 DEF Inv, NoneBefore, NothingRuns, Known
  <2>8. TypeOK'
    BY <1>1, <1>3, <2>2, <2>3, <2>4 DEF Exit, Inv, TypeOK
  <2>9. Placed' /\ LoopLeft' /\ DrainAlone' /\ NoneBefore' /\ KilledEarly'
    BY <1>1, <1>3, <2>5, <2>6, <2>7
       DEF Exit, Inv, Placed, LoopLeft, DrainAlone, NoneBefore, KilledEarly, Distinct
  <2>10. QED
    BY <2>8, <2>9 DEF Inv
<1>4. ASSUME NEW n \in NodeIDs, OrphanExits(n) PROVE Inv'
  <2>1. Known' = Known /\ Written' = Written
    BY <1>4 DEF OrphanExits, Known, Written
  <2>2. TypeOK'
    BY <1>1, <1>4 DEF OrphanExits, Inv, TypeOK
  <2>3. Placed' /\ LoopLeft' /\ DrainAlone' /\ NoneBefore' /\ KilledEarly'
    BY <1>1, <1>4, <2>1
       DEF OrphanExits, Inv, Placed, LoopLeft, DrainAlone, NoneBefore, KilledEarly, Distinct
  <2>4. QED
    BY <2>2, <2>3 DEF Inv
<1>5. QED
  BY <1>1, <1>2, <1>3, <1>4 DEF Exits

LEMMA InterruptKeeps == Inv /\ Interrupt => Inv'
<1>1. SUFFICES ASSUME Inv, Interrupt PROVE Inv'
  OBVIOUS
<1>2. Known' = {} /\ Written' = Written /\ draining' = {}
  BY <1>1 DEF Interrupt, Known, Written, NothingRuns, Inv, DrainAlone
<1>3. TypeOK'
  BY <1>1, <1>2 DEF Interrupt, Inv, TypeOK, NothingRuns
<1>4. Placed' /\ LoopLeft' /\ DrainAlone' /\ NoneBefore' /\ KilledEarly'
  BY <1>1, <1>2 DEF Interrupt, Inv, Placed, LoopLeft, DrainAlone, NoneBefore, KilledEarly
<1>5. QED
  BY <1>3, <1>4 DEF Inv

(* What still runs is nobody's from now on. *)
LEMMA RestartKeeps == Inv /\ Restart => Inv'
<1>1. SUFFICES ASSUME Inv, Restart PROVE Inv'
  OBVIOUS
<1>2. /\ pc' = "boot" /\ ready' = FALSE /\ procs' = NothingRuns /\ draining' = {}
      /\ orphans' = orphans \cup {process.hash.node : process \in Running}
      /\ UNCHANGED <<todo, files>>
  BY <1>1 DEF Restart
<1>3. Known' = {} /\ Written' = Written
  BY <1>2 DEF Known, Written, NothingRuns
<1>4. Running \subseteq Process
  BY <1>1 DEF Running, Known, Exited, Inv, TypeOK
<1>5. {process.hash.node : process \in Running} \subseteq NodeIDs
  BY <1>4 DEF Process, Content
<1>6. TypeOK'
  BY <1>1, <1>2, <1>5 DEF Inv, TypeOK, NothingRuns
<1>7. Placed' /\ LoopLeft' /\ DrainAlone' /\ NoneBefore' /\ KilledEarly'
  BY <1>1, <1>2, <1>3 DEF Inv, Placed, LoopLeft, DrainAlone, NoneBefore, KilledEarly
<1>8. QED
  BY <1>6, <1>7 DEF Inv

LEMMA StepKeepsInv == Inv /\ [Next]_vars => Inv'
<1>1. SUFFICES ASSUME Inv, [Next]_vars PROVE Inv'
  OBVIOUS
<1>2. CASE FirstSync
  BY <1>1, <1>2, SyncKeeps DEF FirstSync
<1>3. CASE FirstSyncFails
  BY <1>1, <1>3, QuietKeeps DEF FirstSyncFails, Inv, TypeOK
<1>4. CASE Killed
  BY <1>1, <1>4, QuietKeeps DEF Killed, Inv, TypeOK
<1>5. CASE Tick
  BY <1>1, <1>5, SyncKeeps DEF Tick
<1>6. CASE FailoverTick
  BY <1>1, <1>6, SyncKeeps DEF FailoverTick
<1>7. CASE UNCHANGED vars
  BY <1>1, <1>7
     DEF vars, Inv, TypeOK, Placed, LoopLeft, DrainAlone, NoneBefore, KilledEarly, NothingRuns,
                    Known, Written, Distinct
<1>8. QED
  BY <1>1, <1>2, <1>3, <1>4, <1>5, <1>6, <1>7,
     ReconcileKeeps, DrainKeeps, ExitsKeep, InterruptKeeps, RestartKeeps DEF Next

LEMMA AlwaysInv == Spec => []Inv
  BY InitInv, StepKeepsInv, PTL DEF Spec

-----------------------------------------------------------------------------
(* Theorems *)

(* Every reachable state of the client is well typed, and it is back at    *)
(* its tickers only after a first successful sync (runClient).             *)
THEOREM TypeCorrect == Spec => []TypeOK
<1>1. Inv => TypeOK
  BY DEF Inv
<1>2. QED
  BY <1>1, AlwaysInv, PTL

(* Only a client that got a signal before its first sync was over leaves   *)
(* frpc running that the next one does not know of: however else it ends,  *)
(* runClient's deferred stopAll stops them.                                *)
THEOREM StopsEverything == Spec => NoOrphans
<1>1. ASSUME Inv, [Next]_vars, NEW n \in orphans', n \notin orphans
      PROVE  pc = "killed" /\ ~ready
  <2>1. CASE Restart
    <3>1. Running # {}
      BY <1>1, <2>1 DEF Restart
    <3>2. pc # "stopped"
      BY <1>1, <3>1 DEF Inv, NoneBefore, DrainAlone, Running, Exited, Known, NothingRuns
    <3>3. QED
      BY <1>1, <2>1, <3>2 DEF Restart, Inv, KilledEarly
  <2>2. CASE Reconcile \/ Drain
    BY <1>1, <2>2 DEF Reconcile, KeepProcess, StopOld, StartNew, StartFails, AllStarted,
                      Drain, DrainStale, Drained, Synced
  <2>3. CASE Exits
    BY <1>1, <2>3 DEF Exits, DrainingExits, Exit, OrphanExits
  <2>4. CASE FirstSync \/ FirstSyncFails \/ Tick \/ FailoverTick \/ Interrupt \/ Killed
             \/ UNCHANGED vars
    BY <1>1, <2>4
       DEF FirstSync, FirstSyncFails, Tick, FailoverTick, Interrupt, Killed, Sync, vars
  <2>5. QED
    BY <1>1, <2>1, <2>2, <2>3, <2>4 DEF Next
<1>2. Inv /\ [Next]_vars => [\A n \in orphans' \ orphans : pc = "killed" /\ ~ready]_vars
  BY <1>1
<1>3. QED
  BY <1>2, AlwaysInv, PTL DEF Spec, NoOrphans

(* Two frpc processes of one run of a client never run against the same    *)
(* node, a draining one included (reconcile, stopAfterDrain).                      *)
THEOREM OneFrpcPerNode == Spec => []OnePerNode
<1>1. Inv => OnePerNode
  BY DEF Inv, Placed, DrainAlone, OnePerNode, Exited
<1>2. QED
  BY <1>1, AlwaysInv, PTL

-----------------------------------------------------------------------------
(* A sync starts the new processes before it drains the stale ones *)

(* A sync has files to start.  The loop has left every one that has no     *)
(* process yet; once it is through all of them have one, and what is       *)
(* drained then has no file.                                               *)
Replaced ==
    /\ pc \in {"start", "stale", "drain"} => Written # {}
    /\ pc = "start" => \A p \in Written \ Known : \E i \in 1..Len(todo) : todo[i] = p
    /\ pc \in {"stale", "drain"} =>
         /\ Written \subseteq Known
         /\ \A i \in 1..Len(todo) : todo[i] \notin Written

(* What is left but for the first. *)
LEMMA LeftInTail ==
    ASSUME NEW s \in Seq(Paths), s # <<>>, NEW p, p # Head(s),
           \E i \in 1..Len(s) : s[i] = p
    PROVE  \E i \in 1..Len(Tail(s)) : Tail(s)[i] = p
<1>1. PICK i \in 1..Len(s) : s[i] = p
  OBVIOUS
<1>2. i # 1 /\ Len(Tail(s)) = Len(s) - 1 /\ Len(s) \in Nat
  BY <1>1
<1>3. i - 1 \in 1..Len(Tail(s))
  BY <1>2
<1>4. Tail(s)[i - 1] = s[i]
  BY <1>3
<1>5. QED
  BY <1>1, <1>3, <1>4

LEMMA SyncReplaces ==
    ASSUME Inv, NEW excluded, Sync(excluded)
    PROVE  Replaced'
<1>1. PICK S \in Answers(excluded), v \in Versions :
         LET desired == {Path(n) : n \in S} IN
         /\ files' = [p \in Paths |->
                        IF p \in desired
                        THEN [node |-> CHOOSE n \in S : Path(n) = p, version |-> v]
                        ELSE NoFile]
         /\ todo' \in SetToSeqs(desired)
         /\ pc' = "start"
  BY DEF Sync
<1> DEFINE desired == {Path(n) : n \in S}
           content(p) == [node |-> CHOOSE n \in S : Path(n) = p, version |-> v]
<1>2. desired \in SUBSET Paths /\ desired # {}
  <2>1. S \in SUBSET NodeIDs /\ S # {}
    BY AnswersAreNodes
  <2>2. QED
    BY <2>1 DEF Paths
<1>3. \A p \in desired : content(p) # NoFile
  <2>1. TAKE p \in desired
  <2>2. PICK n \in S : Path(n) = p
    OBVIOUS
  <2>3. (CHOOSE k \in S : Path(k) = p) \in S
    BY <2>2
  <2>4. content(p) \in Content
    BY <2>3, AnswersAreNodes DEF Content
  <2>5. QED
    BY <2>4, AbsentClientAssumption
<1>4. Written' = desired
  <2> HIDE DEF desired, content
  <2>1. \A p \in Paths : files'[p] = IF p \in desired THEN content(p) ELSE NoFile
    BY <1>1 DEF desired, content
  <2>2. QED
    BY <1>2, <1>3, <2>1 DEF Written
<1>5. \A p \in desired : \E i \in 1..Len(todo') : todo'[i] = p
  BY <1>1, <1>2, LoopTakesAll
<1>6. QED
  BY <1>1, <1>2, <1>4, <1>5 DEF Replaced

LEMMA ReconcileReplaces ==
    ASSUME Inv, Replaced, Reconcile
    PROVE  Replaced'
<1>1. /\ pc = "start" /\ todo \in Seq(Paths) /\ Written # {}
      /\ procs \in [Paths -> Process \cup {NoProcess}]
      /\ \A p \in Written \ Known : \E i \in 1..Len(todo) : todo[i] = p
  BY
     DEF Reconcile, KeepProcess, StopOld, StartNew, StartFails, AllStarted, Inv, TypeOK, Replaced
<1>2. Written' = Written /\ Written \subseteq Paths
  BY DEF Reconcile, KeepProcess, StopOld, StartNew, StartFails, AllStarted, Written
<1>3. CASE KeepProcess \/ StartNew
  <2>1. todo # <<>> /\ todo' = Tail(todo) /\ pc' = "start" /\ Head(todo) \in Paths
    BY <1>1, <1>3, LoopTail DEF KeepProcess, StartNew
  <2>2. Written' \ Known' \subseteq (Written \ Known) \ {Head(todo)}
    <3>1. CASE KeepProcess
      BY <1>2, <3>1 DEF KeepProcess, Keeps, Known
    <3>2. CASE StartNew
      <4>1. Head(todo) \in Written
        BY <1>1, <2>1 DEF Inv, LoopLeft
      <4>2. procs'[Head(todo)] = [hash |-> files[Head(todo)], up |-> TRUE]
        BY <1>1, <2>1, <3>2 DEF StartNew
      <4>3. procs'[Head(todo)] \in Process
        BY <4>1, <4>2 DEF Inv, TypeOK, Written, Process
      <4>4. \A p \in Paths : p # Head(todo) => procs'[p] = procs[p]
        BY <1>1, <3>2 DEF StartNew
      <4>5. QED
        BY <1>2, <2>1, <4>3, <4>4, AbsentClientAssumption DEF Known
    <3>3. QED
      BY <1>3, <3>1, <3>2
  <2>3. \A p \in Written' \ Known' : \E i \in 1..Len(todo') : todo'[i] = p
    BY <1>1, <2>1, <2>2, LeftInTail
  <2>4. QED
    BY <1>1, <1>2, <2>1, <2>3 DEF Replaced
<1>4. CASE StopOld
  <2>1. todo # <<>> /\ todo' = todo /\ pc' = "start" /\ Head(todo) = todo[1] /\ 1 \in 1..Len(todo)
    BY <1>1, <1>4 DEF StopOld
  <2>2. \A p \in Paths : p # Head(todo) => procs'[p] = procs[p]
    BY <1>1, <1>4 DEF StopOld
  <2>3. Written' \ Known' \subseteq (Written \ Known) \cup {Head(todo)}
    BY <1>2, <2>2 DEF Known
  <2>4. QED
    BY <1>1, <1>2, <2>1, <2>3 DEF Replaced
<1>5. CASE StartFails
  BY <1>5 DEF StartFails, Replaced
<1>6. CASE AllStarted
  <2>1. pc' = "stale" /\ Known' = Known /\ todo = <<>> /\ todo' \in SetToSeqs(Known \ Written)
    BY <1>6 DEF AllStarted, Known
  <2>2. Written \subseteq Known
    BY <1>1, <2>1
  <2>3. \A i \in 1..Len(todo') : todo'[i] \in Known \ Written
    BY <2>1, LoopOrder DEF Known
  <2>4. QED
    BY <1>1, <1>2, <2>1, <2>2, <2>3 DEF Replaced
<1>7. QED
  BY <1>3, <1>4, <1>5, <1>6 DEF Reconcile

LEMMA DrainReplaces ==
    ASSUME Inv, Replaced, Drain
    PROVE  Replaced'
<1>1. /\ pc \in {"stale", "drain"} /\ todo \in Seq(Paths) /\ Written # {}
      /\ procs \in [Paths -> Process \cup {NoProcess}]
      /\ Written \subseteq Known /\ \A i \in 1..Len(todo) : todo[i] \notin Written
  BY DEF Drain, DrainStale, Drained, Synced, Inv, TypeOK, Replaced
<1>2. Written' = Written /\ Written \subseteq Paths
  BY DEF Drain, DrainStale, Drained, Synced, Written
<1>3. CASE DrainStale
  <2>1. Head(todo) \notin Written /\ todo' = todo /\ pc' = "drain"
    BY <1>1, <1>3 DEF DrainStale
  <2>2. \A p \in Paths : p # Head(todo) => procs'[p] = procs[p]
    BY <1>1, <1>3 DEF DrainStale
  <2>3. Written \subseteq Known'
    BY <1>1, <1>2, <2>1, <2>2 DEF Known
  <2>4. QED
    BY <1>1, <1>2, <2>1, <2>3 DEF Replaced
<1>4. CASE Drained
  <2>1. todo # <<>>
    BY <1>4 DEF Drained, Inv, LoopLeft
  <2>2. \A i \in 1..Len(Tail(todo)) : Tail(todo)[i] \notin Written
    BY <1>1, <2>1, LoopTail
  <2>3. pc' = "stale" /\ todo' = Tail(todo) /\ Known' = Known
    BY <1>4 DEF Drained, Known
  <2>4. QED
    BY <1>1, <1>2, <2>2, <2>3 DEF Replaced
<1>5. CASE Synced
  BY <1>5 DEF Synced, Replaced
<1>6. QED
  BY <1>3, <1>4, <1>5 DEF Drain

LEMMA ExitsReplace ==
    ASSUME Inv, Replaced, Exits
    PROVE  Replaced'
<1>1. Written' = Written /\ pc' = pc /\ todo' = todo
  BY DEF Exits, DrainingExits, Exit, OrphanExits, Written
<1>2. CASE DrainingExits \/ \E n \in NodeIDs : OrphanExits(n)
  BY <1>1, <1>2 DEF DrainingExits, OrphanExits, Known, Replaced
<1>3. ASSUME NEW p \in Paths, Exit(p) PROVE Replaced'
  <2>1. procs[p] \in Process /\ procs \in [Paths -> Process \cup {NoProcess}]
    BY <1>3 DEF Exit, Inv, TypeOK, Known
  <2>2. [procs[p] EXCEPT !.up = FALSE] # NoProcess
    <3>1. [procs[p] EXCEPT !.up = FALSE] \in Process
      BY <2>1 DEF Process
    <3>2. QED
      BY <3>1, AbsentClientAssumption
  <2>3. Known' = Known
    BY <1>3, <2>1, <2>2, AbsentClientAssumption DEF Exit, Known
  <2>4. QED
    BY <1>1, <2>3 DEF Replaced
<1>4. QED
  BY <1>2, <1>3 DEF Exits

LEMMA StepKeepsReplaced == Inv /\ Replaced /\ [Next]_vars => Replaced'
<1>1. SUFFICES ASSUME Inv, Replaced, [Next]_vars PROVE Replaced'
  OBVIOUS
<1>2. CASE FirstSync \/ Tick \/ FailoverTick
  BY <1>1, <1>2, SyncReplaces DEF FirstSync, Tick, FailoverTick
<1>3. CASE FirstSyncFails \/ Restart \/ Interrupt \/ Killed
  BY <1>3 DEF FirstSyncFails, Restart, Interrupt, Killed, Replaced
<1>4. CASE UNCHANGED vars
  BY <1>1, <1>4 DEF vars, Replaced, Written, Known
<1>5. QED
  BY <1>1, <1>2, <1>3, <1>4, ReconcileReplaces, DrainReplaces, ExitsReplace DEF Next

LEMMA AlwaysReplaced == Spec => []Replaced
<1>1. Init => Replaced
  BY DEF Init, Replaced
<1>2. QED
  BY <1>1, AlwaysInv, StepKeepsReplaced, PTL DEF Spec

(* After a step that leaves a sync with what it was to start started, some *)
(* process has a file, and if none of these runs it is because one exited. *)
LEMMA SomeoneExited ==
    ASSUME Replaced', pc' \in {"stale", "drain"}, Running' = {}
    PROVE  Exited' # {}
<1>1. Written' # {} /\ Written' \subseteq Known'
  BY DEF Replaced
<1>2. Known' \ Exited' = {}
  BY DEF Running
<1>3. QED
  BY <1>1, <1>2

(* The steps after which a sync is not at its drains.                      *)
LEMMA LastIsNotStopped ==
    ASSUME Inv, Replaced', Next, Running # {}, Running' = {},
           pc' # "stopped", pc # "killed",
           \A p \in Known \cap Written : procs'[p] # NoProcess
    PROVE  Exited' # {}
<1>1. CASE pc' \in {"stale", "drain"}
  BY <1>1, SomeoneExited
<1>2. ASSUME UNCHANGED <<procs, draining>> PROVE FALSE
  BY <1>2 DEF Running, Exited, Known
<1>3. CASE FirstSync \/ FirstSyncFails \/ Tick \/ FailoverTick \/ Killed
  BY <1>2, <1>3 DEF FirstSync, FirstSyncFails, Tick, FailoverTick, Killed, Sync
<1>4. CASE Restart
  <2>1. pc = "stopped"
    BY <1>4 DEF Restart
  <2>2. QED
    BY <2>1 DEF Inv, NoneBefore, DrainAlone, Running, Exited, Known, NothingRuns
<1>5. CASE Interrupt \/ KeepProcess \/ AllStarted \/ Synced \/ StartFails
  BY <1>2, <1>5 DEF Interrupt, KeepProcess, AllStarted, Synced, StartFails
<1>6. CASE StopOld
  <2>1. Head(todo) \in Known \cap Written
    <3>1. pc = "start" /\ todo # <<>> /\ todo \in Seq(Paths) /\ Head(todo) \in Known
      BY <1>6 DEF StopOld, Inv, TypeOK
    <3>2. Head(todo) = todo[1] /\ 1 \in 1..Len(todo)
      BY <3>1
    <3>3. QED
      BY <3>1, <3>2 DEF Inv, LoopLeft
  <2>2. procs'[Head(todo)] = NoProcess
    BY <1>6, <2>1 DEF StopOld, Known, Inv, TypeOK
  <2>3. QED
    BY <2>1, <2>2
<1>7. CASE StartNew
  <2> DEFINE new == [hash |-> files[Head(todo)], up |-> TRUE]
  <2>1. Head(todo) \in Written /\ Head(todo) \in Paths
    <3>1. pc = "start" /\ todo # <<>> /\ todo \in Seq(Paths)
      BY <1>7 DEF StartNew, Inv, TypeOK
    <3>2. Head(todo) = todo[1] /\ 1 \in 1..Len(todo)
      BY <3>1
    <3>3. QED
      BY <3>1, <3>2 DEF Inv, LoopLeft, Written
  <2>2. new \in Process /\ new.up
    BY <2>1 DEF Inv, TypeOK, Process, Written
  <2>3. procs'[Head(todo)] = new
    BY <1>7, <2>1 DEF StartNew, Inv, TypeOK
  <2>4. Head(todo) \in Known' \ Exited'
    BY <2>1, <2>2, <2>3, AbsentClientAssumption DEF Known, Exited
  <2>5. QED
    BY <2>4 DEF Running
<1>8. CASE DrainStale \/ Drained
  BY <1>1, <1>8 DEF DrainStale, Drained
<1>9. CASE DrainingExits
  <2>1. pc = "drain" /\ pc' = "drain"
    BY <1>9 DEF DrainingExits, Inv, DrainAlone
  <2>2. QED
    BY <1>1, <2>1
<1>10. ASSUME NEW p \in Paths, Exit(p) PROVE Exited' # {}
  <2>1. procs[p] \in Process /\ procs \in [Paths -> Process \cup {NoProcess}]
    BY <1>10 DEF Exit, Inv, TypeOK, Known
  <2>2. procs'[p] = [procs[p] EXCEPT !.up = FALSE]
    BY <1>10, <2>1 DEF Exit
  <2>3. procs'[p] \in Process /\ ~procs'[p].up
    BY <2>1, <2>2 DEF Process
  <2>4. p \in Exited'
    BY <2>3, AbsentClientAssumption DEF Exited, Known
  <2>5. QED
    BY <2>4
<1>11. ASSUME NEW n \in NodeIDs, OrphanExits(n) PROVE FALSE
  BY <1>2, <1>11 DEF OrphanExits
<1>12. QED
  BY <1>3, <1>4, <1>5, <1>6, <1>7, <1>8, <1>9, <1>10, <1>11 DEF Next, Reconcile, Drain, Exits

(* A new frpc is started before the old one is drained: the client never   *)
(* stops the last process that runs, unless it is told to stop, the ones   *)
(* it had started instead have exited, or the file of that process is a    *)
(* new one (reconcile, stopAfterDrain).                                    *)
THEOREM StartsBeforeItDrains == Spec => NeverStopsTheLast
<1>1. Inv /\ Replaced' /\ [Next]_vars
        => [Running # {} /\ Running' = {}
              => \/ pc' = "stopped" \/ pc = "killed"
                 \/ Exited' # {}
                 \/ \E p \in Known \cap Written : procs'[p] = NoProcess]_vars
  BY LastIsNotStopped
<1>2. QED
  BY <1>1, AlwaysInv, AlwaysReplaced, PTL DEF Spec, NeverStopsTheLast

-----------------------------------------------------------------------------
(* The client with its control plane *)

(* Whatever nodes selectNodesForClient answers with, and whatever happens  *)
(* at the control plane meanwhile, the client does what FrpcClient allows. *)
THEOREM SystemImplementsClient == SystemSpec => Spec
<1>1. SystemInit => Init
  BY DEF SystemInit
<1>2. [SystemNext]_systemVars => [Next]_vars
  <2>1. ServedFirst \/ ServedTick \/ ServedFailover \/ DaemonAlone => Next
    BY DEF ServedFirst, ServedTick, ServedFailover, DaemonAlone, Next
  <2>2. ClearTarget => UNCHANGED vars
    BY DEF ClearTarget
  <2>3. ASSUME NEW n \in NodeIDs
        PROVE  \/ Report(n) \/ ApplyPluginEvent(n) \/ SetClientTarget(n)
               \/ HeartbeatNode(n) \/ NodeGone(n)
               => UNCHANGED vars
    BY DEF Report, ApplyPluginEvent, SetClientTarget, HeartbeatNode, NodeGone
  <2>4. UNCHANGED systemVars => UNCHANGED vars
    BY DEF systemVars
  <2>5. QED
    BY <2>1, <2>2, <2>3, <2>4 DEF SystemNext
<1>3. QED
  BY <1>1, <1>2, PTL DEF SystemSpec, Spec

(* So a client under a control plane whose nodes come and go, and whose    *)
(* administrator moves it, never has two processes at one node, leaves     *)
(* none behind but by a signal in its first sync, and starts the new ones  *)
(* before it drains the old.                                               *)
COROLLARY ServedClientIsSafe == SystemSpec => []OnePerNode /\ NoOrphans /\ NeverStopsTheLast
  BY SystemImplementsClient, OneFrpcPerNode, StopsEverything, StartsBeforeItDrains, PTL
===============================================================================
