---------------------------- MODULE LastWriterWins ----------------------------
(***************************************************************************)
(* What copying records between control planes promises: every replica     *)
(* keeps a copy of each record, a write gives its copy a version no copy   *)
(* in sight has, newer or older than theirs, snapshots of all of a         *)
(* replica's copies travel and may be lost, and a replica that receives    *)
(* one keeps, record by record, the newer of the two copies.               *)
(*                                                                         *)
(* No token is kept back, no field is merged and no copy is preferred for  *)
(* anything but its version: the exceptions MergeState makes (store.go)    *)
(* must not be seen from here.                                             *)
(***************************************************************************)
EXTENDS Integers

CONSTANTS
    Replicas,  \* who keeps copies
    Keys,      \* the records
    Record,    \* what a copy may be; its field updatedAt is its version
    Absent     \* no copy

VARIABLES
    copies,    \* copies[r][k]: replica r's copy of record k
    transit    \* snapshots under way, each a function like copies[r]

vars == <<copies, transit>>

Init ==
    /\ copies = [r \in Replicas |-> [k \in Keys |-> Absent]]
    /\ transit = {}

(* All copies of record k, wherever they are. *)
CopiesOf(k) == ({copies[r][k] : r \in Replicas} \cup {s[k] : s \in transit}) \ {Absent}

Latest(local, remote) ==
    IF remote = Absent THEN local
    ELSE IF local = Absent THEN remote
    ELSE IF remote.updatedAt > local.updatedAt THEN remote
    ELSE local

Write(r, k) ==
    \E value \in {copies'[r][k]} :
        /\ value \in Record
        /\ \A old \in CopiesOf(k) : old.updatedAt # value.updatedAt
        /\ copies' = [copies EXCEPT ![r][k] = value]
        /\ UNCHANGED transit

Send(r) ==
    /\ transit' = transit \cup {copies[r]}
    /\ UNCHANGED copies

(* A snapshot arrives; another one like it may still be under way. *)
Receive(r, s) ==
    /\ copies' = [copies EXCEPT ![r] = [k \in Keys |-> Latest(@[k], s[k])]]
    /\ transit' \in {transit, transit \ {s}}

Lose(s) ==
    /\ transit' = transit \ {s}
    /\ UNCHANGED copies

Next ==
    \/ \E r \in Replicas : Send(r) \/ \E k \in Keys : Write(r, k)
    \/ \E s \in transit : Lose(s) \/ \E r \in Replicas : Receive(r, s)

Spec == Init /\ [][Next]_vars
===============================================================================
