-------------------------------- MODULE AliDNS --------------------------------
(***************************************************************************)
(* The hook for AliDNS (dns_alidns.go): a process that reads the settings  *)
(* the console saves, looks the record of the public entry host up and     *)
(* adds or updates it.                                                     *)
(*                                                                         *)
(* A hook is killed after 30 seconds.  A request it has sent may be        *)
(* carried out after that, and two hooks may run at once: an               *)
(* administrator's, the auto-switch loop's, a DNS test's.                  *)
(*                                                                         *)
(* The zone is modelled from how runAliDNSUpdate uses it; nobody else      *)
(* changes the records of the public entry host.  Those of other hosts     *)
(* that its keyword matches as well are left out, but for that they may    *)
(* fill the one page that is looked at.                                    *)
(***************************************************************************)
EXTENDS AdminConsole

CONSTANTS
    Hooks,     \* runs of the hook
    Targets,   \* addresses of proxy nodes
    NoRecord   \* absent record

ASSUME NoRecordAssumption == NoRecord \notin Targets \cup Hooks

VARIABLES
    zone,  \* zone[h]: the record that h has added
    hook,  \* hook[h]: how far the run is
    sent   \* hooks whose request is under way to the name server

dnsVars == <<zone, hook, sent>>
allVars == <<fileVars, consoleVars, dnsVars>>

Records == {h \in Hooks : zone[h] # NoRecord}

(* found: the record to update.  History: first, started without a record; *)
(* hidden, its page had none although there was one.                       *)
HookRec ==
    [phase : {"new", "running", "found", "sent", "ok", "failed"}, target : Targets \cup {NoRecord},
     found : Hooks \cup {NoRecord}, first : BOOLEAN, hidden : BOOLEAN]

NotRun ==
    [phase |-> "new", target |-> NoRecord, found |-> NoRecord, first |-> FALSE, hidden |-> FALSE]

(* loadAliDNSConfig refuses a file without an AccessKey secret. *)
StartRun(h, target) ==
    /\ hook[h] = NotRun
    /\ hook' = [hook EXCEPT ![h] =
                  [phase |-> IF live["alidns"] \in Keys THEN "running" ELSE "failed",
                   target |-> target, found |-> NoRecord, first |-> Records = {},
                   hidden |-> FALSE]]
    /\ UNCHANGED <<zone, sent>>

(* Mutant of Describe: the records are not looked through. *)
DescribeNothing(h) ==
    /\ hook[h].phase = "running"
    /\ hook' = [hook EXCEPT ![h].phase = "found"]
    /\ UNCHANGED <<zone, sent>>

(* DescribeDomainRecords: the first record that matches, in any order, if  *)
(* there is one on the first page of 20.                                   *)
Describe(h) ==
    /\ hook[h].phase = "running"
    /\ \E r \in Records \cup {NoRecord} :
         hook' = [hook EXCEPT ![h].phase = "found", ![h].found = r,
                              ![h].hidden = (r = NoRecord /\ Records # {})]
    /\ UNCHANGED <<zone, sent>>

(* AddDomainRecord or UpdateDomainRecord is sent, *)
Send(h) ==
    /\ hook[h].phase = "found"
    /\ hook' = [hook EXCEPT ![h].phase = "sent"]
    /\ sent' = sent \cup {h}
    /\ UNCHANGED zone

(* and carried out, with its sender waiting or not, *)
Apply(h) ==
    /\ h \in sent
    /\ LET r == IF hook[h].found = NoRecord THEN h ELSE hook[h].found
       IN  zone' = [zone EXCEPT ![r] = hook[h].target]
    /\ hook' = [hook EXCEPT ![h].phase = IF @ = "sent" THEN "ok" ELSE @]
    /\ sent' = sent \ {h}

(* or lost. *)
LoseRequest(h) ==
    /\ h \in sent
    /\ sent' = sent \ {h}
    /\ UNCHANGED <<zone, hook>>

(* The name server reports an error, or the 30 seconds are over. *)
RunFails(h) ==
    /\ hook[h].phase \in {"running", "found", "sent"}
    /\ hook' = [hook EXCEPT ![h].phase = "failed"]
    /\ UNCHANGED <<zone, sent>>

Init ==
    /\ ConsoleInit
    /\ zone = [h \in Hooks |-> NoRecord]
    /\ hook = [h \in Hooks |-> NotRun]
    /\ sent = {}

HookStep ==
    \E h \in Hooks :
        \/ \E target \in Targets : StartRun(h, target)
        \/ Describe(h)
        \/ Send(h)
        \/ Apply(h)
        \/ LoseRequest(h)
        \/ RunFails(h)

Next ==
    \/ ConsoleStep /\ UNCHANGED dnsVars
    \/ HookStep /\ UNCHANGED <<fileVars, consoleVars>>

Spec == Init /\ [][Next]_allVars

-----------------------------------------------------------------------------
(* Properties *)

(* Types, with what the console keeps. *)
TypeOK ==
    /\ ConsoleTypeOK
    /\ zone \in [Hooks -> Targets \cup {NoRecord}]
    /\ hook \in [Hooks -> HookRec]
    /\ sent \in SUBSET Hooks

(* Once the public entry host has its record, a run of the hook that       *)
(* starts from then on adds a second one, which leaves the name pointing   *)
(* to two nodes for good, only if its page did not show the first: not     *)
(* because it runs beside another, and not because a request is carried    *)
(* out after its sender was killed.                                        *)
OnlyUnseenIsAdded == \A h \in Records : hook[h].first \/ hook[h].hidden
===============================================================================
