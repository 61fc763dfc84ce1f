------------------------------- MODULE MCAliDNS -------------------------------
(* The console and the AliDNS hook on two of everything.  Of the two       *)
(* AccessKey secrets one is in double quotes, and one has a single quote   *)
(* in it, and so is not read back as it was written.                       *)
EXTENDS AliDNS, EnvValues

KeysEntered == {<<"\"", "a", "\"">>, <<"'">>}
NotReadBack == {key \in KeysEntered : Existing(ShellEnvValue(key)) # key}
AllValues == Secrets \cup Keys \cup {NoKey, NodeToken}

(* Nothing tells two requests, sessions, TOTP secrets or hooks apart. *)
Symmetry ==
    Permutations(Requests) \cup Permutations(SessionIDs) \cup Permutations(Secrets)
        \cup Permutations(Hooks)

(* A secret with no single quote, backslash or line break in it is in the  *)
(* file as it was entered, however often it was read and written back by   *)
(* requests that leave the field blank (WriteAliDNSSettings), one after    *)
(* the other; and so is any other such value of up to MaxLength characters *)
(* that goes through a file once (shellEnvValue, unquoteEnvValue).         *)
OthersAreKept ==
    /\ PlainReadBack
    /\ "alidns" \notin overlapped /\ ~misread
         => \A key \in Keys : due["alidns"] = key /\ Plain(key) => live["alidns"] = key
===============================================================================
