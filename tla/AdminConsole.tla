----------------------------- MODULE AdminConsole -----------------------------
(***************************************************************************)
(* The administrator's side of one control plane: sessions and the         *)
(* authenticator (runtime.go, totp.go, the auth handlers of api.go) and    *)
(* the settings files the console saves (admin_config.go), each by         *)
(* WriteEnvFile.                                                           *)
(*                                                                         *)
(* Sessions live in memory only.  The files are read anew by every request *)
(* that needs them.  A request reads a file, computes its new content and  *)
(* writes it, without a lock.                                              *)
(*                                                                         *)
(* A file may fail to be read although it is there.  A key with a quote, a *)
(* backslash or a line break in it is not read as it was written           *)
(* (EnvValues); no other value of these files has one.                     *)
(*                                                                         *)
(* A password file and the three paths are taken as configured.  A session *)
(* is its age since it was last used; who holds a secret can give a right  *)
(* code for it, and nobody else.                                           *)
(***************************************************************************)
EXTENDS EnvFiles, Integers

CONSTANTS
    SessionIDs,  \* session tokens, each drawn at most once
    NoSession,   \* absent key of API.sessions
    SessionTTL,  \* idle time after which a session has expired
    Secrets,     \* TOTP secrets, each drawn at most once
    Keys,        \* AccessKey secrets an administrator may enter
    Altered,     \* those that are not read back as they were written
    Blank,       \* he leaves the field empty
    NoKey,       \* a file without an AccessKey secret
    NodeToken    \* NODE_TOKEN in node.env

ASSUME SessionAssumption == SessionTTL \in Nat /\ NoSession \notin Nat
ASSUME FilesAssumption == Files = {"auth", "alidns", "node"}
ASSUME ValuesAssumption ==
    /\ Secrets \cup Keys \cup {NoKey, NodeToken} = Values
    /\ Blank \notin Values /\ NoKey \notin Keys /\ Altered \subseteq Keys

VARIABLES
    sessions,  \* API.sessions
    drawn,     \* history: the session tokens drawn so far
    held,      \* secrets that an authenticator, or the token command, has
    request,   \* request[w]: what the request has been found to be
    misread    \* history: a PATCH that needed the secret failed to read it

consoleVars == <<sessions, drawn, held, request, misread>>

Age == 0 .. SessionTTL + 1

-----------------------------------------------------------------------------
(* runtime.go *)

Live(s) == sessions[s] # NoSession /\ sessions[s] <= SessionTTL

(* Mutant of Renewed: the session is renewed before it is looked at. *)
RenewedAlways(s) == [sessions EXCEPT ![s] = 0]

(* validSession's effect: an expired session is deleted, a live one lasts  *)
(* for another SessionTTL.                                                 *)
Renewed(s) == [sessions EXCEPT ![s] = IF Live(s) THEN 0 ELSE NoSession]

(* The authenticator's handlers take a password or a session: a request    *)
(* with the right password may carry a cookie all the same.                *)
CookieLookedAt == sessions' \in {sessions} \cup {Renewed(s) : s \in drawn}

(* createSession *)
CreateSession(s) ==
    /\ s \notin drawn
    /\ sessions' = [sessions EXCEPT ![s] = 0]
    /\ drawn' = drawn \cup {s}

-----------------------------------------------------------------------------
(* api.go: sessions and the authenticator *)

(* A request with cookie s that changes nothing else, accepted or not. *)
Visit(s) ==
    /\ s \in drawn
    /\ sessions' = Renewed(s)
    /\ UNCHANGED <<fileVars, drawn, held, request, misread>>

(* handleLogin: a code for the secret in the file. *)
Login(s) ==
    /\ live["auth"] \in held
    /\ CreateSession(s)
    /\ UNCHANGED <<fileVars, held, request, misread>>

(* handleLogout, which asks for no valid session. *)
Logout(s) ==
    /\ s \in drawn
    /\ sessions' = [sessions EXCEPT ![s] = NoSession]
    /\ UNCHANGED <<fileVars, drawn, held, request, misread>>

(* handleTOTPSetup: a secret is drawn and shown, stored nowhere, and       *)
(* scanned; a setup that nobody scans changes nothing.                     *)
TOTPSetup(x) ==
    /\ x \notin held
    /\ held' = held \cup {x}
    /\ CookieLookedAt
    /\ UNCHANGED <<fileVars, drawn, request, misread>>

(* handleTOTPConfirm: with a code for the secret that the request names;   *)
(* it replaces whatever is bound.                                          *)
TOTPConfirm(w, x) ==
    /\ request[w] = "new"
    /\ x \in held
    /\ request' = [request EXCEPT ![w] = "confirm"]
    /\ BeginSave(w, "auth", x, x)
    /\ CookieLookedAt
    /\ UNCHANGED <<drawn, held, misread>>

TOTPConfirmed(w, s) ==
    /\ request[w] = "confirm" /\ save[w].at = "done"
    /\ CreateSession(s)
    /\ request' = [request EXCEPT ![w] = "over"]
    /\ UNCHANGED <<fileVars, held, misread>>

-----------------------------------------------------------------------------
(* api.go: handleAdminConfig, PATCH *)

(* What ReadEnvFile makes of the secret in a file: of one that             *)
(* shellEnvValue and unquoteEnvValue alter between them, whatever.         *)
ReadBack(content) ==
    IF content \in Altered THEN Keys \cup {NoKey} ELSE {ValueOf(content, NoKey)}

(* WriteAliDNSSettings: an empty field keeps what was read, *)
KeyToWrite(entered, read) == IF entered = Blank THEN read ELSE entered

(* while he who left it empty expects what the file says. *)
KeyExpected(entered) == IF entered = Blank THEN ValueOf(due["alidns"], NoKey) ELSE entered

(* A PATCH with AliDNS settings, or with agent settings as well.  That the *)
(* file cannot be read is ignored: then there was no secret.               *)
PatchAliDNS(w, s, entered, parts) ==
    /\ request[w] = "new" /\ Live(s)
    /\ sessions' = Renewed(s)
    /\ request' = [request EXCEPT ![w] = parts]
    /\ \E read \in ReadBack(live["alidns"]) \cup {NoKey} :
         /\ BeginSave(w, "alidns", KeyToWrite(entered, read), KeyExpected(entered))
         /\ misread' = (misread \/ (entered = Blank /\ read \notin ReadBack(live["alidns"])))
    /\ UNCHANGED <<drawn, held>>

(* Mutant of WriteAgentSettings: that node.env cannot be read is ignored. *)
WriteAgentSettingsUnread(w) ==
    /\ BeginSave(w, "node", live["node"], due["node"])
    /\ request' = [request EXCEPT ![w] = "agent"]

(* WriteAgentSettings: the other keys of node.env are written back as they *)
(* were read.                                                              *)
WriteAgentSettings(w) ==
    /\ live["node"] \in Values
    /\ BeginSave(w, "node", live["node"], due["node"])
    /\ request' = [request EXCEPT ![w] = "agent"]

(* A PATCH with agent settings alone, *)
PatchAgent(w, s) ==
    /\ request[w] = "new" /\ Live(s)
    /\ sessions' = Renewed(s)
    /\ WriteAgentSettings(w)
    /\ UNCHANGED <<drawn, held, misread>>

(* or the second half of one, after the AliDNS settings are in place. *)
ThenAgent(w) ==
    /\ request[w] = "both" /\ save[w].at = "done"
    /\ WriteAgentSettings(w)
    /\ UNCHANGED <<sessions, drawn, held, misread>>

(* The request is answered: every part is saved, or one has failed, or     *)
(* node.env cannot be read.                                                *)
Answered(w) ==
    /\ \/ request[w] # "over" /\ save[w] # NoSave /\ save[w].at = "failed"
       \/ request[w] \in {"alidns", "agent"} /\ save[w].at = "done"
       \/ request[w] = "both" /\ save[w].at = "done"
    /\ request' = [request EXCEPT ![w] = "over"]
    /\ UNCHANGED <<fileVars, sessions, drawn, held, misread>>

-----------------------------------------------------------------------------
(* The control plane is stopped or crashes, and starts again. *)
Restart ==
    /\ SavesLost
    /\ sessions' = [s \in SessionIDs |-> NoSession]
    /\ request' = [w \in Requests |-> IF request[w] = "new" THEN "new" ELSE "over"]
    /\ UNCHANGED <<live, tmp, due, overlapped, drawn, held, misread>>

Tick ==
    /\ sessions' = [s \in SessionIDs |->
                      IF Live(s) THEN sessions[s] + 1 ELSE sessions[s]]
    /\ UNCHANGED <<fileVars, drawn, held, request, misread>>

(* A machine that is no node has no node.env. *)
ConsoleInit ==
    /\ \E token \in {NodeToken, Absent} :
         FilesInit([f \in Files |-> IF f = "node" THEN token ELSE Absent])
    /\ sessions = [s \in SessionIDs |-> NoSession]
    /\ drawn = {}
    /\ held = {}
    /\ request = [w \in Requests |-> "new"]
    /\ misread = FALSE

SessionStep ==
    \/ \E s \in SessionIDs : Visit(s) \/ Login(s) \/ Logout(s)
    \/ Restart
    \/ Tick

AuthenticatorStep ==
    \E x \in Secrets :
        \/ TOTPSetup(x)
        \/ \E w \in Requests : TOTPConfirm(w, x)

PatchStep ==
    \E w \in Requests :
        \/ \E s \in SessionIDs :
             \/ \E entered \in Keys \cup {Blank}, parts \in {"alidns", "both"} :
                  PatchAliDNS(w, s, entered, parts)
             \/ PatchAgent(w, s)
        \/ ThenAgent(w)

ConsoleStep ==
    \/ SessionStep
    \/ AuthenticatorStep
    \/ PatchStep
    \/ \E w \in Requests :
         \/ SaveStep(w) /\ UNCHANGED consoleVars
         \/ \E s \in SessionIDs : TOTPConfirmed(w, s)
         \/ Answered(w)

-----------------------------------------------------------------------------
(* Properties *)

(* Types; a request that is being served is in a call that saves. *)
ConsoleTypeOK ==
    /\ FilesTypeOK
    /\ sessions \in [SessionIDs -> Age \cup {NoSession}]
    /\ drawn \in SUBSET SessionIDs
    /\ held \in SUBSET Secrets
    /\ request \in [Requests -> {"new", "alidns", "both", "agent", "confirm", "over"}]
    /\ \A w \in Requests : request[w] \notin {"new", "over"} => save[w] # NoSave
    /\ misread \in BOOLEAN

(* The file f says what is expected of it, but for a secret that is not    *)
(* read back as written, or is gone since a PATCH failed to read it.       *)
Says(f, content, expected, unread) ==
    \/ content = expected
    \/ f = "alidns" /\ expected \in Altered /\ content \in Values
    \/ f = "alidns" /\ unread /\ content = NoKey

(* A secret left blank is kept, so are the node token in node.env and the  *)
(* bound authenticator: unless two requests have saved a file at the same  *)
(* time it is complete and says what the last save that reached it was to  *)
(* make it say, whatever saves have failed or were cut short, and with the *)
(* temporary files they left.                                              *)
FilesSayWhatIsDue ==
    \A f \in Files \ overlapped : Says(f, live[f], due[f], misread)

Ended(s) == s \in drawn /\ ~Live(s)

(* A session that has expired, was logged out or was lost in a restart     *)
(* does not come back, whatever request with its cookie is on the way.     *)
EndedStaysEnded == [][\A s \in SessionIDs : Ended(s) => Ended(s)']_consoleVars
===============================================================================
