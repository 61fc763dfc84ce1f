----------------------------- MODULE AliDNSProofs -----------------------------
(***************************************************************************)
(* Theorems about AliDNS, AdminConsole and EnvFiles: any number of saving  *)
(* requests, sessions, secrets, keys, runs of the hook and addresses.      *)
(***************************************************************************)
EXTENDS AliDNS, TLAPS

-----------------------------------------------------------------------------
(* The invariant of the files *)

(* Where a lone writer of f is: its temporary file is what it has made it. *)
AloneAt(w, f) ==
    /\ Says(f, save[w].value, save[w].due, misread)
    /\ save[w].at = "open" => save[w].fd = "none"
    /\ save[w].at = "write" => save[w].fd = "tmp" /\ tmp[f] = Empty
    /\ save[w].at = "rename" => save[w].fd = "tmp" /\ tmp[f] = save[w].value

(* As long as no two requests have saved f at once. *)
Orderly ==
    \A f \in Files \ overlapped :
        /\ Says(f, live[f], due[f], misread)
        /\ \A v, w \in Requests : Saving(v, f) /\ Saving(w, f) => v = w
        /\ \A w \in Requests : Saving(w, f) => AloneAt(w, f)

(* Nobody writes node.env on a machine that has none. *)
NoNodeEnv ==
    due["node"] \notin Values =>
        /\ live["node"] \notin Values
        /\ \A w \in Requests : save[w] # NoSave => save[w].file # "node"

FilesInv == FilesTypeOK /\ Orderly /\ NoNodeEnv

-----------------------------------------------------------------------------
(* The invariant of the zone *)

(* A run that has begun before there was a record is a first one. *)
FirstKnown ==
    \A h \in Hooks : hook[h].phase # "new" =>
        /\ hook[h].target \in Targets
        /\ Records = {} => hook[h].first

(* Only a first run, or one whose page does not show it, may find no       *)
(* record, and a record that was found stays.                              *)
FoundStays ==
    \A h \in Hooks :
        /\ hook[h].found # NoRecord => hook[h].found \in Records
        /\ (hook[h].phase \in {"found", "sent"} \/ h \in sent) /\ hook[h].found = NoRecord
             => hook[h].first \/ hook[h].hidden

(* Who has sent something has looked for the record before. *)
RunsBegun ==
    \A h \in Hooks : h \in sent \cup Records => hook[h].phase \notin {"new", "running"}

ZoneInv == FirstKnown /\ FoundStays /\ RunsBegun /\ OnlyUnseenIsAdded

-----------------------------------------------------------------------------
(* EnvFiles *)

(* A failed read excuses what was excused before it, and more. *)
LEMMA SaysOn ==
    ASSUME NEW f, NEW content, NEW expected, NEW old, NEW new, old => new,
           Says(f, content, expected, old)
    PROVE  Says(f, content, expected, new)
  BY DEF Says

(* A call in progress, and how it goes on. *)
LEMMA SavesAreRecords ==
    ASSUME FilesTypeOK, NEW w \in Requests, save[w] # NoSave
    PROVE  /\ save[w] \in SaveRec
           /\ \A at \in {"open", "write", "rename", "done", "failed"},
                 fd \in {"none", "tmp", "live", "gone"} :
                 /\ [save[w] EXCEPT !.at = at, !.fd = fd] \in SaveRec
                 /\ [save[w] EXCEPT !.at = at] \in SaveRec
                 /\ [save[w] EXCEPT !.fd = fd] \in SaveRec
<1>1. save[w] \in SaveRec
  BY DEF FilesTypeOK
<1>2. QED
  BY <1>1 DEF SaveRec

(* The step of w leaves everybody's calls as they are, but its own.        *)
OthersGoOn(w) ==
    /\ save' = [save EXCEPT ![w] = save'[w]]
    /\ save'[w] \in SaveRec

LEMMA OthersSave ==
    ASSUME FilesTypeOK, NEW w \in Requests, OthersGoOn(w)
    PROVE  /\ save' \in [Requests -> SaveRec \cup {NoSave}]
           /\ save'[w] # NoSave
           /\ \A v \in Requests \ {w} : save'[v] = save[v]
           /\ \A v \in Requests \ {w}, f \in Files : Saving(v, f)' <=> Saving(v, f)
<1>1. /\ save' \in [Requests -> SaveRec \cup {NoSave}]
      /\ \A v \in Requests \ {w} : save'[v] = save[v]
  BY DEF OthersGoOn, FilesTypeOK
<1>2. save'[w] # NoSave
  BY ContentAssumption DEF OthersGoOn
<1>3. QED
  BY <1>1, <1>2 DEF Saving

LEMMA SaysItself == ASSUME NEW f, NEW content, NEW unread PROVE Says(f, content, content, unread)
  BY DEF Says

LEMMA BeginSaveKeeps ==
    ASSUME FilesInv, NEW w \in Requests, NEW f \in Files, NEW value \in Values,
           NEW expected \in Values, BeginSave(w, f, value, expected),
           misread => misread',
           Says(f, live[f], due[f], misread) => Says(f, value, expected, misread'),
           f = "node" => due["node"] \in Values
    PROVE  FilesInv' /\ OthersGoOn(w)
<1> DEFINE call == [file |-> f, value |-> value, due |-> expected, fd |-> "none", at |-> "open"]
<1>1. /\ save' = [save EXCEPT ![w] = call] /\ UNCHANGED <<live, tmp, due>>
      /\ call \in SaveRec
  BY DEF BeginSave, SaveRec
<1>2. save'[w] = call
  BY <1>1 DEF FilesInv, FilesTypeOK
<1>3. OthersGoOn(w)
  BY <1>1, <1>2 DEF OthersGoOn
<1>4. overlapped' = IF \E v \in Requests \ {w} : Saving(v, f)
                    THEN overlapped \cup {f} ELSE overlapped
  BY DEF BeginSave
<1>5. FilesTypeOK'
  BY <1>1, <1>3, <1>4, OthersSave DEF FilesInv, FilesTypeOK
<1>6. \A g \in Files : Saving(w, g)' => g = f
  BY <1>2 DEF Saving
<1>7. Orderly'
  <2>1. SUFFICES ASSUME NEW g \in Files \ overlapped'
                 PROVE  /\ Says(g, live'[g], due'[g], misread')
                        /\ \A u, v \in Requests : Saving(u, g)' /\ Saving(v, g)' => u = v
                        /\ \A v \in Requests : Saving(v, g)' => AloneAt(v, g)'
    BY DEF Orderly
  <2>2. g \in Files \ overlapped
    BY <1>4
  <2>3. Says(g, live'[g], due'[g], misread')
    BY <1>1, <2>2, SaysOn DEF FilesInv, Orderly
  <2>4. \A v \in Requests \ {w} : Saving(v, g)' => Saving(v, g) /\ AloneAt(v, g)'
    BY <1>1, <1>3, <2>2, OthersSave, SaysOn DEF FilesInv, Orderly, AloneAt
  <2>5. CASE g = f
    <3>1. \A v \in Requests \ {w} : ~Saving(v, g)
      BY <1>4, <2>1, <2>5
    <3>2. AloneAt(w, g)'
      BY <1>2, <2>2, <2>5 DEF AloneAt, FilesInv, Orderly
    <3>3. QED
      BY <2>3, <2>4, <3>1, <3>2
  <2>6. CASE g # f
    BY <1>6, <2>2, <2>3, <2>4, <2>6 DEF FilesInv, Orderly
  <2>7. QED
    BY <2>5, <2>6
<1>8. NoNodeEnv'
  BY <1>1, <1>2, <1>3, OthersSave DEF FilesInv, NoNodeEnv
<1>9. QED
  BY <1>3, <1>5, <1>7, <1>8 DEF FilesInv

(* A step of w's call that reaches no file but its own and ends no other. *)
LEMMA OwnStepKeeps ==
    ASSUME FilesInv, NEW w \in Requests, save[w] # NoSave, OthersGoOn(w), NEW f \in Files,
           save[w].file = f, save'[w].file = f, Saving(w, f),
           due' = due, overlapped' = overlapped, misread' = misread,
           live' \in [Files -> Content], tmp' \in [Files -> Content],
           \A g \in Files \ {f} : live'[g] = live[g] /\ tmp'[g] = tmp[g],
           f \notin overlapped => live'[f] = live[f] /\ (Saving(w, f)' => AloneAt(w, f)')
    PROVE  FilesInv'
<1>1. FilesTypeOK'
  BY OthersSave DEF FilesInv, FilesTypeOK
<1>2. Orderly'
  <2>1. SUFFICES ASSUME NEW g \in Files \ overlapped
                 PROVE  /\ Says(g, live'[g], due[g], misread)
                        /\ \A u, v \in Requests : Saving(u, g)' /\ Saving(v, g)' => u = v
                        /\ \A v \in Requests : Saving(v, g)' => AloneAt(v, g)'
    BY DEF Orderly
  <2>2. /\ Says(g, live[g], due[g], misread)
        /\ \A u, v \in Requests : Saving(u, g) /\ Saving(v, g) => u = v
        /\ \A v \in Requests : Saving(v, g) => AloneAt(v, g)
    BY DEF FilesInv, Orderly
  <2>3. \A v \in Requests : Saving(v, g)' => Saving(v, g)
    BY OthersSave DEF Saving, FilesInv
  <2>4. Says(g, live'[g], due[g], misread)
    BY <2>2
  <2>5. ASSUME NEW v \in Requests, Saving(v, g)' PROVE AloneAt(v, g)'
    <3>1. CASE g = f
      <4>1. v = w
        BY <2>2, <2>3, <2>5, <3>1
      <4>2. QED
        BY <2>1, <2>5, <3>1, <4>1
    <3>2. CASE g # f
      <4>1. v # w
        BY <2>5, <3>2 DEF Saving
      <4>2. save'[v] = save[v] /\ tmp'[g] = tmp[g]
        BY <3>2, <4>1, OthersSave DEF FilesInv
      <4>3. QED
        BY <2>2, <2>3, <2>5, <4>2 DEF AloneAt
    <3>3. QED
      BY <3>1, <3>2
  <2>6. QED
    BY <2>2, <2>3, <2>4, <2>5
<1>3. NoNodeEnv'
  <2>1. due["node"] \notin Values => f # "node"
    BY DEF FilesInv, NoNodeEnv
  <2>2. SUFFICES ASSUME due["node"] \notin Values
                 PROVE  /\ live'["node"] \notin Values
                        /\ \A v \in Requests : save'[v] # NoSave => save'[v].file # "node"
    BY DEF NoNodeEnv
  <2>3. "node" \in Files
    BY FilesAssumption
  <2>4. live'["node"] \notin Values
    BY <2>1, <2>2, <2>3 DEF FilesInv, NoNodeEnv
  <2>5. QED
    BY <2>1, <2>2, <2>4, OthersSave DEF FilesInv, NoNodeEnv
<1>4. QED
  BY <1>1, <1>2, <1>3 DEF FilesInv

LEMMA OpenKeeps ==
    ASSUME FilesInv, NEW w \in Requests, OpenTmp(w), misread' = misread
    PROVE  FilesInv' /\ OthersGoOn(w)
<1> DEFINE f == save[w].file
           call == [save[w] EXCEPT !.at = "write", !.fd = "tmp"]
<1>1. save[w] \in SaveRec /\ call \in SaveRec /\ save[w] # NoSave
  BY SavesAreRecords DEF FilesInv, OpenTmp
<1>2. f \in Files /\ call.file = f /\ call.at = "write" /\ call.fd = "tmp"
      /\ call.value = save[w].value /\ call.due = save[w].due
  BY <1>1 DEF SaveRec
<1>3. save'[w] = call /\ OthersGoOn(w)
  BY <1>1 DEF OpenTmp, OthersGoOn, FilesInv, FilesTypeOK
<1> HIDE DEF call
<1>4. Saving(w, f)
  BY <1>1 DEF OpenTmp, Saving
<1>5. /\ tmp' \in [Files -> Content] /\ tmp'[f] = Empty
      /\ \A g \in Files \ {f} : tmp'[g] = tmp[g]
  BY <1>2 DEF OpenTmp, FilesInv, FilesTypeOK, Content
<1>6. f \notin overlapped => AloneAt(w, f)'
  BY <1>2, <1>3, <1>4, <1>5 DEF AloneAt, FilesInv, Orderly
<1>7. QED
  BY <1>1, <1>2, <1>3, <1>4, <1>5, <1>6, OwnStepKeeps DEF OpenTmp, FilesInv, FilesTypeOK

LEMMA WriteKeeps ==
    ASSUME FilesInv, NEW w \in Requests, WriteTmp(w), misread' = misread
    PROVE  FilesInv' /\ OthersGoOn(w)
<1> DEFINE f == save[w].file
           call == [save[w] EXCEPT !.at = "rename"]
<1>1. save[w] \in SaveRec /\ call \in SaveRec /\ save[w] # NoSave
  BY SavesAreRecords DEF FilesInv, WriteTmp
<1>2. f \in Files /\ call.file = f /\ call.at = "rename" /\ call.fd = save[w].fd
      /\ call.value = save[w].value /\ call.due = save[w].due /\ save[w].value \in Values
  BY <1>1 DEF SaveRec
<1>3. save'[w] = call /\ OthersGoOn(w)
  BY <1>1 DEF WriteTmp, OthersGoOn, FilesInv, FilesTypeOK
<1> HIDE DEF call
<1>4. Saving(w, f)
  BY <1>1 DEF WriteTmp, Saving
<1>5. \A old, value \in Content : Writes(old, value) \subseteq Content
  BY DEF Writes, Content
<1>6. save[w].value \in Content
  BY <1>2 DEF Content
<1>7. /\ live' \in [Files -> Content] /\ tmp' \in [Files -> Content]
      /\ \A g \in Files \ {f} : live'[g] = live[g] /\ tmp'[g] = tmp[g]
  <2>1. CASE save[w].fd = "tmp"
    BY <1>2, <1>5, <1>6, <2>1 DEF WriteTmp, FilesInv, FilesTypeOK
  <2>2. CASE save[w].fd = "live"
    BY <1>2, <1>5, <1>6, <2>2 DEF WriteTmp, FilesInv, FilesTypeOK
  <2>3. CASE save[w].fd \notin {"tmp", "live"}
    BY <1>2, <2>3 DEF WriteTmp, FilesInv, FilesTypeOK
  <2>4. QED
    BY <2>1, <2>2, <2>3
<1>8. ASSUME f \notin overlapped PROVE live'[f] = live[f] /\ AloneAt(w, f)'
  <2>1. AloneAt(w, f) /\ save[w].at = "write"
    BY <1>2, <1>4, <1>8 DEF FilesInv, Orderly, WriteTmp
  <2>2. save[w].fd = "tmp" /\ tmp[f] = Empty
    BY <2>1 DEF AloneAt
  <2>3. live' = live /\ tmp'[f] = save[w].value
    BY <1>2, <2>2 DEF WriteTmp, Writes, FilesInv, FilesTypeOK
  <2>4. QED
    BY <1>2, <1>3, <2>1, <2>2, <2>3 DEF AloneAt
<1>9. QED
  BY <1>1, <1>2, <1>3, <1>4, <1>7, <1>8, OwnStepKeeps DEF WriteTmp

LEMMA FailKeeps ==
    ASSUME FilesInv, NEW w \in Requests, save[w] # NoSave, save[w].at \in {"open", "write", "rename"},
           save' = [save EXCEPT ![w].at = "failed"],
           UNCHANGED <<live, tmp, due, overlapped, misread>>
    PROVE  FilesInv' /\ OthersGoOn(w)
<1> DEFINE f == save[w].file
           call == [save[w] EXCEPT !.at = "failed"]
<1>1. save[w] \in SaveRec /\ call \in SaveRec
  BY SavesAreRecords DEF FilesInv
<1>2. f \in Files /\ call.file = f /\ call.at = "failed"
  BY <1>1 DEF SaveRec
<1>3. save'[w] = call /\ OthersGoOn(w)
  BY <1>1 DEF OthersGoOn, FilesInv, FilesTypeOK
<1> HIDE DEF call
<1>4. Saving(w, f) /\ ~Saving(w, f)'
  BY <1>2, <1>3 DEF Saving
<1>5. QED
  BY <1>2, <1>3, <1>4, OwnStepKeeps DEF FilesInv, FilesTypeOK

(* No step of a call makes another one end. *)
CallsGoOn == \A v \in Requests : save[v] # NoSave => save'[v] # NoSave

(* The rename takes the open files of the other writers of f with it; but  *)
(* a lone writer has none.                                                 *)
LEMMA RenameKeeps ==
    ASSUME FilesInv, NEW w \in Requests, Rename(w), misread' = misread
    PROVE  FilesInv' /\ CallsGoOn
<1> DEFINE f == save[w].file
           call == [save[w] EXCEPT !.at = "done"]
           moved(v) == [save[v] EXCEPT !.fd = Moved(save[v].fd)]
<1>1. save[w] \in SaveRec /\ call \in SaveRec /\ save[w] # NoSave /\ save[w].at = "rename"
  BY SavesAreRecords DEF FilesInv, Rename
<1>2. f \in Files /\ call.file = f /\ call.at = "done" /\ save[w].due \in Values
  BY <1>1 DEF SaveRec
<1>3. CASE tmp[f] = Absent
  <2>1. FilesInv' /\ OthersGoOn(w)
    BY <1>1, <1>3, FailKeeps DEF Rename
  <2>2. QED
    BY <2>1, OthersSave DEF CallsGoOn, FilesInv
<1>4. CASE tmp[f] # Absent
  <2>1. /\ live' = [live EXCEPT ![f] = tmp[f]]
        /\ tmp' = [tmp EXCEPT ![f] = Absent]
        /\ due' = [due EXCEPT ![f] = save[w].due]
        /\ overlapped' = overlapped
        /\ save' = [v \in Requests |->
                      IF v = w THEN call ELSE IF Saving(v, f) THEN moved(v) ELSE save[v]]
    BY <1>4 DEF Rename
  <2>2. ASSUME NEW v \in Requests, Saving(v, f)
        PROVE  moved(v) \in SaveRec /\ moved(v).file = f
    <3>1. save[v] \in SaveRec /\ save[v].file = f
      BY <2>2 DEF Saving, FilesInv, FilesTypeOK
    <3>2. Moved(save[v].fd) \in {"none", "tmp", "live", "gone"}
      BY <3>1 DEF Moved, SaveRec
    <3>3. QED
      BY <3>1, <3>2 DEF SaveRec
  <2> HIDE DEF call, moved
  <2>3. \A v \in Requests : \/ v = w /\ save'[v] = call
                            \/ v # w /\ Saving(v, f) /\ save'[v] = moved(v)
                            \/ v # w /\ ~Saving(v, f) /\ save'[v] = save[v]
    BY <2>1
  <2>4. CallsGoOn
    BY <1>1, <2>2, <2>3, ContentAssumption DEF CallsGoOn
  <2>5. FilesTypeOK'
    <3>1. save' \in [Requests -> SaveRec \cup {NoSave}]
      BY <1>1, <2>1, <2>2 DEF FilesInv, FilesTypeOK
    <3>2. QED
      BY <1>2, <2>1, <3>1 DEF FilesInv, FilesTypeOK, Content
  <2>6. Orderly'
    <3>1. SUFFICES ASSUME NEW g \in Files \ overlapped
                   PROVE  /\ Says(g, live'[g], due'[g], misread)
                          /\ \A u, v \in Requests : Saving(u, g)' /\ Saving(v, g)' => u = v
                          /\ \A v \in Requests : Saving(v, g)' => AloneAt(v, g)'
      BY <2>1 DEF Orderly
    <3>2. /\ Says(g, live[g], due[g], misread)
          /\ \A u, v \in Requests : Saving(u, g) /\ Saving(v, g) => u = v
          /\ \A v \in Requests : Saving(v, g) => AloneAt(v, g)
      BY DEF FilesInv, Orderly
    <3>3. CASE g = f
      <4>1. Saving(w, f)
        BY <1>1 DEF Saving
      <4>2. \A v \in Requests \ {w} : ~Saving(v, f) /\ save'[v] = save[v]
        BY <2>3, <3>2, <3>3, <4>1
      <4>3. \A v \in Requests : ~Saving(v, g)'
        BY <1>2, <2>3, <3>3, <4>2 DEF Saving
      <4>4. Says(f, tmp[f], save[w].due, misread)
        BY <1>1, <3>2, <3>3, <4>1 DEF AloneAt
      <4>5. Says(g, live'[g], due'[g], misread)
        BY <1>2, <2>1, <3>3, <4>4 DEF FilesInv, FilesTypeOK
      <4>6. QED
        BY <4>3, <4>5
    <3>4. CASE g # f
      <4>1. live'[g] = live[g] /\ due'[g] = due[g] /\ tmp'[g] = tmp[g]
        BY <2>1, <3>4 DEF FilesInv, FilesTypeOK
      <4>2. \A v \in Requests : Saving(v, g)' => save'[v] = save[v] /\ Saving(v, g)
        BY <1>2, <2>2, <2>3, <3>4 DEF Saving
      <4>3. \A v \in Requests : Saving(v, g)' => AloneAt(v, g)'
        BY <3>2, <4>1, <4>2 DEF AloneAt
      <4>4. QED
        BY <3>2, <4>1, <4>2, <4>3
    <3>5. QED
      BY <3>3, <3>4
  <2>7. NoNodeEnv'
    <3>1. "node" \in Files
      BY FilesAssumption
    <3>2. CASE f = "node"
      BY <1>2, <2>1, <3>2 DEF NoNodeEnv, FilesInv, FilesTypeOK
    <3>3. CASE f # "node"
      <4>1. live'["node"] = live["node"] /\ due'["node"] = due["node"]
        BY <2>1, <3>1, <3>3 DEF FilesInv, FilesTypeOK
      <4>2. \A v \in Requests : save'[v] # NoSave =>
                save[v] # NoSave /\ (save'[v].file = f \/ save'[v] = save[v])
        BY <1>1, <1>2, <2>2, <2>3 DEF Saving
      <4>3. QED
        BY <3>3, <4>1, <4>2 DEF FilesInv, NoNodeEnv
    <3>4. QED
      BY <3>2, <3>3
  <2>8. QED
    BY <2>4, <2>5, <2>6, <2>7 DEF FilesInv
<1>5. QED
  BY <1>3, <1>4

LEMMA SaveStepKeeps ==
    ASSUME FilesInv, NEW w \in Requests, SaveStep(w), misread' = misread
    PROVE  FilesInv' /\ CallsGoOn
<1>1. CASE Rename(w)
  BY <1>1, RenameKeeps
<1>2. CASE ~Rename(w)
  <2>1. FilesInv' /\ OthersGoOn(w)
    BY <1>2, OpenKeeps, WriteKeeps, FailKeeps DEF SaveStep, SaveFails
  <2>2. QED
    BY <2>1, OthersSave DEF CallsGoOn, FilesInv
<1>3. QED
  BY <1>1, <1>2

LEMMA BeginCallsGoOn ==
    ASSUME FilesInv, NEW w \in Requests, OthersGoOn(w)
    PROVE  CallsGoOn /\ save'[w] # NoSave
  BY OthersSave DEF CallsGoOn, FilesInv

-----------------------------------------------------------------------------
(* AdminConsole *)

SessionsOK ==
    /\ sessions \in [SessionIDs -> Age \cup {NoSession}]
    /\ drawn \in SUBSET SessionIDs

ServedOK ==
    /\ request \in [Requests -> {"new", "alidns", "both", "agent", "confirm", "over"}]
    /\ \A w \in Requests : request[w] \notin {"new", "over"} => save[w] # NoSave

(* What a step of the console never does to a session. *)
NoneRevived == \A s \in SessionIDs : Ended(s) => Ended(s)'

LEMMA SessionsAge ==
    ASSUME SessionsOK
    PROVE  /\ \A s \in SessionIDs : Live(s) => sessions[s] \in 0..SessionTTL
           /\ \A s \in SessionIDs : sessions[s] = NoSession => ~Live(s)
           /\ 0 \in Age /\ \A age \in 0..SessionTTL : age + 1 \in Age
  BY SessionAssumption DEF SessionsOK, Live, Age

LEMMA UntouchedSessions ==
    ASSUME SessionsOK, UNCHANGED <<sessions, drawn>>
    PROVE  SessionsOK' /\ NoneRevived
  BY DEF SessionsOK, NoneRevived, Ended, Live

LEMMA RenewedSession ==
    ASSUME SessionsOK, NEW s \in SessionIDs, sessions' = Renewed(s), drawn' = drawn
    PROVE  SessionsOK' /\ NoneRevived
<1>1. SessionsOK'
  BY SessionsAge DEF SessionsOK, Renewed
<1>2. \A t \in SessionIDs : t # s => sessions'[t] = sessions[t]
  BY DEF SessionsOK, Renewed
<1>3. ~Live(s) => sessions'[s] = NoSession
  BY DEF SessionsOK, Renewed
<1>4. NoneRevived
  BY <1>2, <1>3 DEF NoneRevived, Ended, Live
<1>5. QED
  BY <1>1, <1>4

LEMMA CookieSession ==
    ASSUME SessionsOK, CookieLookedAt, drawn' = drawn
    PROVE  SessionsOK' /\ NoneRevived
<1>1. CASE sessions' = sessions
  BY <1>1, UntouchedSessions
<1>2. ASSUME NEW s \in drawn, sessions' = Renewed(s) PROVE SessionsOK' /\ NoneRevived
  <2>1. s \in SessionIDs
    BY DEF SessionsOK
  <2>2. QED
    BY <1>2, <2>1, RenewedSession
<1>3. QED
  BY <1>1, <1>2 DEF CookieLookedAt

LEMMA CreatedSession ==
    ASSUME SessionsOK, NEW s \in SessionIDs, CreateSession(s)
    PROVE  SessionsOK' /\ NoneRevived
<1>1. SessionsOK'
  BY SessionsAge DEF SessionsOK, CreateSession
<1>2. \A t \in SessionIDs : t # s => sessions'[t] = sessions[t]
  BY DEF SessionsOK, CreateSession
<1>3. NoneRevived
  BY <1>2 DEF NoneRevived, Ended, Live, CreateSession
<1>4. QED
  BY <1>1, <1>3

LEMMA LoggedOutSession ==
    ASSUME SessionsOK, NEW s \in SessionIDs, Logout(s)
    PROVE  SessionsOK' /\ NoneRevived
<1>1. SessionsOK'
  BY DEF SessionsOK, Logout
<1>2. /\ \A t \in SessionIDs : t # s => sessions'[t] = sessions[t]
      /\ sessions'[s] = NoSession
  BY DEF SessionsOK, Logout
<1>3. NoneRevived
  BY <1>2 DEF NoneRevived, Ended, Live, Logout
<1>4. QED
  BY <1>1, <1>3

LEMMA TickedSessions ==
    ASSUME SessionsOK, Tick
    PROVE  SessionsOK' /\ NoneRevived
<1>1. \A s \in SessionIDs : sessions'[s] = IF Live(s) THEN sessions[s] + 1 ELSE sessions[s]
  BY DEF Tick
<1>2. \A s \in SessionIDs : sessions'[s] \in Age \cup {NoSession}
  BY <1>1, SessionsAge DEF SessionsOK
<1>3. SessionsOK'
  BY <1>2 DEF SessionsOK, Tick
<1>4. NoneRevived
  BY <1>1 DEF NoneRevived, Ended, Live, Tick
<1>5. QED
  BY <1>3, <1>4

LEMMA LostSessions ==
    ASSUME SessionsOK, Restart
    PROVE  SessionsOK' /\ NoneRevived
<1>1. \A s \in SessionIDs : sessions'[s] = NoSession
  BY DEF Restart
<1>2. QED
  BY <1>1 DEF SessionsOK, NoneRevived, Ended, Live, Restart

ConsoleInv ==
    FilesInv /\ SessionsOK /\ ServedOK /\ held \in SUBSET Secrets /\ misread \in BOOLEAN

LEMMA ConsoleTyped == ConsoleInv => ConsoleTypeOK
  BY DEF ConsoleInv, FilesInv, SessionsOK, ServedOK, ConsoleTypeOK

LEMMA UntouchedFiles ==
    ASSUME FilesInv, UNCHANGED <<fileVars, misread>>
    PROVE  FilesInv' /\ CallsGoOn
  BY DEF FilesInv, FilesTypeOK, Orderly, NoNodeEnv, AloneAt, Saving, fileVars, CallsGoOn

(* A request goes over to a part of its work, in a call or at its end. *)
LEMMA ServedGoesOn ==
    ASSUME ServedOK, CallsGoOn, NEW w \in Requests,
           NEW part \in {"new", "alidns", "both", "agent", "confirm", "over"},
           request' = [request EXCEPT ![w] = part],
           part \in {"new", "over"} \/ save'[w] # NoSave
    PROVE  ServedOK'
  BY DEF ServedOK, CallsGoOn

LEMMA UntouchedServed == ASSUME ServedOK, CallsGoOn, request' = request PROVE ServedOK'
  BY DEF ServedOK, CallsGoOn

LEMMA AgentSaves ==
    ASSUME FilesInv, ServedOK, NEW w \in Requests, WriteAgentSettings(w), misread' = misread
    PROVE  FilesInv' /\ ServedOK'
<1>1. "node" \in Files /\ live["node"] \in Values /\ due["node"] \in Values
  BY FilesAssumption DEF WriteAgentSettings, FilesInv, NoNodeEnv
<1>2. FilesInv' /\ OthersGoOn(w)
  BY <1>1, BeginSaveKeeps DEF WriteAgentSettings
<1>3. QED
  BY <1>2, BeginCallsGoOn, ServedGoesOn DEF WriteAgentSettings

(* A field left empty is written as it was read: what its user expects,    *)
(* unless it was not read, or is not read back as it was written.          *)
LEMMA KeySaves ==
    ASSUME FilesInv, NEW w \in Requests, NEW entered \in Keys \cup {Blank},
           NEW read \in ReadBack(live["alidns"]) \cup {NoKey}, misread \in BOOLEAN,
           BeginSave(w, "alidns", KeyToWrite(entered, read), KeyExpected(entered)),
           misread' = (misread \/ (entered = Blank /\ read \notin ReadBack(live["alidns"])))
    PROVE  FilesInv' /\ OthersGoOn(w) /\ misread' \in BOOLEAN
<1> DEFINE content == live["alidns"]
           expected == due["alidns"]
<1>1. "alidns" \in Files
  BY FilesAssumption
<1>2. read \in Keys \cup {NoKey} \/ read = ValueOf(content, NoKey)
  BY DEF ReadBack
<1>3. KeyToWrite(entered, read) \in Values /\ KeyExpected(entered) \in Values
  BY <1>2, ValuesAssumption DEF KeyToWrite, KeyExpected, ValueOf
<1>4. misread => misread'
  OBVIOUS
<1>5. ASSUME Says("alidns", content, expected, misread)
      PROVE  Says("alidns", KeyToWrite(entered, read), KeyExpected(entered), misread')
  <2>1. CASE entered # Blank
    BY <2>1 DEF KeyToWrite, KeyExpected, Says
  <2>2. CASE entered = Blank /\ read \notin ReadBack(content)
    BY <2>2 DEF KeyToWrite, Says
  <2>3. CASE entered = Blank /\ read \in ReadBack(content)
    <3>1. KeyToWrite(entered, read) = read /\ KeyExpected(entered) = ValueOf(expected, NoKey)
      BY <2>3 DEF KeyToWrite, KeyExpected
    <3>2. CASE expected \in Altered
      BY <1>3, <3>1, <3>2, ValuesAssumption DEF Says, ValueOf
    <3>3. CASE expected \notin Altered /\ content = expected
      BY <2>3, <3>1, <3>3 DEF Says, ReadBack
    <3>4. CASE misread /\ content = NoKey
      BY <1>4, <2>3, <3>1, <3>4, ValuesAssumption DEF Says, ReadBack, ValueOf
    <3>5. QED
      BY <1>5, <3>2, <3>3, <3>4 DEF Says
  <2>4. QED
    BY <2>1, <2>2, <2>3
<1>6. QED
  BY <1>1, <1>3, <1>4, <1>5, BeginSaveKeeps

LEMMA SessionStepKeeps ==
    ASSUME ConsoleInv, SessionStep
    PROVE  ConsoleInv' /\ NoneRevived
<1>1. ASSUME NEW s \in SessionIDs, Visit(s) \/ Login(s) \/ Logout(s)
      PROVE  ConsoleInv' /\ NoneRevived
  BY <1>1, RenewedSession, CreatedSession, LoggedOutSession, UntouchedFiles, UntouchedServed
     DEF ConsoleInv, Visit, Login, Logout
<1>2. CASE Tick
  BY <1>2, TickedSessions, UntouchedFiles, UntouchedServed DEF ConsoleInv, Tick
<1>3. CASE Restart
  <2>1. \A w \in Requests : save'[w] = NoSave
    BY <1>3 DEF Restart, SavesLost
  <2>2. save' \in [Requests -> SaveRec \cup {NoSave}]
    BY <1>3 DEF Restart, SavesLost
  <2>3. FilesInv'
    BY <1>3, <2>1, <2>2
       DEF Restart, ConsoleInv, FilesInv, FilesTypeOK, Orderly, NoNodeEnv, Saving
  <2>4. ServedOK'
    BY <1>3 DEF Restart, ServedOK
  <2>5. QED
    BY <1>3, <2>3, <2>4, LostSessions DEF ConsoleInv, Restart
<1>4. QED
  BY <1>1, <1>2, <1>3 DEF SessionStep

LEMMA AuthenticatorStepKeeps ==
    ASSUME ConsoleInv, AuthenticatorStep
    PROVE  ConsoleInv' /\ NoneRevived
<1>1. PICK x \in Secrets : TOTPSetup(x) \/ \E w \in Requests : TOTPConfirm(w, x)
  BY DEF AuthenticatorStep
<1>2. CASE TOTPSetup(x)
  BY <1>2, CookieSession, UntouchedFiles, UntouchedServed DEF ConsoleInv, TOTPSetup
<1>3. ASSUME NEW w \in Requests, TOTPConfirm(w, x) PROVE ConsoleInv' /\ NoneRevived
  <2>1. "auth" \in Files /\ x \in Values
    BY FilesAssumption, ValuesAssumption
  <2>2. FilesInv' /\ OthersGoOn(w)
    BY <1>3, <2>1, BeginSaveKeeps, SaysItself DEF ConsoleInv, TOTPConfirm
  <2>3. ServedOK'
    BY <1>3, <2>2, BeginCallsGoOn, ServedGoesOn DEF ConsoleInv, TOTPConfirm
  <2>4. QED
    BY <1>3, <2>2, <2>3, CookieSession DEF ConsoleInv, TOTPConfirm
<1>4. QED
  BY <1>1, <1>2, <1>3

LEMMA PatchStepKeeps ==
    ASSUME ConsoleInv, PatchStep
    PROVE  ConsoleInv' /\ NoneRevived
<1>1. ASSUME NEW w \in Requests, NEW s \in SessionIDs, NEW entered \in Keys \cup {Blank},
             NEW parts \in {"alidns", "both"}, PatchAliDNS(w, s, entered, parts)
      PROVE  ConsoleInv' /\ NoneRevived
  <2>1. FilesInv' /\ OthersGoOn(w) /\ misread' \in BOOLEAN
    BY <1>1, KeySaves DEF ConsoleInv, PatchAliDNS
  <2>2. ServedOK'
    BY <1>1, <2>1, BeginCallsGoOn, ServedGoesOn DEF ConsoleInv, PatchAliDNS
  <2>3. QED
    BY <1>1, <2>1, <2>2, RenewedSession DEF ConsoleInv, PatchAliDNS
<1>2. ASSUME NEW w \in Requests, NEW s \in SessionIDs, PatchAgent(w, s)
      PROVE  ConsoleInv' /\ NoneRevived
  BY <1>2, AgentSaves, RenewedSession DEF ConsoleInv, PatchAgent
<1>3. ASSUME NEW w \in Requests, ThenAgent(w)
      PROVE  ConsoleInv' /\ NoneRevived
  BY <1>3, AgentSaves, UntouchedSessions DEF ConsoleInv, ThenAgent
<1>4. QED
  BY <1>1, <1>2, <1>3 DEF PatchStep

LEMMA ConsoleStepKeeps ==
    ASSUME ConsoleInv, ConsoleStep
    PROVE  ConsoleInv' /\ NoneRevived
<1>1. ASSUME NEW w \in Requests, SaveStep(w) /\ UNCHANGED consoleVars
      PROVE  ConsoleInv' /\ NoneRevived
  BY <1>1, SaveStepKeeps, UntouchedSessions, UntouchedServed DEF ConsoleInv, consoleVars
<1>2. ASSUME NEW w \in Requests, NEW s \in SessionIDs, TOTPConfirmed(w, s)
      PROVE  ConsoleInv' /\ NoneRevived
  BY <1>2, CreatedSession, UntouchedFiles, ServedGoesOn DEF ConsoleInv, TOTPConfirmed
<1>3. ASSUME NEW w \in Requests, Answered(w)
      PROVE  ConsoleInv' /\ NoneRevived
  BY <1>3, UntouchedSessions, UntouchedFiles, ServedGoesOn DEF ConsoleInv, Answered
<1>4. QED
  BY <1>1, <1>2, <1>3, SessionStepKeeps, AuthenticatorStepKeeps, PatchStepKeeps DEF ConsoleStep

LEMMA UntouchedConsole ==
    ASSUME ConsoleInv, UNCHANGED <<fileVars, consoleVars>>
    PROVE  ConsoleInv' /\ NoneRevived
  BY UntouchedSessions, UntouchedFiles, UntouchedServed DEF ConsoleInv, consoleVars

LEMMA ConsoleInitInv == ConsoleInit => ConsoleInv
<1>1. SUFFICES ASSUME ConsoleInit PROVE ConsoleInv
  OBVIOUS
<1>2. PICK token \in {NodeToken, Absent} :
         FilesInit([f \in Files |-> IF f = "node" THEN token ELSE Absent])
  BY <1>1 DEF ConsoleInit
<1>3. NodeToken \in Values
  BY ValuesAssumption
<1>4. FilesTypeOK
  BY <1>2, <1>3 DEF FilesInit, FilesTypeOK, Content
<1>5. live = due /\ \A w \in Requests : save[w] = NoSave
  BY <1>2 DEF FilesInit
<1>6. FilesInv
  BY <1>4, <1>5, SaysItself DEF FilesInv, Orderly, NoNodeEnv, Saving
<1>7. SessionsOK /\ ServedOK /\ held \in SUBSET Secrets /\ misread \in BOOLEAN
  BY <1>1 DEF ConsoleInit, SessionsOK, ServedOK
<1>8. QED
  BY <1>6, <1>7 DEF ConsoleInv

-----------------------------------------------------------------------------
(* AliDNS *)

DNSTypeOK ==
    /\ zone \in [Hooks -> Targets \cup {NoRecord}]
    /\ hook \in [Hooks -> HookRec]
    /\ sent \in SUBSET Hooks

DNSInv == DNSTypeOK /\ ZoneInv

(* Run h goes on, the records stay, and what it has begun with. *)
LEMMA HookGoesOn ==
    ASSUME DNSInv, NEW h \in Hooks, hook[h].phase # "new", hook' = [hook EXCEPT ![h] = hook'[h]],
           hook'[h] \in HookRec, hook'[h].phase \notin {"new", "running"},
           hook'[h].target = hook[h].target, hook'[h].first = hook[h].first,
           h \in Records => hook[h].first \/ hook'[h].hidden,
           zone' = zone, sent' \in SUBSET Hooks, \A g \in sent' : g = h \/ g \in sent,
           hook'[h].found # NoRecord => hook'[h].found \in Records,
           (hook'[h].phase \in {"found", "sent"} \/ h \in sent') /\ hook'[h].found = NoRecord
              => hook[h].first \/ hook'[h].hidden
    PROVE  DNSInv'
<1>1. DNSTypeOK'
  BY DEF DNSInv, DNSTypeOK
<1>2. Records' = Records
  BY DEF Records
<1>3. \A g \in Hooks : g # h => hook'[g] = hook[g]
  BY DEF DNSInv, DNSTypeOK
<1>4. FirstKnown' /\ RunsBegun' /\ OnlyUnseenIsAdded'
  BY <1>2, <1>3 DEF DNSInv, ZoneInv, FirstKnown, RunsBegun, OnlyUnseenIsAdded, Records
<1>5. FoundStays'
  BY <1>2, <1>3 DEF DNSInv, ZoneInv, FoundStays
<1>6. QED
  BY <1>1, <1>4, <1>5 DEF DNSInv, ZoneInv

(* A new run that starts when there is a record is no first one, and has   *)
(* added none.                                                             *)
LEMMA StartKeeps ==
    ASSUME DNSInv, NEW h \in Hooks, NEW target \in Targets, StartRun(h, target)
    PROVE  DNSInv'
<1> DEFINE run == [phase |-> IF live["alidns"] \in Keys THEN "running" ELSE "failed",
                   target |-> target, found |-> NoRecord, first |-> Records = {},
                   hidden |-> FALSE]
<1>1. /\ run \in HookRec /\ run.phase \in {"running", "failed"} /\ run.target \in Targets
      /\ run.found = NoRecord /\ run.first = (Records = {})
  BY DEF HookRec
<1>2. hook[h].phase = "new" /\ h \notin sent \cup Records
  BY DEF StartRun, NotRun, DNSInv, ZoneInv, RunsBegun
<1>3. hook' = [hook EXCEPT ![h] = run] /\ zone' = zone /\ sent' = sent
  BY DEF StartRun
<1> HIDE DEF run
<1>4. hook'[h] = run /\ \A g \in Hooks : g # h => hook'[g] = hook[g]
  BY <1>3 DEF DNSInv, DNSTypeOK
<1>5. DNSTypeOK' /\ Records' = Records
  BY <1>1, <1>3 DEF DNSInv, DNSTypeOK, Records
<1>6. FirstKnown'
  BY <1>1, <1>4, <1>5 DEF DNSInv, ZoneInv, FirstKnown
<1>7. FoundStays'
  BY <1>1, <1>2, <1>3, <1>4, <1>5 DEF DNSInv, ZoneInv, FoundStays
<1>8. RunsBegun' /\ OnlyUnseenIsAdded'
  BY <1>2, <1>3, <1>4, <1>5 DEF DNSInv, ZoneInv, RunsBegun, OnlyUnseenIsAdded
<1>9. QED
  BY <1>5, <1>6, <1>7, <1>8 DEF DNSInv, ZoneInv

LEMMA DescribeKeeps == ASSUME DNSInv, NEW h \in Hooks, Describe(h) PROVE DNSInv'
<1>1. PICK r \in Records \cup {NoRecord} :
         hook' = [hook EXCEPT ![h].phase = "found", ![h].found = r,
                              ![h].hidden = (r = NoRecord /\ Records # {})]
  BY DEF Describe
<1>2. r \in Hooks \cup {NoRecord}
  BY <1>1 DEF Records
<1>3. hook[h] \in HookRec /\ hook[h].phase = "running"
  BY DEF Describe, DNSInv, DNSTypeOK
<1>4. /\ hook'[h] = [hook[h] EXCEPT !.phase = "found", !.found = r,
                                     !.hidden = (r = NoRecord /\ Records # {})]
      /\ hook' = [hook EXCEPT ![h] = hook'[h]]
  BY <1>1 DEF DNSInv, DNSTypeOK
<1>5. /\ hook'[h] \in HookRec /\ hook'[h].phase = "found" /\ hook'[h].found = r
      /\ hook'[h].target = hook[h].target /\ hook'[h].first = hook[h].first
      /\ hook'[h].hidden = (r = NoRecord /\ Records # {})
  BY <1>2, <1>3, <1>4 DEF HookRec
<1>6. r # NoRecord => r \in Records
  BY <1>1
<1>7. /\ r = NoRecord => hook[h].first \/ hook'[h].hidden
      /\ h \notin Records
  BY <1>3, <1>5 DEF DNSInv, ZoneInv, FirstKnown, RunsBegun
<1>8. zone' = zone /\ sent' = sent
  BY DEF Describe
<1>9. QED
  BY <1>3, <1>4, <1>5, <1>6, <1>7, <1>8, HookGoesOn DEF DNSInv, DNSTypeOK

(* The phase of a run changes, and nothing else of it. *)
LEMMA PhaseKeeps ==
    ASSUME DNSInv, NEW h \in Hooks, hook[h].phase \in {"running", "found", "sent"},
           NEW phase \in {"sent", "failed"}, phase = "sent" => hook[h].phase = "found",
           hook' = [hook EXCEPT ![h].phase = phase], zone' = zone,
           sent' = IF phase = "sent" THEN sent \cup {h} ELSE sent
    PROVE  DNSInv'
<1>1. hook[h] \in HookRec
  BY DEF DNSInv, DNSTypeOK
<1>2. /\ hook'[h] = [hook[h] EXCEPT !.phase = phase]
      /\ hook' = [hook EXCEPT ![h] = hook'[h]]
  BY DEF DNSInv, DNSTypeOK
<1>3. /\ hook'[h] \in HookRec /\ hook'[h].phase = phase /\ hook'[h].found = hook[h].found
      /\ hook'[h].target = hook[h].target /\ hook'[h].first = hook[h].first
      /\ hook'[h].hidden = hook[h].hidden
  BY <1>1, <1>2 DEF HookRec
<1>4. /\ hook[h].found # NoRecord => hook[h].found \in Records
      /\ (hook[h].phase \in {"found", "sent"} \/ h \in sent) /\ hook[h].found = NoRecord
            => hook[h].first \/ hook[h].hidden
      /\ h \in Records => hook[h].first \/ hook[h].hidden
  BY DEF DNSInv, ZoneInv, FoundStays, OnlyUnseenIsAdded
<1>5. sent' \in SUBSET Hooks /\ \A g \in sent' : g = h \/ g \in sent
  BY DEF DNSInv, DNSTypeOK
<1>6. QED
  BY <1>2, <1>3, <1>4, <1>5, HookGoesOn

(* A record is added only for a run that found none; otherwise one that is *)
(* there is updated.                                                       *)
LEMMA ApplyKeeps == ASSUME DNSInv, NEW h \in Hooks, Apply(h) PROVE DNSInv'
<1> DEFINE r == IF hook[h].found = NoRecord THEN h ELSE hook[h].found
           run == [hook[h] EXCEPT !.phase = IF hook[h].phase = "sent" THEN "ok" ELSE hook[h].phase]
<1>1. /\ h \in sent /\ hook[h] \in HookRec /\ hook[h].phase \notin {"new", "running"}
      /\ hook[h].target \in Targets /\ hook[h].target # NoRecord
  BY NoRecordAssumption
     DEF Apply, DNSInv, DNSTypeOK, ZoneInv, RunsBegun, FirstKnown
<1>2. \/ r = h /\ (hook[h].first \/ hook[h].hidden) /\ hook[h].found = NoRecord
      \/ r \in Records
  BY <1>1 DEF DNSInv, ZoneInv, FoundStays
<1>3. r \in Hooks
  BY <1>2 DEF Records
<1>4. /\ run \in HookRec /\ run.phase \notin {"new", "running"}
      /\ run.phase \in {"found", "sent"} => hook[h].phase \in {"found", "sent"}
      /\ run.target = hook[h].target /\ run.first = hook[h].first /\ run.found = hook[h].found
      /\ run.hidden = hook[h].hidden
  BY <1>1 DEF HookRec
<1>5. zone' = [zone EXCEPT ![r] = hook[h].target] /\ sent' = sent \ {h}
      /\ hook' = [hook EXCEPT ![h] = run]
  BY DEF Apply
<1> HIDE DEF run, r
<1>6. hook'[h] = run /\ \A g \in Hooks : g # h => hook'[g] = hook[g]
  BY <1>5 DEF DNSInv, DNSTypeOK
<1>7. Records' = Records \cup {r}
  BY <1>1, <1>3, <1>5 DEF DNSInv, DNSTypeOK, Records
<1>8. DNSTypeOK'
  BY <1>1, <1>3, <1>4, <1>5 DEF DNSInv, DNSTypeOK
<1>9. FirstKnown'
  BY <1>1, <1>4, <1>6, <1>7 DEF DNSInv, ZoneInv, FirstKnown
<1>10. FoundStays'
  BY <1>1, <1>4, <1>5, <1>6, <1>7 DEF DNSInv, ZoneInv, FoundStays
<1>11. RunsBegun' /\ OnlyUnseenIsAdded'
  BY <1>1, <1>2, <1>4, <1>5, <1>6, <1>7 DEF DNSInv, ZoneInv, RunsBegun, OnlyUnseenIsAdded
<1>12. QED
  BY <1>8, <1>9, <1>10, <1>11 DEF DNSInv, ZoneInv

LEMMA LoseKeeps == ASSUME DNSInv, NEW h \in Hooks, LoseRequest(h) PROVE DNSInv'
<1>1. zone' = zone /\ hook' = hook /\ sent' \in SUBSET sent
  BY DEF LoseRequest
<1>2. Records' = Records
  BY <1>1 DEF Records
<1>3. QED
  BY <1>1, <1>2
     DEF DNSInv, DNSTypeOK, ZoneInv, FirstKnown, FoundStays, RunsBegun, OnlyUnseenIsAdded

LEMMA HookStepKeeps == ASSUME DNSInv, HookStep PROVE DNSInv'
<1>1. PICK h \in Hooks : \/ \E target \in Targets : StartRun(h, target)
                         \/ Describe(h) \/ Send(h) \/ Apply(h) \/ LoseRequest(h) \/ RunFails(h)
  BY DEF HookStep
<1>2. CASE Send(h)
  BY <1>2, PhaseKeeps DEF Send
<1>3. CASE RunFails(h)
  BY <1>3, PhaseKeeps DEF RunFails
<1>4. QED
  BY <1>1, <1>2, <1>3, StartKeeps, DescribeKeeps, ApplyKeeps, LoseKeeps

LEMMA UntouchedDNS == ASSUME DNSInv, UNCHANGED dnsVars PROVE DNSInv'
  BY DEF DNSInv, DNSTypeOK, ZoneInv, FirstKnown, FoundStays, RunsBegun, OnlyUnseenIsAdded,
         Records, dnsVars

Inv == ConsoleInv /\ DNSInv

LEMMA InitInv == Init => Inv
<1>1. SUFFICES ASSUME Init PROVE Inv
  OBVIOUS
<1>2. Records = {}
  BY <1>1 DEF Init, Records
<1>3. DNSTypeOK
  BY <1>1 DEF Init, DNSTypeOK, NotRun, HookRec
<1>4. ZoneInv
  BY <1>1, <1>2
     DEF Init, ZoneInv, FirstKnown, FoundStays, RunsBegun, OnlyUnseenIsAdded, NotRun
<1>5. QED
  BY <1>1, <1>3, <1>4, ConsoleInitInv DEF Init, Inv, DNSInv

LEMMA StepKeepsInv == Inv /\ [Next]_allVars => Inv' /\ NoneRevived
<1>1. SUFFICES ASSUME Inv, [Next]_allVars PROVE Inv' /\ NoneRevived
  OBVIOUS
<1>2. CASE ConsoleStep /\ UNCHANGED dnsVars
  BY <1>1, <1>2, ConsoleStepKeeps, UntouchedDNS DEF Inv
<1>3. CASE HookStep /\ UNCHANGED <<fileVars, consoleVars>>
  BY <1>1, <1>3, HookStepKeeps, UntouchedConsole DEF Inv
<1>4. CASE UNCHANGED allVars
  BY <1>1, <1>4, UntouchedDNS, UntouchedConsole DEF Inv, allVars
<1>5. QED
  BY <1>1, <1>2, <1>3, <1>4 DEF Next

LEMMA AlwaysInv == Spec => []Inv
  BY InitInv, StepKeepsInv, PTL DEF Spec

-----------------------------------------------------------------------------
(* The theorems *)

(* Types of the files, the sessions, the requests and the runs of the hook.*)
THEOREM TypeCorrect == Spec => []TypeOK
<1>1. Inv => TypeOK
  BY ConsoleTyped DEF Inv, DNSInv, DNSTypeOK, TypeOK
<1>2. QED
  BY <1>1, AlwaysInv, PTL

(* Unless two requests have saved a settings file at once, it says what    *)
(* the last save that reached it was to make it say, but for a secret that *)
(* could not be read or is not read back as written: for every order of    *)
(* logins, confirmations, patches, failed calls and restarts               *)
(* (WriteEnvFile of envfile.go under the handlers of api.go).              *)
THEOREM FilesSayTheirDue == Spec => []FilesSayWhatIsDue
<1>1. Inv => FilesSayWhatIsDue
  BY DEF Inv, ConsoleInv, FilesInv, Orderly, FilesSayWhatIsDue
<1>2. QED
  BY <1>1, AlwaysInv, PTL

(* Only runs of the hook that began before there was a record, or whose    *)
(* page of records did not show it, add one, however many run at once, are *)
(* killed, or have their requests carried out late (runAliDNSUpdate of     *)
(* dns_alidns.go).                                                         *)
THEOREM OnlyUnseenAdded == Spec => []OnlyUnseenIsAdded
<1>1. Inv => OnlyUnseenIsAdded
  BY DEF Inv, DNSInv, ZoneInv
<1>2. QED
  BY <1>1, AlwaysInv, PTL

(* A session that is over is over for good (validSession and handleLogout).*)
THEOREM EndedSessionsStayEnded == Spec => EndedStaysEnded
<1>1. Inv /\ [Next]_allVars => [\A s \in SessionIDs : Ended(s) => Ended(s)']_consoleVars
  BY StepKeepsInv DEF NoneRevived
<1>2. QED
  BY <1>1, AlwaysInv, PTL DEF Spec, EndedStaysEnded
===============================================================================
