------------------------------- MODULE EnvFiles -------------------------------
(***************************************************************************)
(* WriteEnvFile of envfile.go: a KEY=VALUE file is written under a         *)
(* temporary name, the same for every writer, and then renamed.            *)
(*                                                                         *)
(* Requests that save run beside one another, on file descriptors: what is *)
(* renamed is the name, so a writer that still has the temporary file open *)
(* goes on writing into the file that by then is the live one.             *)
(*                                                                         *)
(* Of a file's content only the one value is kept that the properties ask  *)
(* for.  Machines do not lose power: what was written is there.            *)
(***************************************************************************)
EXTENDS FiniteSets

CONSTANTS
    Files,     \* paths
    Requests,  \* HTTP requests that save, each served once
    Values,    \* what a complete file says
    Absent,    \* no file of that name
    Empty,     \* a file of length 0
    Torn,      \* a file that ReadEnvFile refuses
    NoSave     \* a request that saves nothing at the moment

VARIABLES
    live,       \* live[f]: the file itself
    tmp,        \* tmp[f]: the file f.tmp
    save,       \* save[w]: the call of WriteEnvFile that w is in
    due,        \* history: due[f] is what the file has to say
    overlapped  \* history: the files two requests have saved at the same time

fileVars == <<live, tmp, save, due, overlapped>>

Content == Values \cup {Absent, Empty, Torn}

(* fd: where the open file is now.  at: the system call that comes next.   *)
SaveRec ==
    [file : Files, value : Values, due : Values, fd : {"none", "tmp", "live", "gone"},
     at : {"open", "write", "rename", "done", "failed"}]

ASSUME ContentAssumption ==
    /\ {Absent, Empty, Torn} \cap Values = {}
    /\ Absent # Empty /\ Absent # Torn /\ Empty # Torn
    /\ NoSave \notin SaveRec

Saving(w, f) ==
    save[w] # NoSave /\ save[w].file = f /\ save[w].at \notin {"done", "failed"}

(* What a file that cannot be read, or says nothing, says. *)
ValueOf(content, otherwise) == IF content \in Values THEN content ELSE otherwise

(* The request calls WriteEnvFile with a value; expected is what its user  *)
(* expects to be in the file then.                                         *)
BeginSave(w, f, value, expected) ==
    /\ save' = [save EXCEPT ![w] =
                  [file |-> f, value |-> value, due |-> expected, fd |-> "none", at |-> "open"]]
    /\ overlapped' = IF \E v \in Requests \ {w} : Saving(v, f)
                     THEN overlapped \cup {f} ELSE overlapped
    /\ UNCHANGED <<live, tmp, due>>

(* Mutant of OpenTmp: what a crash left in the temporary file stays. *)
OpenTmpKeeping(w) ==
    /\ save[w] # NoSave /\ save[w].at = "open"
    /\ tmp' = [tmp EXCEPT ![save[w].file] = IF @ = Absent THEN Empty ELSE @]
    /\ save' = [save EXCEPT ![w].at = "write", ![w].fd = "tmp"]
    /\ UNCHANGED <<live, due, overlapped>>

(* os.WriteFile opens and truncates, *)
OpenTmp(w) ==
    /\ save[w] # NoSave /\ save[w].at = "open"
    /\ tmp' = [tmp EXCEPT ![save[w].file] = Empty]
    /\ save' = [save EXCEPT ![w].at = "write", ![w].fd = "tmp"]
    /\ UNCHANGED <<live, due, overlapped>>

(* and writes from the start: over a longer text its end stays. *)
Writes(old, value) == IF old = Empty THEN {value} ELSE {value, Torn}

WriteTmp(w) ==
    /\ save[w] # NoSave /\ save[w].at = "write"
    /\ LET f == save[w].file IN
         CASE save[w].fd = "tmp" ->
                /\ \E c \in Writes(tmp[f], save[w].value) : tmp' = [tmp EXCEPT ![f] = c]
                /\ UNCHANGED live
           [] save[w].fd = "live" ->
                /\ \E c \in Writes(live[f], save[w].value) : live' = [live EXCEPT ![f] = c]
                /\ UNCHANGED tmp
           [] OTHER -> UNCHANGED <<live, tmp>>
    /\ save' = [save EXCEPT ![w].at = "rename"]
    /\ UNCHANGED <<due, overlapped>>

(* Where the open files of the other writers of f are after a rename. *)
Moved(fd) == CASE fd = "tmp" -> "live" [] fd = "live" -> "gone" [] OTHER -> fd

(* os.Chmod and os.Rename: both fail if another writer has renamed the     *)
(* file in the meantime.                                                   *)
Rename(w) ==
    /\ save[w] # NoSave /\ save[w].at = "rename"
    /\ LET f == save[w].file IN
       IF tmp[f] = Absent
       THEN /\ save' = [save EXCEPT ![w].at = "failed"]
            /\ UNCHANGED <<live, tmp, due>>
       ELSE /\ live' = [live EXCEPT ![f] = tmp[f]]
            /\ tmp' = [tmp EXCEPT ![f] = Absent]
            /\ save' = [v \in Requests |->
                          IF v = w THEN [save[w] EXCEPT !.at = "done"]
                          ELSE IF Saving(v, f) THEN [save[v] EXCEPT !.fd = Moved(@)]
                          ELSE save[v]]
            /\ due' = [due EXCEPT ![f] = save[w].due]
    /\ UNCHANGED overlapped

(* A system call fails: the disk is full, say.  A file of a few lines is   *)
(* written as a whole or not at all.                                       *)
SaveFails(w) ==
    /\ save[w] # NoSave /\ save[w].at \in {"open", "write", "rename"}
    /\ save' = [save EXCEPT ![w].at = "failed"]
    /\ UNCHANGED <<live, tmp, due, overlapped>>

SaveStep(w) == OpenTmp(w) \/ WriteTmp(w) \/ Rename(w) \/ SaveFails(w)

(* The process is gone in the middle of whatever it saved. *)
SavesLost == save' = [w \in Requests |-> NoSave]

FilesInit(first) ==
    /\ live = first
    /\ tmp = [f \in Files |-> Absent]
    /\ save = [w \in Requests |-> NoSave]
    /\ due = first
    /\ overlapped = {}

FilesTypeOK ==
    /\ live \in [Files -> Content]
    /\ tmp \in [Files -> Content]
    /\ save \in [Requests -> SaveRec \cup {NoSave}]
    /\ due \in [Files -> Content]
    /\ overlapped \in SUBSET Files
===============================================================================
