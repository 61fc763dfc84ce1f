------------------------------- MODULE EnvValues -------------------------------
(***************************************************************************)
(* How WriteEnvFile writes a value and ReadEnvFile reads it (envfile.go),  *)
(* which is what keeps the AccessKey secret: every PATCH that leaves the   *)
(* field empty reads the secret and writes it back (WriteAliDNSSettings).  *)
(*                                                                         *)
(* Values are sequences of characters, of which those matter that either   *)
(* function looks at.  "a" stands for any other one, "space" for one that  *)
(* only asks for quotes.                                                   *)
(***************************************************************************)
EXTENDS Naturals, SequencesExt

CONSTANT MaxLength  \* bound on the length of a secret

Character == {"a", "n", "space", "\"", "'", "\\", "break"}

(* ContainsAny(value, " \t\n'\"$`\\#") *)
Special == Character \ {"a", "n"}

-----------------------------------------------------------------------------
(* A quote inside ends the quoted part, is escaped, and begins a new one. *)
EscapedQuote(c) == IF c = "'" THEN <<"'", "\\", "'", "'">> ELSE <<c>>

(* Mutant of ShellEnvValue: a value without special characters is written  *)
(* as it is, even if there is nothing to it or a double quote around it.   *)
ShellEnvValueBare(value) ==
    IF Range(value) \cap (Special \ {"\""}) = {} THEN value
    ELSE <<"'">> \o FlattenSeq([i \in DOMAIN value |-> EscapedQuote(value[i])]) \o <<"'">>

(* shellEnvValue *)
ShellEnvValue(value) ==
    IF value # <<>> /\ Range(value) \cap Special = {} THEN value
    ELSE <<"'">> \o FlattenSeq([i \in DOMAIN value |-> EscapedQuote(value[i])]) \o <<"'">>

(* ReplaceAll of a backslash and c by one character. *)
Unescaped(value, c, by) ==
    FoldLeft(LAMBDA done, x :
                IF x = c /\ done # <<>> /\ Last(done) = "\\"
                THEN Append(Front(done), by) ELSE Append(done, x),
             <<>>, value)

Quoted(value) == Len(value) >= 2 /\ Head(value) = Last(value) /\ Head(value) \in {"'", "\""}

(* unquoteEnvValue *)
UnquoteEnvValue(value) ==
    LET inner == IF Quoted(value) THEN SubSeq(value, 2, Len(value) - 1) ELSE value
    IN  Unescaped(Unescaped(Unescaped(inner, "n", "break"), "\"", "\""), "'", "'")

(* ReadEnvFile goes by lines: the rest of a value with a break in it is    *)
(* not KEY=VALUE, and the whole file is refused.                           *)
Refused(written) == "break" \in Range(written)

(* WriteAliDNSSettings ignores that. *)
Existing(written) == IF Refused(written) THEN <<>> ELSE UnquoteEnvValue(written)

-----------------------------------------------------------------------------
(* What is entered is trimmed. *)
Trimmed(value) ==
    value # <<>> => {Head(value), Last(value)} \cap {"space", "break"} = {}

Plain(value) == Trimmed(value) /\ Range(value) \cap {"'", "\\", "break"} = {}

(* Spaces, double quotes and whatever else a shell would read are read as  *)
(* they were written.                                                      *)
PlainReadBack ==
    \A value \in BoundedSeq(Character, MaxLength) :
        Plain(value) => Existing(ShellEnvValue(value)) = value
================================================================================
