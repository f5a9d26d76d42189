------------------------------ MODULE ConfigStore ------------------------------
(***************************************************************************)
(* What the configuration promises the operator: each command changes      *)
(* the part it is about, at one moment, or nothing; authentication without *)
(* TLS is switched on by the one command that asks for it, and off when it *)
(* has no use any more.  Only the crash of a command that has taken effect *)
(* may lose the configuration, or cut its last value short.                *)
(***************************************************************************)
CONSTANTS
  Procs,
  Configs,    \* every configuration: a record, as in ConfigFile
  PartOf,     \* the fields that each command may change
  Default,    \* what a reset leaves
  CutGraphs,  \* what a cut may leave of the last value
  None,       \* the value of tls without TLS, and the command of an idle process
  Lost        \* no configuration

VARIABLES
  content,
  stage, command  \* of each process: how far it is, with which command

Init ==
  /\ content \in Configs \cup {Lost}
  /\ stage = [p \in Procs |-> "idle"]
  /\ command = [p \in Procs |-> None]

Begin(p, cmd) ==
  /\ stage[p] = "idle"
  /\ stage' = [stage EXCEPT ![p] = "begun"]
  /\ command' = [command EXCEPT ![p] = cmd]
  /\ UNCHANGED content

InUse(c) == c.tls = None /\ DOMAIN c.users # {}

\* Insecure authentication is set by one command alone; any other keeps it, unless
\* it has no use any more.
Flag(cmd, old, new) ==
  /\ new.allow_insecure_auth => InUse(new)
  /\ cmd # "AllowInsecureAuth" => (new.allow_insecure_auth <=> old.allow_insecure_auth /\ InUse(new))

Edits(cmd, old, new) ==
  /\ \A field \in DOMAIN old \ (PartOf[cmd] \cup {"allow_insecure_auth"}) : new[field] = old[field]
  /\ Flag(cmd, old, new)

\* A reset needs no configuration to start from.
TakeEffect(p) ==
  /\ stage[p] = "begun"
  /\ \/ command[p] = "Reset" /\ content' = Default
     \/ /\ command[p] # "Reset" /\ content # Lost
        /\ content' \in Configs /\ Edits(command[p], content, content')
  /\ stage' = [stage EXCEPT ![p] = "done"]
  /\ UNCHANGED command

Ends(p) ==
  /\ stage' = [stage EXCEPT ![p] = "idle"]
  /\ command' = [command EXCEPT ![p] = None]

\* The command is done, or has given up before it took effect.
End(p) == stage[p] # "idle" /\ Ends(p) /\ UNCHANGED content

Crash(p) ==
  /\ stage[p] = "done"
  /\ \/ content' = Lost
     \/ \E graph \in CutGraphs[content.graph] : content' = [content EXCEPT !.graph = graph]
  /\ Ends(p)

Next ==
  \E p \in Procs :
    \/ \E cmd \in DOMAIN PartOf : Begin(p, cmd)
    \/ TakeEffect(p) \/ End(p) \/ Crash(p)
================================================================================
