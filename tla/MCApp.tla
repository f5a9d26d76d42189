--------------------------------- MODULE MCApp ---------------------------------
(* Values for TLC, and the program's two ways to run side by side: as a       *)
(* 'config' command, one at a time with every option or two at once with      *)
(* those of few values, and as a Windows service.                             *)
EXTENDS ConfigFile, WindowsService

CONSTANTS u1, e1, t1, p1

VARIABLE scene

appVars == <<scene, vars, serviceVars>>

\* A file as new, one with a user and insecure authentication, and one with TLS
\* as well, as only a hand can write it.
OneUser == [EmptyConfig EXCEPT !.users = [u \in {u1} |-> e1], !.allow_insecure_auth = TRUE]
MCHandWritten == {EmptyConfig, OneUser, [OneUser EXCEPT !.tls = t1]}

\* g1 has a secret alone, and may be read without it.
MCCutGraphs == [g \in Graphs |-> {g, NoGraph}]

PairCommands == {"Show", "Tls", "Graph", "User", "AllowInsecureAuth", "Reset"}

MCInit == Init /\ ServiceInit /\ scene \in {"one command", "two commands", "service"}

MCNext ==
  /\ UNCHANGED scene
  /\ \/ scene = "one command" /\ Step(p1) /\ UNCHANGED serviceVars
     \/ /\ scene = "two commands" /\ Next /\ UNCHANGED serviceVars
        /\ \A p \in Procs : command'[p] \in PairCommands \cup {None}
     \/ scene = "service" /\ ServiceNext /\ UNCHANGED vars

MCSpec == MCInit /\ [][MCNext]_appVars /\ WF_serviceVars(scene = "service" /\ Service)
================================================================================
