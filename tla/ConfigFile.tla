------------------------------- MODULE ConfigFile ------------------------------
(***************************************************************************)
(* The configuration file and the 'config' commands that edit it           *)
(* (app/postgraph/src/app.rs and cli.rs, lib/mail_proxy/src/config_file.rs).*)
(*                                                                         *)
(* Every command is a process of its own: it reads the whole file, changes *)
(* its copy (maybe waiting for a prompt or for a test of the connection in *)
(* between) and writes the copy back, also if it only had something to     *)
(* show.  Nothing locks the file.  The content is a record with the fields *)
(* of smtp and of graph, the latter as one value; what a user's entry or a *)
(* peer rule is to the server is told in UserList and PeerFilter.          *)
(***************************************************************************)
EXTENDS Naturals, Sequences

CONSTANTS
  Procs,         \* the processes, as many commands at once
  Addresses, DefaultAddress, DefaultName, \* listen addresses, names
  ServerNames,
  Sizes, RecommendedSize,   \* message sizes, in bytes
  TlsConfigs,    \* certificate chain and key, by their paths
  Limits,        \* numbers of connections and of failures
  Durations,     \* ban durations, in milliseconds
  Users, Entries,           \* user names, and what is stored of a user
  Rules, AllowAny,          \* peer rules, those of a new file among them
  Graphs, NoGraph,          \* tenant, client and secret; all of them empty
  CutGraphs,     \* of each, what is read when the end of its secret is missing
  HandWritten,   \* the files an operator may have written
  None,          \* Option::None, or an option not given
  Absent, Blank, Torn   \* no file, an empty one, any other that does not parse

UserLists == UNION {[names -> Entries] : names \in SUBSET Users}

\* Fail2BanConfig
Fail2Bans == [max_connections : Limits \cup {None}, max_failures : Limits \cup {None},
              ban_duration : Durations \cup {None}]

Configs == [address : Addresses, name : ServerNames \cup {None},
            max_message_size : Sizes \cup {None}, allow_insecure_auth : BOOLEAN,
            tls : TlsConfigs \cup {None}, fail2ban : Fail2Bans \cup {None},
            users : UserLists, peer_filter : SUBSET Rules, graph : Graphs]

ASSUME ValuesAssumption ==
  /\ DefaultAddress \in Addresses
  /\ Sizes \subseteq Nat /\ RecommendedSize \in Nat
  /\ Limits \subseteq Nat
  /\ Durations \subseteq Nat
  /\ AllowAny \subseteq Rules
  /\ NoGraph \in Graphs
  /\ CutGraphs \in [Graphs -> SUBSET Graphs]
  /\ \A d \in Durations : (d \div 1000) * 1000 \in Durations
ASSUME NoneAssumption ==
  /\ None \notin Addresses /\ None \notin ServerNames /\ None \notin Sizes
  /\ None \notin TlsConfigs /\ None \notin Fail2Bans
  /\ None \notin Limits /\ None \notin Durations

\* ConfigFile::empty, and what 'config reset' restores.
EmptyConfig ==
  [address |-> DefaultAddress, name |-> None, max_message_size |-> None,
   allow_insecure_auth |-> FALSE, tls |-> None, fail2ban |-> None,
   users |-> [u \in {} |-> None], peer_filter |-> AllowAny, graph |-> NoGraph]

HasUsers(c) == DOMAIN c.users # {}

--------------------------------------------------------------------------------
(* What the server makes of it *)

ValueOr(option, default) == IF option = None THEN default ELSE option

AuthModeOf(c) ==
  CASE ~HasUsers(c) -> "None"
    [] HasUsers(c) /\ c.tls # None -> "RequireTls"
    [] HasUsers(c) /\ c.tls = None /\ c.allow_insecure_auth -> "Always"
    [] OTHER -> "None"

\* apply_to_server_config
ServerConfig(c) ==
  [address |-> c.address, server_name |-> ValueOr(c.name, DefaultName), tls |-> c.tls,
   auth_mode |-> AuthModeOf(c),
   max_message_size |-> ValueOr(c.max_message_size, RecommendedSize)]

--------------------------------------------------------------------------------
(* What the commands do to their copy *)

Given(option, old) == IF option = None THEN old ELSE option

\* A size of 0 restores the automatic one.
SmtpSetup(c, address, name, size) ==
  [c EXCEPT !.address = Given(address, @), !.name = Given(name, @),
            !.max_message_size = IF size = 0 THEN None ELSE Given(size, @)]

Fail2BanSetup(c, connections, failures, duration) ==
  LET old == ValueOr(c.fail2ban, [max_connections |-> None, max_failures |-> None,
                                  ban_duration |-> None]) IN
  [c EXCEPT !.fail2ban = [max_connections |-> Given(connections, old.max_connections),
                          max_failures |-> Given(failures, old.max_failures),
                          ban_duration |-> Given(duration, old.ban_duration)]]

WithUser(c, u, entry) ==
  [c EXCEPT !.users = [v \in DOMAIN @ \cup {u} |-> IF v = u THEN entry ELSE @[v]]]

WithoutUser(c, u) == [c EXCEPT !.users = [v \in DOMAIN @ \ {u} |-> @[v]]]

\* The parts of the configuration that each command is about.
PartOf ==
  [Show |-> {}, SmtpSetup |-> {"address", "name", "max_message_size"}, Fail2Ban |-> {"fail2ban"},
   Peers |-> {"peer_filter"}, Tls |-> {"tls"}, Graph |-> {"graph"}, User |-> {"users"},
   AllowInsecureAuth |-> {"allow_insecure_auth"}, Reset |-> DOMAIN EmptyConfig]
Commands == DOMAIN PartOf

\* Fault, for a mutant of Normalised: the clean-up is left out.
NotNormalised(c) == c

\* The end of ConfigCommand::execute: insecure auth is off when not needed.
Normalised(c) == [c EXCEPT !.allow_insecure_auth = @ /\ c.tls = None /\ HasUsers(c)]

\* As written by serde: durations in whole seconds.
WholeSeconds(duration) == IF duration = None THEN None ELSE (duration \div 1000) * 1000
Serialized(c) ==
  IF c.fail2ban = None THEN c ELSE [c EXCEPT !.fail2ban.ban_duration = WholeSeconds(@)]

\* The keys in the order in which they are written.
KeyOrder == <<"address", "name", "max_message_size", "allow_insecure_auth", "tls", "fail2ban",
              "users", "peer_filter", "graph">>

\* What loads of a text that ends early: graph comes last, and none of its keys
\* may be missing, so that all that can be cut is the end of client_secret.
CutShort(c) == {[c EXCEPT !.graph = graph] : graph \in CutGraphs[c.graph]}

\* The beginning of c and then the rest of another text.  Each key counts as
\* written or not, and the three of graph as one.
Mixtures(c, rest) ==
  {[field \in DOMAIN c |-> IF \E i \in 1 .. n : KeyOrder[i] = field THEN c[field] ELSE rest[field]] :
     n \in 1 .. Len(KeyOrder) - 1}

\* A file, by hand or not, has durations in whole seconds.
ASSUME FileAssumption ==
  /\ HandWritten \subseteq Configs /\ \A c \in HandWritten : Serialized(c) = c
  /\ {Absent, Blank, Torn, None} \cap Configs = {}

--------------------------------------------------------------------------------
VARIABLES
  file,        \* the content of the configuration file
  pc, command, config,  \* of each process: where it is, what it runs, its copy
  consent,     \* history: insecure authentication was confirmed and not dropped since
  last,        \* history: the last content that was complete
  overlapped,  \* history: the processes that another one wrote under
  raced        \* history: has one of these gone on to write itself?

vars == <<file, pc, command, config, consent, last, overlapped, raced>>
history == <<consent, last, overlapped, raced>>

Loads == file \in Configs

Init ==
  /\ file \in HandWritten \cup {Absent}
  /\ pc = [p \in Procs |-> "idle"]
  /\ command = [p \in Procs |-> None]
  /\ config = [p \in Procs |-> None]
  /\ consent = (Loads /\ file.allow_insecure_auth)
  /\ last = file
  /\ overlapped = {} /\ raced = FALSE

Start(p, cmd) ==
  /\ pc[p] = "idle"
  /\ pc' = [pc EXCEPT ![p] = "started"]
  /\ command' = [command EXCEPT ![p] = cmd]
  /\ UNCHANGED <<file, config, history>>

\* The process ends, and its copy with it.
Exits(p) ==
  /\ pc' = [pc EXCEPT ![p] = "idle"]
  /\ command' = [command EXCEPT ![p] = None]
  /\ config' = [config EXCEPT ![p] = None]

\* Fault, for a mutant of Load: a file that does not load counts as an empty one.
LoadOrEmpty(p) ==
  /\ pc[p] = "started"
  /\ pc' = [pc EXCEPT ![p] = "loaded"]
  /\ config' = [config EXCEPT ![p] = IF Loads THEN file ELSE EmptyConfig]
  /\ overlapped' = overlapped \ {p}
  /\ UNCHANGED <<file, command, consent, last, raced>>

\* Fault, for a mutant of Load: the error is not looked at.
LoadUnchecked(p) ==
  /\ pc[p] = "started"
  /\ pc' = [pc EXCEPT ![p] = "loaded"]
  /\ config' = [config EXCEPT ![p] = file]
  /\ overlapped' = overlapped \ {p}
  /\ UNCHANGED <<file, command, consent, last, raced>>

Load(p) ==
  /\ pc[p] = "started" /\ Loads
  /\ pc' = [pc EXCEPT ![p] = "loaded"]
  /\ config' = [config EXCEPT ![p] = file]
  /\ overlapped' = overlapped \ {p}
  /\ UNCHANGED <<file, command, consent, last, raced>>

LoadFails(p) ==
  /\ pc[p] = "started" /\ ~Loads
  /\ Exits(p)
  /\ UNCHANGED <<file, history>>

Running(p, cmd) == pc[p] = "loaded" /\ command[p] = cmd

\* The end of execute, with c as the command has left its copy.
Executed(p, c) ==
  /\ pc' = [pc EXCEPT ![p] = "executed"]
  /\ config' = [config EXCEPT ![p] = Normalised(c)]
  /\ UNCHANGED <<file, command, last, overlapped, raced>>

Show(p) ==
  /\ Running(p, "Show")
  /\ Executed(p, config[p]) /\ UNCHANGED consent

SetupSmtp(p) ==
  /\ Running(p, "SmtpSetup")
  /\ \E address \in Addresses \cup {None}, name \in ServerNames \cup {None},
        size \in Sizes \cup {0, None} :
       /\ ~(address = None /\ name = None /\ size = None)
       /\ Executed(p, SmtpSetup(config[p], address, name, size))
  /\ UNCHANGED consent

SetupFail2Ban(p) ==
  /\ Running(p, "Fail2Ban")
  /\ \/ \E connections, failures \in Limits \cup {None}, duration \in Durations \cup {None} :
          /\ ~(connections = None /\ failures = None /\ duration = None)
          /\ Executed(p, Fail2BanSetup(config[p], connections, failures, duration))
     \/ Executed(p, [config[p] EXCEPT !.fail2ban = None])
  /\ UNCHANGED consent

EditPeers(p) ==
  /\ Running(p, "Peers")
  /\ \E rule \in Rules :
       \/ Executed(p, [config[p] EXCEPT !.peer_filter = @ \cup {rule}])
       \/ Executed(p, [config[p] EXCEPT !.peer_filter = @ \ {rule}])
  /\ UNCHANGED consent

SetupTls(p) ==
  /\ Running(p, "Tls")
  /\ \E tls \in TlsConfigs \cup {None} : Executed(p, [config[p] EXCEPT !.tls = tls])
  /\ UNCHANGED consent

\* A test of the new values follows; the copy is saved whatever it yields.
SetupGraph(p) ==
  /\ Running(p, "Graph")
  /\ \E graph \in Graphs : Executed(p, [config[p] EXCEPT !.graph = graph])
  /\ UNCHANGED consent

\* A user is added or changed, or removed; or nothing is done but to print why.
EditUser(p) ==
  /\ Running(p, "User")
  /\ \/ \E u \in Users, entry \in Entries : Executed(p, WithUser(config[p], u, entry))
     \/ \E u \in Users : Executed(p, WithoutUser(config[p], u))
     \/ Executed(p, config[p])
  /\ UNCHANGED consent

\* Refused when TLS is configured; 'yes' counts once it is typed in again.
AllowInsecureAuth(p) ==
  /\ Running(p, "AllowInsecureAuth")
  /\ \/ /\ config[p].tls = None
        /\ Executed(p, [config[p] EXCEPT !.allow_insecure_auth = TRUE])
        /\ consent' = TRUE
     \/ /\ config[p].tls = None
        /\ Executed(p, [config[p] EXCEPT !.allow_insecure_auth = FALSE])
        /\ UNCHANGED consent
     \/ Executed(p, config[p]) /\ UNCHANGED consent

Reset(p) ==
  /\ Running(p, "Reset")
  /\ Executed(p, EmptyConfig) /\ UNCHANGED consent

\* The processes that hold a copy of the file.
Holding == {p \in Procs : pc[p] \in {"loaded", "executed", "truncated"}}

\* fs::write opens the file, which empties it, ...
Truncate(p) ==
  /\ pc[p] = "executed"
  /\ pc' = [pc EXCEPT ![p] = "truncated"]
  /\ file' = Blank
  /\ overlapped' = overlapped \cup (Holding \ {p})
  /\ raced' = (raced \/ p \in overlapped)
  /\ UNCHANGED <<command, config, consent, last>>

\* ... and writes from its start.  Over what another process wrote since, the
\* end of a longer text may stay behind and spoil the file.
Write(p) ==
  /\ pc[p] = "truncated"
  /\ file' \in {Serialized(config[p])} \cup (IF file = Blank THEN {} ELSE {Torn})
  /\ last' = IF file' = Torn THEN last ELSE file'
  /\ consent' = (consent /\ AuthModeOf(config[p]) = "Always")
  /\ overlapped' = overlapped \cup (Holding \ {p})
  /\ Exits(p)
  /\ UNCHANGED raced

\* The disk is full, or the system crashes, when a part is written.  The part may
\* load all the same, also with the rest of what another process wrote since.
WriteFails(p) ==
  /\ pc[p] = "truncated"
  /\ LET written == Serialized(config[p])
     IN file' \in {Torn} \cup CutShort(written) \cup (IF Loads THEN Mixtures(written, file) ELSE {})
  /\ last' = IF file' = Torn THEN last ELSE file'
  /\ consent' = (consent /\ (file' # Torn => AuthModeOf(file') = "Always"))
  /\ overlapped' = overlapped \cup (Holding \ {p})
  /\ Exits(p)
  /\ UNCHANGED raced

\* The process is killed, the prompt interrupted, or the file cannot be opened
\* or written, which is printed and no more.
Quit(p) ==
  /\ pc[p] # "idle"
  /\ Exits(p)
  /\ UNCHANGED <<file, history>>

Step(p) ==
  \/ \E cmd \in Commands : Start(p, cmd)
  \/ Load(p) \/ LoadFails(p)
  \/ Show(p) \/ SetupSmtp(p) \/ SetupFail2Ban(p) \/ EditPeers(p) \/ SetupTls(p)
  \/ SetupGraph(p) \/ EditUser(p) \/ AllowInsecureAuth(p) \/ Reset(p)
  \/ Truncate(p) \/ Write(p) \/ WriteFails(p) \/ Quit(p)

Next == \E p \in Procs : Step(p)

Spec == Init /\ [][Next]_vars

--------------------------------------------------------------------------------
(* Properties *)

\* The types of the variables.
TypeOK ==
  /\ file \in Configs \cup {Absent, Blank, Torn}
  /\ pc \in [Procs -> {"idle", "started", "loaded", "executed", "truncated"}]
  /\ command \in [Procs -> Commands \cup {None}]
  /\ config \in [Procs -> Configs \cup {None}]
  /\ consent \in BOOLEAN
  /\ last \in Configs \cup {Absent}
  /\ overlapped \subseteq Procs
  /\ raced \in BOOLEAN

\* As long as no command has written over what another one wrote meanwhile: the
\* file lets the server take passwords in plain text only if that was confirmed at
\* the prompt, or written by hand, and no configuration in which it had no effect
\* was saved since.
PlainAuthIsConfirmed ==
  ~raced /\ Loads /\ ServerConfig(file).auth_mode = "Always" => consent

\* A change that another command made is undone only by one that ran at the same
\* time: a command that no other one wrote under changes its own part and leaves
\* the rest of the file as the last one saved it.
OnlyOverlapUndoes ==
  [][\A p \in Procs : Write(p) /\ p \notin overlapped =>
       /\ file' \in Configs /\ last \in Configs
       /\ \A field \in DOMAIN file' \ (PartOf[command[p]] \cup {"allow_insecure_auth"}) :
            file'[field] = last[field]]_vars

\* What the operator has: the copy of a command counts from the moment that the
\* file is emptied for it.
Stored ==
  IF \E p \in Procs : pc[p] = "truncated"
  THEN Serialized(config[CHOOSE p \in Procs : pc[p] = "truncated"])
  ELSE IF Loads THEN file ELSE Torn

Stage ==
  [p \in Procs |-> CASE pc[p] = "idle" -> "idle" [] pc[p] = "truncated" -> "done" [] OTHER -> "begun"]

Store == INSTANCE ConfigStore WITH
  content <- Stored, stage <- Stage, Default <- EmptyConfig, Lost <- Torn

\* A command writes that another one wrote under.
Racing == \E p \in Procs : pc[p] = "truncated" /\ p \in overlapped

\* As long as no command writes over what another one wrote meanwhile, the file is
\* an atomic store (ConfigStore): at the one moment that it is emptied each command
\* makes the whole of its own change and no other; only one that has got that far
\* can lose the configuration, or the end of its last value, by not coming to its
\* end.
IsAtomicStore ==
  Store!Init /\ [][~Racing /\ ~Racing' => Store!Next]_<<Stored, Stage, command>>

\* src/app/postgraph/src/cli.rs:67, "Restore the default configuration", and
\* src/scripts/Install-PostGraphService.ps1:184, which creates the file with it: when
\* 'config reset' has run alone, or has failed to load, the file is the default one.
ResetRestores ==
  [][\A p \in Procs :
       command[p] = "Reset" /\ (LoadFails(p) \/ (Write(p) /\ p \notin overlapped)) =>
         file' = EmptyConfig]_vars

--------------------------------------------------------------------------------
(* The inductive strengthening of the safety properties *)

\* What the file holds is what was last saved, and reads back as it was written.
FileIsLast ==
  /\ Loads => file = last
  /\ last \in Configs => Serialized(last) = last

\* A command has a copy from its load to its end, normalised once it is executed.
CopiesHeld ==
  /\ \A p \in Procs : pc[p] # "idle" => command[p] \in Commands
  /\ \A p \in Holding : config[p] \in Configs
  /\ \A p \in Procs : pc[p] \in {"executed", "truncated"} /\ config[p].allow_insecure_auth =>
       config[p].tls = None /\ HasUsers(config[p])

\* The copy of a command that no other one wrote under differs from what was last
\* saved in its own part only, and that is still in the file until it is emptied.
CopiesFresh ==
  \A p \in Holding \ overlapped :
    /\ last \in Configs
    /\ pc[p] = "loaded" => config[p] = last
    /\ file = IF pc[p] = "truncated" THEN Blank ELSE last
    /\ \A field \in DOMAIN EmptyConfig \ (PartOf[command[p]] \cup {"allow_insecure_auth"}) :
         config[p][field] = last[field]
    /\ pc[p] # "loaded" =>
         /\ command[p] = "Reset" => config[p] = EmptyConfig
         /\ command[p] \notin {"AllowInsecureAuth", "Reset"} =>
              (config[p].allow_insecure_auth <=>
                 last.allow_insecure_auth /\ config[p].tls = None /\ HasUsers(config[p]))

\* At most one command writes, and all others that run will write over it, until
\* one of them does.
WritersAlone ==
  \A p \in Procs : pc[p] = "truncated" =>
    /\ ~raced => p \notin overlapped
    /\ p \notin overlapped => Holding \ {p} \subseteq overlapped

\* Insecure authentication comes with consent, in the file and in fresh copies.
ConsentGiven ==
  ~raced =>
    /\ Loads /\ file.allow_insecure_auth => consent
    /\ \A p \in Holding \ overlapped : config[p].allow_insecure_auth => consent

IInv == TypeOK /\ FileIsLast /\ CopiesHeld /\ CopiesFresh /\ WritersAlone /\ ConsentGiven
================================================================================
