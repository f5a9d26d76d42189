-------------------------------- MODULE AppProofs ------------------------------
(***************************************************************************)
(* Proofs about ConfigFile, for any number of commands at once and any     *)
(* values, and about WindowsService, for every set of sessions.  The       *)
(* inductive invariant IInv says how the copy of a command is related to   *)
(* the file as long as no other command has written under it; ServiceInv   *)
(* says how far the proxy and the tasks of its runtime are at each place   *)
(* of run_service.                                                         *)
(***************************************************************************)
EXTENDS ConfigFile, WindowsService, TLAPS

Fields == DOMAIN EmptyConfig

--------------------------------------------------------------------------------
(* Configurations and the operators on them *)

LEMMA FieldsOfConfig ==
  /\ Fields = {"address", "name", "max_message_size", "allow_insecure_auth", "tls", "fail2ban",
               "users", "peer_filter", "graph"}
  /\ \A c \in Configs : DOMAIN c = Fields
BY DEF Fields, EmptyConfig, Configs

LEMMA EmptyConfigIsConfig == EmptyConfig \in Configs
<1>1. [u \in {} |-> None] \in [{} -> Entries]
  OBVIOUS
<1>2. [u \in {} |-> None] \in UserLists
  BY <1>1 DEF UserLists
<1> QED
  BY <1>2, ValuesAssumption DEF EmptyConfig, Configs

LEMMA UsersEdited ==
  ASSUME NEW c \in Configs, NEW u \in Users
  PROVE  /\ \A entry \in Entries : WithUser(c, u, entry) \in Configs
         /\ WithoutUser(c, u) \in Configs
<1>1. c.users \in UserLists
  BY DEF Configs
<1>2. PICK names \in SUBSET Users : c.users \in [names -> Entries]
  BY <1>1 DEF UserLists
<1>3. ASSUME NEW entry \in Entries  PROVE WithUser(c, u, entry) \in Configs
  <2> DEFINE users == [v \in DOMAIN c.users \cup {u} |-> IF v = u THEN entry ELSE c.users[v]]
  <2>1. users \in [names \cup {u} -> Entries]
    BY <1>2
  <2>2. users \in UserLists
    BY <2>1 DEF UserLists
  <2> QED
    BY <2>2 DEF WithUser, Configs
<1>4. [v \in DOMAIN c.users \ {u} |-> c.users[v]] \in [names \ {u} -> Entries]
  BY <1>2
<1>5. [v \in DOMAIN c.users \ {u} |-> c.users[v]] \in UserLists
  BY <1>4 DEF UserLists
<1> QED
  BY <1>3, <1>5 DEF WithoutUser, Configs

\* Normalising changes allow_insecure_auth alone, and only to switch it off.
LEMMA NormalisedConfig ==
  ASSUME NEW c \in Configs
  PROVE  /\ Normalised(c) \in Configs
         /\ \A f \in Fields \ {"allow_insecure_auth"} : Normalised(c)[f] = c[f]
         /\ Normalised(c).allow_insecure_auth <=>
              /\ c.allow_insecure_auth
              /\ Normalised(c).tls = None /\ HasUsers(Normalised(c))
         /\ c = EmptyConfig => Normalised(c) = EmptyConfig
<1>1. Normalised(c) \in Configs
  BY DEF Normalised, Configs
<1>2. \A f \in Fields \ {"allow_insecure_auth"} : Normalised(c)[f] = c[f]
  BY FieldsOfConfig DEF Normalised
<1>3. /\ Normalised(c).tls = c.tls /\ Normalised(c).users = c.users
      /\ Normalised(c).allow_insecure_auth = (c.allow_insecure_auth /\ c.tls = None /\ HasUsers(c))
  BY DEF Normalised, Configs
<1>4. ASSUME c = EmptyConfig  PROVE Normalised(c) = EmptyConfig
  <2>1. c.allow_insecure_auth = FALSE
    BY <1>4 DEF EmptyConfig
  <2>2. (c.allow_insecure_auth /\ c.tls = None /\ HasUsers(c)) = FALSE
    BY <2>1
  <2>3. Normalised(c) = [c EXCEPT !.allow_insecure_auth = FALSE]
    BY <2>2, Zenon DEF Normalised
  <2> QED
    BY <1>4, <2>3 DEF EmptyConfig
<1> QED
  BY <1>1, <1>2, <1>3, <1>4 DEF HasUsers

LEMMA WholeSecondsTwice ==
  ASSUME NEW d \in Durations \cup {None}
  PROVE  WholeSeconds(d) \in Durations \cup {None} /\ WholeSeconds(WholeSeconds(d)) = WholeSeconds(d)
BY ValuesAssumption, NoneAssumption DEF WholeSeconds

\* Writing a configuration down rounds its ban duration, once and for all.
LEMMA SerializedConfig ==
  ASSUME NEW c \in Configs
  PROVE  /\ Serialized(c) \in Configs
         /\ Serialized(Serialized(c)) = Serialized(c)
         /\ \A f \in Fields \ {"fail2ban"} : Serialized(c)[f] = c[f]
         /\ Serialized(c).allow_insecure_auth = c.allow_insecure_auth
         /\ Serialized(c).tls = c.tls /\ Serialized(c).users = c.users
<1> DEFINE set == c.fail2ban
           cut == [set EXCEPT !.ban_duration = WholeSeconds(@)]
<1>1. set \in Fail2Bans \cup {None}
  BY DEF Configs
<1>2. CASE set = None
  BY <1>2 DEF Serialized
<1>3. CASE set # None
  <2>1. Serialized(c) = [c EXCEPT !.fail2ban = cut]
    BY <1>3 DEF Serialized
  <2>2. cut \in Fail2Bans /\ [cut EXCEPT !.ban_duration = WholeSeconds(@)] = cut
    BY <1>1, <1>3, WholeSecondsTwice DEF Fail2Bans
  <2>3. Serialized(c) \in Configs /\ Serialized(c).fail2ban = cut
    BY <2>1, <2>2 DEF Configs
  <2>4. Serialized(Serialized(c)) = [Serialized(c) EXCEPT !.fail2ban = cut]
    BY <2>2, <2>3, NoneAssumption DEF Serialized
  <2>5. [Serialized(c) EXCEPT !.fail2ban = cut] = Serialized(c)
    BY <2>3 DEF Configs
  <2>6. \A f \in Fields \ {"fail2ban"} : Serialized(c)[f] = c[f]
    BY <2>1, FieldsOfConfig
  <2> QED
    BY <2>3, <2>4, <2>5, <2>6, FieldsOfConfig
<1> QED
  BY <1>2, <1>3

\* What becomes of the limits of Fail2Ban depends on nothing else.
LEMMA FailureLimitsAlone ==
  ASSUME NEW c \in Configs, NEW d \in Configs, c.fail2ban = d.fail2ban
  PROVE  Serialized(c).fail2ban = Serialized(d).fail2ban
BY DEF Serialized, Configs

--------------------------------------------------------------------------------
(* The commands *)

\* c is the configuration old as a command may leave it before the clean-up.
EditOf(c, old, cmd) ==
  /\ c \in Configs
  /\ \A f \in Fields \ PartOf[cmd] : c[f] = old[f]
  /\ c.allow_insecure_auth => old.allow_insecure_auth \/ cmd = "AllowInsecureAuth"
  /\ cmd = "Reset" => c = EmptyConfig

\* All that the rest of the proof uses of the nine commands.
Execution(p) ==
  /\ pc[p] = "loaded"
  /\ \E c : EditOf(c, config[p], command[p]) /\ Executed(p, c)
  /\ consent' \in {consent, TRUE}
  /\ config'[p].allow_insecure_auth => config[p].allow_insecure_auth \/ consent'

Runs(p) ==
  \/ Show(p) \/ SetupSmtp(p) \/ SetupFail2Ban(p) \/ EditPeers(p) \/ SetupTls(p)
  \/ SetupGraph(p) \/ EditUser(p) \/ AllowInsecureAuth(p) \/ Reset(p)

LEMMA PartsOfCommands ==
  /\ Commands = {"Show", "SmtpSetup", "Fail2Ban", "Peers", "Tls", "Graph", "User",
                 "AllowInsecureAuth", "Reset"}
  /\ PartOf["Show"] = {} /\ PartOf["SmtpSetup"] = {"address", "name", "max_message_size"}
  /\ PartOf["Fail2Ban"] = {"fail2ban"} /\ PartOf["Peers"] = {"peer_filter"}
  /\ PartOf["Tls"] = {"tls"} /\ PartOf["Graph"] = {"graph"} /\ PartOf["User"] = {"users"}
  /\ PartOf["AllowInsecureAuth"] = {"allow_insecure_auth"} /\ PartOf["Reset"] = Fields
BY DEF Commands, PartOf, Fields

LEMMA SetupsEdit ==
  ASSUME NEW c \in Configs
  PROVE  /\ \A address \in Addresses \cup {None}, name \in ServerNames \cup {None},
              size \in Sizes \cup {0, None} :
              EditOf(SmtpSetup(c, address, name, size), c, "SmtpSetup")
         /\ \A connections, failures \in Limits \cup {None}, duration \in Durations \cup {None} :
              EditOf(Fail2BanSetup(c, connections, failures, duration), c, "Fail2Ban")
<1>1. ASSUME NEW address \in Addresses \cup {None}, NEW name \in ServerNames \cup {None},
             NEW size \in Sizes \cup {0, None}
      PROVE  EditOf(SmtpSetup(c, address, name, size), c, "SmtpSetup")
  <2> DEFINE new == SmtpSetup(c, address, name, size)
  <2>1. new \in Configs /\ new.allow_insecure_auth = c.allow_insecure_auth
    BY DEF SmtpSetup, Given, Configs
  <2>2. \A f \in Fields \ {"address", "name", "max_message_size"} : new[f] = c[f]
    BY FieldsOfConfig DEF SmtpSetup
  <2> QED
    BY <2>1, <2>2, PartsOfCommands DEF EditOf
<1>2. ASSUME NEW connections \in Limits \cup {None}, NEW failures \in Limits \cup {None},
             NEW duration \in Durations \cup {None}
      PROVE  EditOf(Fail2BanSetup(c, connections, failures, duration), c, "Fail2Ban")
  <2> DEFINE new == Fail2BanSetup(c, connections, failures, duration)
             old == ValueOr(c.fail2ban, [max_connections |-> None, max_failures |-> None,
                                         ban_duration |-> None])
             limits == [max_connections |-> Given(connections, old.max_connections),
                        max_failures |-> Given(failures, old.max_failures),
                        ban_duration |-> Given(duration, old.ban_duration)]
  <2>1. old \in Fail2Bans
    BY DEF ValueOr, Configs, Fail2Bans
  <2>2. limits \in Fail2Bans
    BY <2>1 DEF Given, Fail2Bans
  <2>3. new = [c EXCEPT !.fail2ban = limits]
    BY DEF Fail2BanSetup
  <2>4. new \in Configs /\ new.allow_insecure_auth = c.allow_insecure_auth
    BY <2>2, <2>3 DEF Configs
  <2>5. \A f \in Fields \ {"fail2ban"} : new[f] = c[f]
    BY <2>3, FieldsOfConfig
  <2> QED
    BY <2>4, <2>5, PartsOfCommands DEF EditOf
<1> QED
  BY <1>1, <1>2

LEMMA FieldsEdit ==
  ASSUME NEW c \in Configs
  PROVE  /\ \A cmd \in Commands \ {"Reset"} : EditOf(c, c, cmd)
         /\ EditOf([c EXCEPT !.fail2ban = None], c, "Fail2Ban")
         /\ \A rule \in Rules : /\ EditOf([c EXCEPT !.peer_filter = @ \cup {rule}], c, "Peers")
                              /\ EditOf([c EXCEPT !.peer_filter = @ \ {rule}], c, "Peers")
         /\ \A tls \in TlsConfigs \cup {None} : EditOf([c EXCEPT !.tls = tls], c, "Tls")
         /\ \A graph \in Graphs : EditOf([c EXCEPT !.graph = graph], c, "Graph")
         /\ \A on \in BOOLEAN : EditOf([c EXCEPT !.allow_insecure_auth = on], c, "AllowInsecureAuth")
         /\ EditOf(EmptyConfig, c, "Reset")
<1>1. \A cmd \in Commands \ {"Reset"} : EditOf(c, c, cmd)
  BY DEF EditOf
<1>2. \A x \in Fail2Bans \cup {None} : EditOf([c EXCEPT !.fail2ban = x], c, "Fail2Ban")
  BY FieldsOfConfig, PartsOfCommands DEF EditOf, Configs
<1>3. \A x \in SUBSET Rules : EditOf([c EXCEPT !.peer_filter = x], c, "Peers")
  BY FieldsOfConfig, PartsOfCommands DEF EditOf, Configs
<1>4. \A tls \in TlsConfigs \cup {None} : EditOf([c EXCEPT !.tls = tls], c, "Tls")
  BY FieldsOfConfig, PartsOfCommands DEF EditOf, Configs
<1>5. \A graph \in Graphs : EditOf([c EXCEPT !.graph = graph], c, "Graph")
  BY FieldsOfConfig, PartsOfCommands DEF EditOf, Configs
<1>6. \A on \in BOOLEAN : EditOf([c EXCEPT !.allow_insecure_auth = on], c, "AllowInsecureAuth")
  BY FieldsOfConfig, PartsOfCommands DEF EditOf, Configs
<1>7. EditOf(EmptyConfig, c, "Reset")
  BY EmptyConfigIsConfig, PartsOfCommands DEF EditOf, EmptyConfig
<1>8. c.peer_filter \subseteq Rules
  BY DEF Configs
<1> QED
  BY <1>1, <1>2, <1>3, <1>4, <1>5, <1>6, <1>7, <1>8

LEMMA UsersEdit ==
  ASSUME NEW c \in Configs, NEW u \in Users
  PROVE  /\ \A entry \in Entries : EditOf(WithUser(c, u, entry), c, "User")
         /\ EditOf(WithoutUser(c, u), c, "User")
<1>1. /\ \A entry \in Entries : WithUser(c, u, entry) \in Configs
      /\ WithoutUser(c, u) \in Configs
  BY UsersEdited
<1>2. /\ \A entry \in Entries : \A f \in Fields \ {"users"} : WithUser(c, u, entry)[f] = c[f]
      /\ \A f \in Fields \ {"users"} : WithoutUser(c, u)[f] = c[f]
  BY FieldsOfConfig DEF WithUser, WithoutUser
<1> QED
  BY <1>1, <1>2, FieldsOfConfig, PartsOfCommands DEF EditOf

\* Each command edits its part of a copy; AllowInsecureAuth has the operator's yes.
LEMMA CommandsEdit ==
  ASSUME TypeOK, CopiesHeld, NEW p \in Procs, Runs(p)
  PROVE  Execution(p)
<1> DEFINE c == config[p]
           Result(new) == EditOf(new, c, command[p]) /\ Executed(p, new)
<1>1. pc[p] = "loaded" /\ command[p] \in Commands
  BY PartsOfCommands
  DEF Runs, Running, Show, SetupSmtp, SetupFail2Ban, EditPeers, SetupTls, SetupGraph, EditUser,
      AllowInsecureAuth, Reset
<1>2. c \in Configs
  BY <1>1 DEF CopiesHeld, Holding
<1>3. ASSUME NEW new, Result(new), consent' \in {consent, TRUE},
             new.allow_insecure_auth => c.allow_insecure_auth \/ consent'
      PROVE  Execution(p)
  <2>1. config'[p] = Normalised(new)
    BY <1>3 DEF Executed, TypeOK
  <2>2. config'[p].allow_insecure_auth => new.allow_insecure_auth
    BY <1>3, <2>1, NormalisedConfig DEF EditOf
  <2> QED
    BY <1>1, <1>3, <2>2 DEF Execution
<1>4. ASSUME NEW new, Result(new), UNCHANGED consent, command[p] # "AllowInsecureAuth"
      PROVE  Execution(p)
  BY <1>3, <1>4 DEF EditOf
<1>5. CASE Show(p)
  BY <1>1, <1>2, <1>4, <1>5, FieldsEdit DEF Show, Running
<1>6. CASE SetupSmtp(p)
  <2>1. PICK address \in Addresses \cup {None}, name \in ServerNames \cup {None},
             size \in Sizes \cup {0, None} : Executed(p, SmtpSetup(c, address, name, size))
    BY <1>6 DEF SetupSmtp
  <2> QED
    BY <2>1, <1>2, <1>4, <1>6, SetupsEdit DEF SetupSmtp, Running
<1>7. CASE SetupFail2Ban(p)
  <2>1. CASE Executed(p, [c EXCEPT !.fail2ban = None])
    BY <2>1, <1>2, <1>4, <1>7, FieldsEdit DEF SetupFail2Ban, Running
  <2>2. CASE ~Executed(p, [c EXCEPT !.fail2ban = None])
    <3>1. PICK connections \in Limits \cup {None}, failures \in Limits \cup {None},
               duration \in Durations \cup {None} :
            Executed(p, Fail2BanSetup(c, connections, failures, duration))
      BY <2>2, <1>7 DEF SetupFail2Ban
    <3> QED
      BY <3>1, <1>2, <1>4, <1>7, SetupsEdit DEF SetupFail2Ban, Running
  <2> QED
    BY <2>1, <2>2
<1>8. CASE EditPeers(p)
  <2>1. PICK rule \in Rules : \/ Executed(p, [c EXCEPT !.peer_filter = @ \cup {rule}])
                            \/ Executed(p, [c EXCEPT !.peer_filter = @ \ {rule}])
    BY <1>8 DEF EditPeers
  <2> QED
    BY <2>1, <1>2, <1>4, <1>8, FieldsEdit DEF EditPeers, Running
<1>9. CASE SetupTls(p)
  BY <1>2, <1>4, <1>9, FieldsEdit DEF SetupTls, Running
<1>10. CASE SetupGraph(p)
  BY <1>2, <1>4, <1>10, FieldsEdit DEF SetupGraph, Running
<1>11. CASE EditUser(p)
  <2>1. \/ \E u \in Users, entry \in Entries : Executed(p, WithUser(c, u, entry))
        \/ \E u \in Users : Executed(p, WithoutUser(c, u))
        \/ Executed(p, c)
    BY <1>11 DEF EditUser
  <2>2. CASE \E u \in Users, entry \in Entries : Executed(p, WithUser(c, u, entry))
    BY <2>2, <1>2, <1>4, <1>11, UsersEdit DEF EditUser, Running
  <2>3. CASE \E u \in Users : Executed(p, WithoutUser(c, u))
    BY <2>3, <1>2, <1>4, <1>11, UsersEdit DEF EditUser, Running
  <2>4. CASE Executed(p, c)
    BY <2>4, <1>1, <1>2, <1>4, <1>11, FieldsEdit DEF EditUser, Running
  <2> QED
    BY <2>1, <2>2, <2>3, <2>4
<1>12. CASE AllowInsecureAuth(p)
  <2>1. CASE Executed(p, [c EXCEPT !.allow_insecure_auth = TRUE]) /\ consent' = TRUE
    BY <2>1, <1>2, <1>3, <1>12, FieldsEdit DEF AllowInsecureAuth, Running
  <2>2. CASE Executed(p, [c EXCEPT !.allow_insecure_auth = FALSE]) /\ UNCHANGED consent
    <3>1. [c EXCEPT !.allow_insecure_auth = FALSE].allow_insecure_auth = FALSE
      BY <1>2 DEF Configs
    <3> QED
      BY <2>2, <3>1, <1>2, <1>3, <1>12, FieldsEdit DEF AllowInsecureAuth, Running
  <2>3. CASE Executed(p, c) /\ UNCHANGED consent
    BY <2>3, <1>1, <1>2, <1>3, <1>12, FieldsEdit DEF AllowInsecureAuth, Running
  <2> QED
    BY <2>1, <2>2, <2>3, <1>12 DEF AllowInsecureAuth
<1>13. CASE Reset(p)
  BY <1>2, <1>4, <1>13, FieldsEdit DEF Reset, Running
<1> QED
  BY <1>5, <1>6, <1>7, <1>8, <1>9, <1>10, <1>11, <1>12, <1>13 DEF Runs

--------------------------------------------------------------------------------
(* The inductive invariant *)

LEMMA InitEstablishes == Init => IInv
<1> SUFFICES ASSUME Init PROVE IInv
  OBVIOUS
<1>1. Holding = {}
  BY DEF Init, Holding
<1>2. TypeOK
  BY FileAssumption DEF Init, TypeOK, Loads, Configs
<1>3. FileIsLast
  BY FileAssumption DEF Init, FileIsLast
<1>4. CopiesHeld /\ CopiesFresh /\ WritersAlone
  BY <1>1 DEF Init, CopiesHeld, CopiesFresh, WritersAlone
<1>5. ConsentGiven
  BY <1>1 DEF Init, ConsentGiven, Loads
<1> QED
  BY <1>2, <1>3, <1>4, <1>5 DEF IInv

\* A process that starts, or ends without a word: the copies that are left are as
\* they were.
LEMMA StartKeeps ==
  ASSUME IInv, NEW p \in Procs, NEW cmd \in Commands, Start(p, cmd)
  PROVE  IInv'
<1> USE DEF IInv
<1>1. /\ Holding' = Holding /\ p \notin Holding
      /\ \A q \in Procs \ {p} : pc'[q] = pc[q] /\ command'[q] = command[q]
      /\ pc'[p] = "started" /\ command'[p] = cmd
      /\ UNCHANGED <<file, config, consent, last, overlapped, raced>>
  BY DEF Start, Holding, TypeOK, history
<1>2. TypeOK'
  BY DEF Start, TypeOK, history
<1>3. FileIsLast'
  BY <1>1 DEF FileIsLast, Loads
<1>4. CopiesHeld'
  BY <1>1 DEF CopiesHeld
<1>5. CopiesFresh'
  BY <1>1 DEF CopiesFresh, Holding
<1>6. WritersAlone'
  BY <1>1 DEF WritersAlone
<1>7. ConsentGiven'
  BY <1>1 DEF ConsentGiven, Loads
<1> QED
  BY <1>2, <1>3, <1>4, <1>5, <1>6, <1>7

LEMMA ExitKeeps ==
  ASSUME IInv, NEW p \in Procs, LoadFails(p) \/ Quit(p)
  PROVE  IInv'
<1> USE DEF IInv
<1>1. /\ Holding' = Holding \ {p} /\ Holding \subseteq Procs
      /\ \A q \in Procs \ {p} : pc'[q] = pc[q] /\ command'[q] = command[q] /\ config'[q] = config[q]
      /\ pc'[p] = "idle"
      /\ UNCHANGED <<file, consent, last, overlapped, raced>>
  BY DEF LoadFails, Quit, Exits, Holding, TypeOK, history
<1>2. TypeOK'
  BY DEF LoadFails, Quit, Exits, TypeOK, history
<1>3. FileIsLast'
  BY <1>1 DEF FileIsLast, Loads
<1>4. CopiesHeld'
  BY <1>1 DEF CopiesHeld
<1>5. CopiesFresh'
  BY <1>1 DEF CopiesFresh, Holding
<1>6. WritersAlone'
  BY <1>1 DEF WritersAlone
<1>7. ConsentGiven'
  BY <1>1 DEF ConsentGiven, Loads
<1> QED
  BY <1>2, <1>3, <1>4, <1>5, <1>6, <1>7

LEMMA LoadKeeps ==
  ASSUME IInv, NEW p \in Procs, Load(p)
  PROVE  IInv'
<1> USE DEF IInv
<1>1. /\ Holding' = Holding \cup {p} /\ p \notin Holding /\ Holding \subseteq Procs
      /\ \A q \in Procs : pc[q] = "truncated" => q \in Holding
      /\ \A q \in Procs \ {p} : pc'[q] = pc[q] /\ config'[q] = config[q]
      /\ overlapped' = overlapped \ {p}
      /\ pc[p] = "started" /\ pc'[p] = "loaded" /\ config'[p] = file
      /\ UNCHANGED <<file, command, consent, last, raced>>
      /\ file \in Configs
  BY DEF Load, Holding, TypeOK, Loads
<1>2. TypeOK'
  BY DEF Load, TypeOK, Loads
<1>3. FileIsLast'
  BY <1>1 DEF FileIsLast, Loads
<1>4. CopiesHeld'
  BY <1>1 DEF CopiesHeld
<1>5. CopiesFresh'
  <2>1. file = last
    BY <1>1 DEF FileIsLast, Loads
  <2> QED
    BY <1>1, <2>1 DEF CopiesFresh
\* No other command is writing over its own emptied file, since that would not load.
<1>6. WritersAlone'
  <2> SUFFICES ASSUME NEW q \in Procs, pc'[q] = "truncated"
               PROVE  /\ ~raced => q \notin overlapped'
                      /\ q \notin overlapped' => Holding' \ {q} \subseteq overlapped'
    BY <1>1 DEF WritersAlone
  <2>1. q # p /\ pc[q] = "truncated" /\ q \in Holding
    BY <1>1
  <2>2. q \in overlapped
    BY <2>1, <1>1, FileAssumption DEF CopiesFresh
  <2> QED
    BY <2>1, <2>2, <1>1 DEF WritersAlone
<1>7. ConsentGiven'
  BY <1>1 DEF ConsentGiven, Loads
<1> QED
  BY <1>2, <1>3, <1>4, <1>5, <1>6, <1>7

LEMMA ExecutionKeeps ==
  ASSUME IInv, NEW p \in Procs, Runs(p)
  PROVE  IInv'
<1> USE DEF IInv
<1> DEFINE old == config[p]
           new == config'[p]
<1>1. Execution(p)
  BY CommandsEdit
<1>2. PICK c : EditOf(c, old, command[p]) /\ Executed(p, c)
  BY <1>1 DEF Execution
<1>3. /\ Holding' = Holding /\ p \in Holding /\ Holding \subseteq Procs
      /\ \A q \in Procs \ {p} : pc'[q] = pc[q] /\ config'[q] = config[q]
      /\ pc[p] = "loaded" /\ pc'[p] = "executed" /\ new = Normalised(c)
      /\ UNCHANGED <<file, command, last, overlapped, raced>>
  BY <1>1, <1>2 DEF Execution, Executed, Holding, TypeOK
<1>4. /\ new \in Configs
      /\ \A f \in Fields \ (PartOf[command[p]] \cup {"allow_insecure_auth"}) : new[f] = old[f]
      /\ new.allow_insecure_auth =>
           /\ new.tls = None /\ HasUsers(new)
           /\ old.allow_insecure_auth \/ command[p] = "AllowInsecureAuth"
      /\ command[p] = "Reset" => new = EmptyConfig
  BY <1>2, <1>3, NormalisedConfig DEF EditOf
<1>12. ASSUME command[p] \notin {"AllowInsecureAuth", "Reset"}
       PROVE  new.allow_insecure_auth <=> old.allow_insecure_auth /\ new.tls = None /\ HasUsers(new)
  <2>1. command[p] \in Commands
    BY <1>3 DEF CopiesHeld
  <2>2. c.allow_insecure_auth = old.allow_insecure_auth
    BY <1>2, <1>12, <2>1, FieldsOfConfig, PartsOfCommands DEF EditOf
  <2> QED
    BY <1>2, <1>3, <2>2, NormalisedConfig DEF EditOf
<1>5. consent' \in {consent, TRUE} /\ (new.allow_insecure_auth => old.allow_insecure_auth \/ consent')
  BY <1>1 DEF Execution
<1>6. TypeOK'
  BY <1>2, <1>3, <1>4, <1>5 DEF Executed, TypeOK
<1>7. FileIsLast'
  BY <1>3 DEF FileIsLast, Loads
<1>8. CopiesHeld'
  BY <1>3, <1>4 DEF CopiesHeld
<1>9. CopiesFresh'
  <2> SUFFICES ASSUME NEW q \in Holding' \ overlapped'
               PROVE  /\ last' \in Configs
                      /\ pc'[q] = "loaded" => config'[q] = last'
                      /\ file' = IF pc'[q] = "truncated" THEN Blank ELSE last'
                      /\ \A field \in Fields \ (PartOf[command'[q]] \cup {"allow_insecure_auth"}) :
                           config'[q][field] = last'[field]
                      /\ pc'[q] # "loaded" =>
                           /\ command'[q] = "Reset" => config'[q] = EmptyConfig
                           /\ command'[q] \notin {"AllowInsecureAuth", "Reset"} =>
                                (config'[q].allow_insecure_auth <=>
                                   last'.allow_insecure_auth /\ config'[q].tls = None
                                     /\ HasUsers(config'[q]))
    BY DEF CopiesFresh, Fields
  <2>1. q \in Holding \ overlapped
    BY <1>3
  <2>2. CASE q = p
    <3>1. last \in Configs /\ old = last /\ file = last
      BY <2>1, <2>2, <1>3 DEF CopiesFresh
    <3> QED
      BY <2>2, <3>1, <1>3, <1>4, <1>12
  <2>3. CASE q # p
    BY <2>1, <2>3, <1>3 DEF CopiesFresh, Fields
  <2> QED
    BY <2>2, <2>3
<1>10. WritersAlone'
  BY <1>3 DEF WritersAlone
<1>11. ConsentGiven'
  <2>1. consent => consent'
    BY <1>5
  <2>2. ~raced' => (Loads' /\ file'.allow_insecure_auth => consent')
    BY <1>3, <2>1 DEF ConsentGiven, Loads
  <2>3. ASSUME ~raced', NEW q \in Holding' \ overlapped', config'[q].allow_insecure_auth
        PROVE  consent'
    <3>1. ~raced /\ q \in Holding \ overlapped
      BY <2>3, <1>3
    <3>2. config[q].allow_insecure_auth => consent
      BY <3>1 DEF ConsentGiven
    <3> QED
      BY <3>1, <3>2, <2>1, <2>3, <1>3, <1>5
  <2> QED
    BY <2>2, <2>3 DEF ConsentGiven
<1> QED
  BY <1>6, <1>7, <1>8, <1>9, <1>10, <1>11

\* Any other process that runs may only be the one that is to write next.
LEMMA TruncateKeeps ==
  ASSUME IInv, NEW p \in Procs, Truncate(p)
  PROVE  IInv'
<1> USE DEF IInv
<1>1. /\ Holding' = Holding /\ p \in Holding /\ Holding \subseteq Procs
      /\ \A q \in Procs : pc[q] = "truncated" => q \in Holding
      /\ \A q \in Procs \ {p} : pc'[q] = pc[q]
      /\ pc[p] = "executed" /\ pc'[p] = "truncated" /\ file' = Blank
      /\ overlapped' = overlapped \cup (Holding \ {p})
      /\ raced' = (raced \/ p \in overlapped)
      /\ UNCHANGED <<command, config, consent, last>>
  BY DEF Truncate, Holding, TypeOK
<1>2. ~Loads'
  BY <1>1, FileAssumption DEF Loads
<1>3. TypeOK'
  BY <1>1 DEF Truncate, TypeOK
<1>4. FileIsLast'
  BY <1>1, <1>2 DEF FileIsLast
<1>5. CopiesHeld'
  BY <1>1 DEF CopiesHeld
<1>6. CopiesFresh'
  <2>1. Holding' \ overlapped' \subseteq {p}
    BY <1>1
  <2>2. p \notin overlapped' => p \notin overlapped
    BY <1>1
  <2> QED
    BY <1>1, <2>1, <2>2 DEF CopiesFresh
<1>7. WritersAlone'
  <2> SUFFICES ASSUME NEW q \in Procs, pc'[q] = "truncated"
               PROVE  /\ ~raced' => q \notin overlapped'
                      /\ q \notin overlapped' => Holding' \ {q} \subseteq overlapped'
    BY DEF WritersAlone
  <2>1. CASE q = p
    BY <2>1, <1>1, <1>3 DEF TypeOK
  <2>2. CASE q # p
    <3>1. pc[q] = "truncated" /\ q \in overlapped'
      BY <2>2, <1>1
    <3>2. ~raced => p \in overlapped
      BY <3>1, <2>2, <1>1 DEF WritersAlone
    <3> QED
      BY <3>1, <3>2, <1>1, <1>3 DEF TypeOK
  <2> QED
    BY <2>1, <2>2
<1>8. ConsentGiven'
  <2>1. Holding' \ overlapped' \subseteq {p} /\ (~raced' => ~raced /\ p \notin overlapped)
    BY <1>1, <1>3 DEF TypeOK
  <2> QED
    BY <1>1, <1>2, <2>1 DEF ConsentGiven
<1> QED
  BY <1>3, <1>4, <1>5, <1>6, <1>7, <1>8

\* After a write, whole or not, no copy is fresh.
LEMMA WriteLeaves ==
  ASSUME IInv, NEW p \in Procs, Write(p) \/ WriteFails(p)
  PROVE  /\ p \in Holding /\ Holding \subseteq Procs /\ Holding' = Holding \ {p}
         /\ pc[p] = "truncated" /\ pc'[p] = "idle"
         /\ \A q \in Procs \ {p} : /\ pc'[q] = pc[q] /\ command'[q] = command[q]
                                  /\ config'[q] = config[q]
         /\ \A q \in Procs : pc[q] = "truncated" => q \in Holding
         /\ raced' = raced /\ overlapped' = overlapped \cup (Holding \ {p})
         /\ CopiesHeld' /\ CopiesFresh' /\ WritersAlone'
<1> USE DEF IInv
<1>1. /\ Holding' = Holding \ {p} /\ p \in Holding /\ Holding \subseteq Procs
      /\ \A q \in Procs : pc[q] = "truncated" => q \in Holding
      /\ \A q \in Procs \ {p} : pc'[q] = pc[q] /\ command'[q] = command[q] /\ config'[q] = config[q]
      /\ pc[p] = "truncated" /\ pc'[p] = "idle"
      /\ overlapped' = overlapped \cup (Holding \ {p}) /\ raced' = raced
  BY DEF Write, WriteFails, Exits, Holding, TypeOK
<1>2. CopiesHeld'
  BY <1>1 DEF CopiesHeld
<1>3. CopiesFresh'
  <2>1. Holding' \ overlapped' = {}
    BY <1>1
  <2> QED
    BY <2>1 DEF CopiesFresh
<1>4. WritersAlone'
  <2> SUFFICES ASSUME NEW q \in Procs, pc'[q] = "truncated"
               PROVE  /\ ~raced => q \notin overlapped'
                      /\ q \notin overlapped' => Holding' \ {q} \subseteq overlapped'
    BY <1>1 DEF WritersAlone
  <2>1. q # p /\ pc[q] = "truncated" /\ q \in overlapped'
    BY <1>1
  <2> QED
    BY <2>1, <1>1 DEF WritersAlone
<1> QED
  BY <1>1, <1>2, <1>3, <1>4

\* What a write that succeeds puts into the file, and what one that does not.
LEMMA WriteStores ==
  ASSUME IInv, NEW p \in Procs, Write(p)
  PROVE  /\ config[p] \in Configs /\ command[p] \in Commands
         /\ \/ file' = Serialized(config[p]) /\ last' = file' /\ file' \in Configs
            \/ file' = Torn /\ last' = last /\ file' \notin Configs /\ file # Blank
         /\ config[p].allow_insecure_auth => AuthModeOf(config[p]) = "Always"
         /\ consent' = (consent /\ AuthModeOf(config[p]) = "Always")
<1> USE DEF IInv
<1>1. p \in Holding /\ pc[p] = "truncated"
  BY WriteLeaves
<1>2. config[p] \in Configs /\ command[p] \in Commands
  BY <1>1 DEF CopiesHeld
<1>3. Serialized(config[p]) \in Configs /\ Torn \notin Configs
  BY <1>2, SerializedConfig, FileAssumption
<1>4. config[p].allow_insecure_auth => AuthModeOf(config[p]) = "Always"
  BY <1>1, <1>2 DEF CopiesHeld, AuthModeOf
<1> QED
  BY <1>2, <1>3, <1>4 DEF Write

LEMMA WriteKeeps ==
  ASSUME IInv, NEW p \in Procs, Write(p)
  PROVE  IInv'
<1> USE DEF IInv
<1>1. /\ p \in Holding /\ Holding' = Holding \ {p} /\ raced' = raced /\ pc[p] = "truncated"
      /\ Holding \subseteq Procs
      /\ overlapped' = overlapped \cup (Holding \ {p})
      /\ CopiesHeld' /\ CopiesFresh' /\ WritersAlone'
  BY WriteLeaves
<1>2. /\ config[p] \in Configs
      /\ \/ file' = Serialized(config[p]) /\ last' = file' /\ file' \in Configs
         \/ file' = Torn /\ last' = last /\ file' \notin Configs
      /\ config[p].allow_insecure_auth => AuthModeOf(config[p]) = "Always"
      /\ consent' = (consent /\ AuthModeOf(config[p]) = "Always")
  BY WriteStores
<1>3. TypeOK'
  <2>1. consent' \in BOOLEAN
    BY <1>2
  <2>2. /\ file' \in Configs \cup {Absent, Blank, Torn} /\ last' \in Configs \cup {Absent}
    BY <1>2 DEF TypeOK
  <2>3. overlapped' \subseteq Procs /\ raced' \in BOOLEAN
    BY <1>1 DEF TypeOK
  <2> QED
    BY <2>1, <2>2, <2>3 DEF Write, Exits, TypeOK
<1>4. FileIsLast'
  BY <1>2, SerializedConfig DEF FileIsLast, Loads
<1>5. ConsentGiven'
  <2>1. Holding' \ overlapped' = {}
    BY <1>1
  <2>2. ASSUME ~raced', Loads', file'.allow_insecure_auth  PROVE consent'
    <3>1. p \in Holding \ overlapped
      BY <2>2, <1>1 DEF WritersAlone, Holding
    <3>2. config[p].allow_insecure_auth
      BY <2>2, <1>2, SerializedConfig DEF Loads
    <3>3. consent
      BY <3>1, <3>2, <2>2, <1>1 DEF ConsentGiven
    <3> QED
      BY <3>2, <3>3, <1>2
  <2> QED
    BY <2>1, <2>2 DEF ConsentGiven
<1> QED
  BY <1>1, <1>3, <1>4, <1>5

\* What a part of a configuration changes when it loads.
LEMMA CutConfig ==
  ASSUME NEW c \in Configs, Serialized(c) = c, NEW cut \in CutShort(c)
  PROVE  /\ cut \in Configs /\ Serialized(cut) = cut
         /\ cut.allow_insecure_auth = c.allow_insecure_auth
         /\ AuthModeOf(cut) = AuthModeOf(c)
<1>1. PICK graph \in CutGraphs[c.graph] : cut = [c EXCEPT !.graph = graph]
  BY DEF CutShort
<1>2. graph \in Graphs /\ cut \in Configs
  BY <1>1, ValuesAssumption DEF Configs
<1>3. /\ cut.allow_insecure_auth = c.allow_insecure_auth /\ cut.tls = c.tls
      /\ cut.users = c.users /\ cut.fail2ban = c.fail2ban
  BY <1>1, <1>2 DEF Configs
<1>4. Serialized(cut).fail2ban = cut.fail2ban
  BY <1>2, <1>3, FailureLimitsAlone
<1>5. Serialized(cut) = cut
  BY <1>2, <1>4 DEF Serialized, Configs
<1> QED
  BY <1>2, <1>3, <1>5 DEF AuthModeOf, HasUsers

LEMMA MixedConfig ==
  ASSUME NEW c \in Configs, Serialized(c) = c, NEW rest \in Configs, Serialized(rest) = rest,
         NEW mixed \in Mixtures(c, rest)
  PROVE  mixed \in Configs /\ Serialized(mixed) = mixed
<1>1. PICK n \in 1 .. Len(KeyOrder) - 1 :
        mixed = [field \in DOMAIN c |->
                   IF \E i \in 1 .. n : KeyOrder[i] = field THEN c[field] ELSE rest[field]]
  BY DEF Mixtures
<1>2. DOMAIN mixed = Fields /\ \A f \in Fields : mixed[f] \in {c[f], rest[f]}
  BY <1>1, FieldsOfConfig
<1>3. mixed = [address |-> mixed.address, name |-> mixed.name,
               max_message_size |-> mixed.max_message_size,
               allow_insecure_auth |-> mixed.allow_insecure_auth, tls |-> mixed.tls,
               fail2ban |-> mixed.fail2ban, users |-> mixed.users,
               peer_filter |-> mixed.peer_filter, graph |-> mixed.graph]
  BY <1>1, <1>2, FieldsOfConfig
<1>4. mixed \in Configs
  BY <1>2, <1>3, FieldsOfConfig DEF Configs
<1>5. Serialized(mixed).fail2ban = mixed.fail2ban
  BY <1>2, <1>4, FieldsOfConfig, FailureLimitsAlone
<1>6. Serialized(mixed) = mixed
  BY <1>4, <1>5 DEF Serialized, Configs
<1> QED
  BY <1>4, <1>6

\* What a write that fails puts into the file: nothing that loads, or, if no other
\* process has written meanwhile, the configuration with its last value cut.
LEMMA WriteFailsStores ==
  ASSUME IInv, NEW p \in Procs, WriteFails(p)
  PROVE  /\ config[p] \in Configs
         /\ \/ file' = Torn /\ last' = last /\ file' \notin Configs /\ consent' = consent
            \/ /\ file' \in Configs /\ Serialized(file') = file' /\ last' = file'
               /\ file = Blank => file' \in CutShort(Serialized(config[p]))
               /\ consent' = (consent /\ AuthModeOf(file') = "Always")
<1> USE DEF IInv
<1> DEFINE c == Serialized(config[p])
<1>1. p \in Holding /\ pc[p] = "truncated"
  BY WriteLeaves
<1>2. config[p] \in Configs /\ c \in Configs /\ Serialized(c) = c /\ Torn \notin Configs
  BY <1>1, SerializedConfig, FileAssumption DEF CopiesHeld
<1>3. CASE file' = Torn
  BY <1>2, <1>3 DEF WriteFails, TypeOK
<1>4. CASE file' # Torn /\ file' \in CutShort(c)
  BY <1>2, <1>4, CutConfig DEF WriteFails
<1>5. CASE file' # Torn /\ Loads /\ file' \in Mixtures(c, file)
  <2>1. file \in Configs /\ Serialized(file) = file /\ file # Blank
    BY <1>5, FileAssumption DEF Loads, FileIsLast
  <2> QED
    BY <1>2, <1>5, <2>1, MixedConfig DEF WriteFails
<1> QED
  BY <1>3, <1>4, <1>5 DEF WriteFails

LEMMA WriteFailsKeeps ==
  ASSUME IInv, NEW p \in Procs, WriteFails(p)
  PROVE  IInv'
<1> USE DEF IInv
<1>1. /\ p \in Holding /\ Holding' = Holding \ {p} /\ raced' = raced /\ pc[p] = "truncated"
      /\ Holding \subseteq Procs
      /\ overlapped' = overlapped \cup (Holding \ {p})
      /\ CopiesHeld' /\ CopiesFresh' /\ WritersAlone'
  BY WriteLeaves
<1>2. /\ config[p] \in Configs
      /\ \/ file' = Torn /\ last' = last /\ file' \notin Configs /\ consent' = consent
         \/ /\ file' \in Configs /\ Serialized(file') = file' /\ last' = file'
            /\ file = Blank => file' \in CutShort(Serialized(config[p]))
            /\ consent' = (consent /\ AuthModeOf(file') = "Always")
  BY WriteFailsStores
<1>3. TypeOK'
  <2>1. consent' \in BOOLEAN
    BY <1>2 DEF TypeOK
  <2>2. file' \in Configs \cup {Absent, Blank, Torn} /\ last' \in Configs \cup {Absent}
    BY <1>2 DEF TypeOK
  <2>3. overlapped' \subseteq Procs /\ raced' \in BOOLEAN
    BY <1>1 DEF TypeOK
  <2> QED
    BY <2>1, <2>2, <2>3 DEF WriteFails, Exits, TypeOK
<1>4. FileIsLast'
  BY <1>2 DEF FileIsLast, Loads
<1>5. ConsentGiven'
  <2>1. Holding' \ overlapped' = {}
    BY <1>1
  <2>2. ASSUME ~raced', Loads', file'.allow_insecure_auth  PROVE consent'
    <3>1. p \in Holding \ overlapped
      BY <2>2, <1>1 DEF WritersAlone, Holding
    <3>2. file = Blank
      BY <3>1, <1>1 DEF CopiesFresh
    <3>3. /\ file' \in CutShort(Serialized(config[p]))
          /\ consent' = (consent /\ AuthModeOf(file') = "Always")
      BY <3>2, <2>2, <1>2 DEF Loads
    <3>4. config[p].allow_insecure_auth /\ AuthModeOf(file') = AuthModeOf(Serialized(config[p]))
      BY <3>3, <2>2, <1>2, SerializedConfig, CutConfig
    <3>5. AuthModeOf(file') = "Always"
      BY <3>4, <1>1, <1>2, SerializedConfig DEF CopiesHeld, AuthModeOf, HasUsers
    <3>6. consent
      BY <3>1, <3>4, <2>2, <1>1 DEF ConsentGiven
    <3> QED
      BY <3>3, <3>5, <3>6
  <2> QED
    BY <2>1, <2>2 DEF ConsentGiven
<1> QED
  BY <1>1, <1>3, <1>4, <1>5

LEMMA NextPreserves == IInv /\ [Next]_vars => IInv'
<1> SUFFICES ASSUME IInv, [Next]_vars PROVE IInv'
  OBVIOUS
<1>1. CASE UNCHANGED vars
  <2>1. Holding' = Holding /\ Loads' = Loads
    BY <1>1 DEF vars, Holding, Loads
  <2> QED
    BY <1>1, <2>1 DEF vars, IInv, TypeOK, FileIsLast, CopiesHeld, CopiesFresh, WritersAlone, ConsentGiven
<1>2. ASSUME NEW p \in Procs, Step(p)  PROVE IInv'
  BY <1>2, StartKeeps, LoadKeeps, ExitKeeps, ExecutionKeeps, TruncateKeeps, WriteKeeps, WriteFailsKeeps
  DEF Step, Runs
<1> QED
  BY <1>1, <1>2 DEF Next

\* The strengthening holds in every state that file and commands reach.
THEOREM Invariance == Spec => []IInv
<1> QED
  BY InitEstablishes, NextPreserves, PTL DEF Spec

--------------------------------------------------------------------------------
(* Theorems *)

\* The state of file and commands keeps its type.
THEOREM TypeCorrect == Spec => []TypeOK
<1>1. IInv => TypeOK
  BY DEF IInv
<1> QED
  BY <1>1, Invariance, PTL

\* Passwords in plain text need a confirmation that is still in force, as long as
\* no command has written over what another one wrote meanwhile.
THEOREM PlainAuthConfirmed == Spec => []PlainAuthIsConfirmed
<1>1. IInv => PlainAuthIsConfirmed
  <2> SUFFICES ASSUME IInv, ~raced, Loads, ServerConfig(file).auth_mode = "Always"
               PROVE  consent
    BY DEF PlainAuthIsConfirmed
  <2>1. AuthModeOf(file) = "Always"
    BY DEF ServerConfig
  <2>2. file.allow_insecure_auth
    BY <2>1 DEF AuthModeOf
  <2> QED
    BY <2>2 DEF IInv, ConsentGiven
<1> QED
  BY <1>1, Invariance, PTL

\* A command that no other one wrote under leaves the rest of the file alone.
THEOREM OverlapUndoes == Spec => OnlyOverlapUndoes
<1> DEFINE Rest(p) == DOMAIN file' \ (PartOf[command[p]] \cup {"allow_insecure_auth"})
           Keeps(p) == /\ file' \in Configs /\ last \in Configs
                       /\ \A field \in Rest(p) : file'[field] = last[field]
<1>1. ASSUME IInv, NEW p \in Procs, Write(p), p \notin overlapped  PROVE Keeps(p)
  <2>1. p \in Holding /\ pc[p] = "truncated"
    BY <1>1, WriteLeaves
  <2>2. /\ file = Blank /\ last \in Configs
        /\ \A f \in Fields \ (PartOf[command[p]] \cup {"allow_insecure_auth"}) :
             config[p][f] = last[f]
    BY <1>1, <2>1 DEF IInv, CopiesFresh, Fields
  <2>3. config[p] \in Configs /\ file' = Serialized(config[p]) /\ file' \in Configs
    BY <1>1, <2>2, WriteStores
  <2>4. \A f \in Fields \ {"fail2ban"} : file'[f] = config[p][f]
    BY <2>3, SerializedConfig
  <2>5. ASSUME "fail2ban" \notin PartOf[command[p]]  PROVE file'.fail2ban = last.fail2ban
    <3>1. config[p].fail2ban = last.fail2ban
      BY <2>2, <2>5, FieldsOfConfig
    <3>2. Serialized(last) = last
      BY <1>1, <2>2 DEF IInv, FileIsLast
    <3> QED
      BY <3>1, <3>2, <2>2, <2>3, FailureLimitsAlone
  <2> QED
    BY <2>2, <2>3, <2>4, <2>5, FieldsOfConfig
<1>2. IInv => [\A p \in Procs : Write(p) /\ p \notin overlapped => Keeps(p)]_vars
  BY <1>1
<1> QED
  BY <1>2, Invariance, PTL DEF OnlyOverlapUndoes

--------------------------------------------------------------------------------
(* The configuration store *)

\* Who writes while none of the writers was written under is the only one to write.
LEMMA OneWriter ==
  ASSUME IInv, ~Racing, NEW p \in Procs, pc[p] = "truncated"
  PROVE  /\ p \in Holding \ overlapped
         /\ \A q \in Procs : pc[q] = "truncated" => q = p
         /\ Stored = Serialized(config[p]) /\ file = Blank /\ ~Loads
<1>1. p \in Holding \ overlapped /\ Holding \ {p} \subseteq overlapped
  BY DEF IInv, WritersAlone, Holding, Racing
<1>2. ASSUME NEW q \in Procs, pc[q] = "truncated"  PROVE q = p
  BY <1>1, <1>2 DEF Racing, Holding
<1>3. (CHOOSE q \in Procs : pc[q] = "truncated") = p
  BY <1>2
<1>4. file = Blank
  BY <1>1 DEF IInv, CopiesFresh
<1> QED
  BY <1>1, <1>2, <1>3, <1>4, FileAssumption DEF Stored, Loads

LEMMA NoWriter ==
  ASSUME ~\E p \in Procs : pc[p] = "truncated"
  PROVE  Stored = IF Loads THEN file ELSE Torn
BY DEF Stored

LEMMA StageChanges ==
  ASSUME TypeOK, NEW p \in Procs, NEW place, pc' = [pc EXCEPT ![p] = place]
  PROVE  Stage' = [Stage EXCEPT ![p] = CASE place = "idle" -> "idle" [] place = "truncated" -> "done"
                                         [] OTHER -> "begun"]
BY DEF TypeOK, Stage

\* A step that leaves the file and the writers alone leaves the content alone.
LEMMA StoredSame ==
  ASSUME IInv, ~Racing, UNCHANGED file,
         \A p \in Procs : pc[p] = "truncated" \/ pc'[p] = "truncated" =>
           pc'[p] = pc[p] /\ config'[p] = config[p]
  PROVE  Stored' = Stored
<1>1. CASE \E p \in Procs : pc[p] = "truncated"
  <2>1. PICK p \in Procs : pc[p] = "truncated"
    BY <1>1
  <2>2. pc'[p] = "truncated" /\ config'[p] = config[p]
    BY <2>1
  <2>3. Stored = Serialized(config[p])
    BY <2>1, OneWriter
  <2>4. Stored' = Serialized(config'[p])
    <3>1. \A q \in Procs : pc'[q] = "truncated" => q = p
      BY <2>1, OneWriter
    <3>2. (CHOOSE q \in Procs : pc'[q] = "truncated") = p
      BY <2>2, <3>1
    <3> QED
      BY <2>2, <3>2 DEF Stored
  <2> QED
    BY <2>2, <2>3, <2>4
<1>2. CASE ~\E p \in Procs : pc[p] = "truncated"
  <2>1. ~\E p \in Procs : pc'[p] = "truncated"
    BY <1>2
  <2> QED
    BY <1>2, <2>1 DEF Stored, Loads
<1> QED
  BY <1>1, <1>2

\* A process that ends before it has emptied the file.
LEMMA GivesUp ==
  ASSUME IInv, ~Racing, NEW p \in Procs, pc[p] \notin {"idle", "truncated"}, Exits(p), UNCHANGED file
  PROVE  Store!End(p)
<1>1. Stored' = Stored
  BY StoredSame DEF Exits, IInv, TypeOK
<1>2. Stage' = [Stage EXCEPT ![p] = "idle"] /\ Stage[p] # "idle"
  BY StageChanges DEF Exits, IInv, Stage
<1> QED
  BY <1>1, <1>2 DEF Exits, Store!End, Store!Ends

\* Emptying the file is the moment that a change counts.
LEMMA TruncateChanges ==
  ASSUME IInv, IInv', ~Racing, ~Racing', NEW p \in Procs, Truncate(p)
  PROVE  Store!TakeEffect(p)
<1>1. /\ pc[p] = "executed" /\ pc'[p] = "truncated" /\ p \in Holding
      /\ config' = config /\ command' = command
  BY DEF Truncate, IInv, TypeOK, Holding
<1>2. p \notin overlapped
  BY <1>1 DEF Racing, Truncate
<1>3. last \in Configs /\ file = last
  BY <1>1, <1>2 DEF IInv, CopiesFresh
<1>4. ~\E q \in Procs : pc[q] = "truncated"
  BY <1>3, OneWriter DEF Loads
<1>5. Stored = last
  BY <1>3, <1>4, NoWriter DEF Loads
<1>6. Stored' = Serialized(config[p])
  <2>1. \A q \in Procs : pc'[q] = "truncated" <=> q = p
    BY <1>1, <1>4 DEF Truncate, IInv, TypeOK
  <2>2. (CHOOSE q \in Procs : pc'[q] = "truncated") = p
    BY <2>1
  <2> QED
    BY <1>1, <2>1, <2>2 DEF Stored
<1>7. config[p] \in Configs /\ command[p] \in Commands /\ Stored' \in Configs
  BY <1>1, <1>6, SerializedConfig DEF IInv, CopiesHeld
<1>8. Stage[p] = "begun" /\ Stage' = [Stage EXCEPT ![p] = "done"]
  BY <1>1, StageChanges DEF Truncate, IInv, Stage
<1>9. /\ \A f \in Fields \ (PartOf[command[p]] \cup {"allow_insecure_auth"}) : config[p][f] = last[f]
      /\ command[p] = "Reset" => config[p] = EmptyConfig
      /\ command[p] \notin {"AllowInsecureAuth", "Reset"} =>
           (config[p].allow_insecure_auth <=>
              last.allow_insecure_auth /\ config[p].tls = None /\ HasUsers(config[p]))
  BY <1>1, <1>2 DEF IInv, CopiesFresh, Fields
<1>10. CASE command[p] = "Reset"
  <2>1. Serialized(EmptyConfig) = EmptyConfig
    BY DEF Serialized, EmptyConfig
  <2> QED
    BY <1>6, <1>7, <1>8, <1>9, <1>10, <1>1, <2>1 DEF Store!TakeEffect
<1>11. CASE command[p] # "Reset"
  <2>1. \A f \in Fields \ (PartOf[command[p]] \cup {"allow_insecure_auth"}) : Stored'[f] = last[f]
    <3>1. Serialized(last) = last
      BY <1>3 DEF IInv, FileIsLast
    <3>2. "fail2ban" \notin PartOf[command[p]] => Stored'.fail2ban = last.fail2ban
      BY <1>3, <1>6, <1>7, <1>9, <3>1, FieldsOfConfig, FailureLimitsAlone
    <3> QED
      BY <1>6, <1>7, <1>9, <3>2, SerializedConfig
  <2>2. Store!Flag(command[p], last, Stored')
    <3>1. /\ Stored'.allow_insecure_auth = config[p].allow_insecure_auth
          /\ Stored'.tls = config[p].tls /\ Stored'.users = config[p].users
      BY <1>6, <1>7, SerializedConfig
    <3>2. config[p].allow_insecure_auth => config[p].tls = None /\ DOMAIN config[p].users # {}
      BY <1>1 DEF IInv, CopiesHeld, HasUsers
    <3> QED
      BY <1>9, <1>11, <3>1, <3>2 DEF Store!Flag, Store!InUse, HasUsers
  <2>3. Store!Edits(command[p], Stored, Stored')
    BY <1>3, <1>5, <2>1, <2>2, FieldsOfConfig DEF Store!Edits
  <2> QED
    BY <1>1, <1>3, <1>5, <1>7, <1>8, <1>11, <2>3, FileAssumption DEF Store!TakeEffect
<1> QED
  BY <1>10, <1>11

\* The write itself changes nothing any more, and one that fails, or a process that
\* does not come to it, loses the configuration or cuts its end.
LEMMA WriterEnds ==
  ASSUME IInv, IInv', ~Racing, NEW p \in Procs, pc[p] = "truncated",
         Write(p) \/ WriteFails(p) \/ Quit(p)
  PROVE  Store!End(p) \/ Store!Crash(p)
<1>1. /\ Exits(p) /\ pc'[p] = "idle" /\ \A q \in Procs \ {p} : pc'[q] = pc[q]
  BY DEF Write, WriteFails, Quit, Exits, IInv, TypeOK
<1>2. Stored = Serialized(config[p]) /\ file = Blank /\ ~\E q \in Procs : pc'[q] = "truncated"
  BY <1>1, OneWriter
<1>3. Stored' = IF Loads' THEN file' ELSE Torn
  BY <1>2 DEF Stored
<1>4. Stage[p] = "done" /\ Store!Ends(p)
  BY <1>1, StageChanges DEF Exits, Stage, IInv, Store!Ends
<1>5. CASE Write(p)
  <2>1. file' = Serialized(config[p]) /\ file' \in Configs
    BY <1>2, <1>5, WriteStores
  <2> QED
    BY <1>2, <1>3, <1>4, <2>1 DEF Store!End, Loads
<1>6. CASE WriteFails(p)
  <2>1. \/ file' \notin Configs
        \/ file' \in Configs /\ file' \in CutShort(Stored)
    BY <1>2, <1>6, WriteFailsStores
  <2> QED
    BY <1>3, <1>4, <2>1 DEF Store!Crash, CutShort, Loads
<1>7. CASE Quit(p)
  <2>1. ~Loads'
    BY <1>2, <1>7, FileAssumption DEF Quit, Loads
  <2> QED
    BY <1>3, <1>4, <2>1 DEF Store!Crash
<1> QED
  BY <1>5, <1>6, <1>7

LEMMA StoreStep ==
  IInv /\ IInv' /\ [Next]_vars =>
    [~Racing /\ ~Racing' => Store!Next]_<<Stored, Stage, command>>
<1> SUFFICES ASSUME IInv, IInv', [Next]_vars, ~Racing, ~Racing'
             PROVE  Store!Next \/ UNCHANGED <<Stored, Stage, command>>
  OBVIOUS
<1>1. CASE UNCHANGED vars
  BY <1>1 DEF vars, Stored, Stage, Loads
<1>2. ASSUME NEW p \in Procs, Step(p)  PROVE Store!Next \/ UNCHANGED <<Stored, Stage, command>>
  <2>1. ASSUME NEW cmd \in Commands, Start(p, cmd)  PROVE Store!Next
    <3>1. Stored' = Stored
      BY <2>1, StoredSame DEF Start, IInv, TypeOK, history
    <3>2. Stage[p] = "idle" /\ Stage' = [Stage EXCEPT ![p] = "begun"]
      <4>1. pc[p] = "idle" /\ pc' = [pc EXCEPT ![p] = "started"] /\ TypeOK
        BY <2>1 DEF Start, IInv
      <4>2. Stage' = [Stage EXCEPT ![p] = "begun"]
        BY <4>1 DEF TypeOK, Stage
      <4> QED
        BY <4>1, <4>2 DEF Stage
    <3>3. Store!Begin(p, cmd)
      BY <2>1, <3>1, <3>2 DEF Start, Store!Begin
    <3> QED
      BY <3>3 DEF Store!Next, Commands
  <2>2. CASE Load(p)
    <3>1. Stored' = Stored
      BY <2>2, StoredSame DEF Load, IInv, TypeOK
    <3>2. Stage' = Stage
      BY <2>2 DEF Load, IInv, TypeOK, Stage
    <3> QED
      BY <2>2, <3>1, <3>2 DEF Load
  <2>3. CASE LoadFails(p)
    BY <2>3, GivesUp DEF LoadFails, Store!Next
  <2>4. CASE Runs(p)
    <3>1. PICK c : pc[p] = "loaded" /\ Executed(p, c)
      BY <2>4, CommandsEdit DEF IInv, Execution
    <3>2. Stored' = Stored
      BY <3>1, StoredSame DEF Executed, IInv, TypeOK
    <3>3. Stage' = Stage
      BY <3>1 DEF Executed, IInv, TypeOK, Stage
    <3> QED
      BY <3>1, <3>2, <3>3 DEF Executed
  <2>5. CASE Truncate(p)
    BY <2>5, TruncateChanges DEF Store!Next
  <2>6. CASE Write(p) \/ WriteFails(p) \/ (Quit(p) /\ pc[p] = "truncated")
    BY <2>6, WriterEnds DEF Write, WriteFails, Store!Next
  <2>7. CASE Quit(p) /\ pc[p] # "truncated"
    BY <2>7, GivesUp DEF Quit, Store!Next
  <2> QED
    BY <1>2, <2>1, <2>2, <2>3, <2>4, <2>5, <2>6, <2>7 DEF Step, Runs
<1> QED
  BY <1>1, <1>2 DEF Next

\* As long as no command writes over what another one wrote meanwhile the file is an
\* atomic store: every step of the commands, in any number at once, is one that
\* ConfigStore allows its command at that stage.
THEOREM StoreImplemented == Spec => IsAtomicStore
<1>1. Init => Store!Init
  <2> SUFFICES ASSUME Init PROVE Store!Init
    OBVIOUS
  <2>1. Stored \in Configs \cup {Torn}
    BY FileAssumption DEF Init, Stored, Loads
  <2>2. Stage = [p \in Procs |-> "idle"]
    BY DEF Init, Stage
  <2> QED
    BY <2>1, <2>2 DEF Init, Store!Init
<1> QED
  BY <1>1, Invariance, StoreStep, PTL DEF Spec, IsAtomicStore

--------------------------------------------------------------------------------
(* WindowsService *)

LEMMA ServiceStarts == ServiceInit => ServiceInv
BY DEF ServiceInit, ServiceInv, OnlyOnce, StopWasAsked, DropHasWaited, StoppedIsTrue

\* The environment: the operator, clients, and what fails.
LEMMA EnvironmentKeeps ==
  ASSUME ServiceInv, Stop \/ SessionStarts \/ SessionEnds \/ ProxyFails \/ Fails
  PROVE  ServiceInv'
<1> USE DEF ServiceInv, OnlyOnce, StopWasAsked, DropHasWaited, StoppedIsTrue
<1>1. CASE Stop
  BY <1>1 DEF Stop
<1>2. CASE SessionStarts
  BY <1>2 DEF SessionStarts, told
<1>3. CASE SessionEnds
  BY <1>3 DEF SessionEnds, told
<1>4. CASE ProxyFails
  BY <1>4 DEF ProxyFails, told
<1>5. CASE Fails
  BY <1>5 DEF Fails, told
<1> QED
  BY <1>1, <1>2, <1>3, <1>4, <1>5

\* run_service up to the select, and the tasks of its runtime.
LEMMA RuntimeKeeps ==
  ASSUME ServiceInv,
         Register \/ ReportRunning \/ StartRuntime \/ TaskStarts \/ TaskReceives \/ ProxyStarts
  PROVE  ServiceInv'
<1> USE DEF ServiceInv, OnlyOnce, StopWasAsked, DropHasWaited, StoppedIsTrue
<1>1. CASE Register \/ ReportRunning
  BY <1>1 DEF Register, ReportRunning, told
<1>2. CASE StartRuntime
  BY <1>2 DEF StartRuntime, told
<1>3. CASE TaskStarts
  BY <1>3 DEF TaskStarts, told
<1>4. CASE TaskReceives
  BY <1>4 DEF TaskReceives, told
<1>5. CASE ProxyStarts
  BY <1>5 DEF ProxyStarts, told
<1> QED
  BY <1>1, <1>2, <1>3, <1>4, <1>5

\* From the select to the report.
LEMMA EndKeeps ==
  ASSUME ServiceInv,
         SelectProxy \/ SelectStop \/ CancelSession \/ CancelTask \/ DropEnds \/ ReportStopped
  PROVE  ServiceInv'
<1> USE DEF ServiceInv, OnlyOnce, StopWasAsked, DropHasWaited, StoppedIsTrue
<1>1. CASE SelectProxy
  BY <1>1 DEF SelectProxy, told
<1>2. CASE SelectStop
  BY <1>2 DEF SelectStop, told
<1>3. CASE CancelSession
  BY <1>3 DEF CancelSession, told
<1>4. CASE CancelTask
  BY <1>4 DEF CancelTask, told
<1>5. CASE DropEnds
  BY <1>5 DEF DropEnds, told
<1>6. CASE ReportStopped
  BY <1>6 DEF ReportStopped
<1> QED
  BY <1>1, <1>2, <1>3, <1>4, <1>5, <1>6

LEMMA ServiceStep == ServiceInv /\ [ServiceNext]_serviceVars => ServiceInv'
<1>1. CASE UNCHANGED serviceVars
  BY <1>1 DEF serviceVars, ServiceInv, OnlyOnce, StopWasAsked, DropHasWaited, StoppedIsTrue
<1> QED
  BY <1>1, EnvironmentKeeps, RuntimeKeeps, EndKeeps DEF ServiceNext, Service

\* WindowsService: whenever the service manager is told "Stopped", no session and
\* no task is left, and the exit code is that of the way it ended.
THEOREM StoppedTruly == ServiceSpec => []StoppedIsTrue
<1>1. ServiceInv => StoppedIsTrue
  BY DEF ServiceInv
<1> QED
  BY <1>1, ServiceStarts, ServiceStep, PTL DEF ServiceSpec
================================================================================
