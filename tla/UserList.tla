-------------------------------- MODULE UserList --------------------------------
(***************************************************************************)
(* lib/mail_proxy/src/user.rs: the users, their passwords and the          *)
(* addresses they may send as; the 'config auth user' commands edit it.    *)
(*                                                                         *)
(* A name or an address is split at its last '@' in a local part and a     *)
(* domain, each of them a word; Lower is to_lowercase.  Every command is a *)
(* process that loads the list, edits it and saves it again.  A password   *)
(* stands for its hash.                                                    *)
(***************************************************************************)
CONSTANTS
  Words, Lower,           \* words and to_lowercase of each
  Star, Empty, NoDomain,  \* "*", "", and the domain of a name without '@'
  Names,                  \* names that commands use
  Senders,                \* addresses and patterns that commands use
  Passwords,
  FileEntries,            \* the entries of a file written by hand
  NoReport                \* before the first command

Addresses == [local : Words, domain : Words]
Entries == [password : Passwords, sendAs : SUBSET Addresses]

ASSUME LowerAssumption ==
  /\ Lower \in [Words -> Words]
  /\ \A w \in Words : Lower[Lower[w]] = Lower[w]
ASSUME SpecialAssumption ==
  /\ {Star, Empty, NoDomain} \subseteq Words
  /\ Star \notin {Empty, NoDomain} /\ Empty # NoDomain
  /\ \A w \in {Star, Empty, NoDomain} : Lower[w] = w
ASSUME UserListAssumption ==
  /\ Names \subseteq Addresses
  /\ Senders \subseteq {a \in Addresses : a.domain # NoDomain}  \* mail_address_string
  /\ FileEntries \subseteq Entries

VARIABLES
  users,  \* UserList::users
  report  \* the last command and whether it printed an error

vars == <<users, report>>

ToLowercase(a) == [local |-> Lower[a.local], domain |-> Lower[a.domain]]
People == {ToLowercase(n) : n \in Names}

\* Deserialize: of names that differ in case alone, one stays, whichever the
\* map yields last.
Loads(file) ==
  {list \in [{ToLowercase(n) : n \in DOMAIN file} -> {file[n] : n \in DOMAIN file}] :
     \A u \in DOMAIN list : \E n \in DOMAIN file : ToLowercase(n) = u /\ list[u] = file[n]}

\* Fault, for a mutant of Insert: a known user is made anew.
InsertAnew(list, u, entry) ==
  [v \in DOMAIN list \cup {u} |-> IF v = u THEN entry ELSE list[v]]

\* Add the entry of a user that may send as itself, or set the password of
\* one that exists.
Insert(list, u, entry) ==
  [v \in DOMAIN list \cup {u} |->
     IF v # u THEN list[v]
     ELSE IF u \in DOMAIN list THEN [list[u] EXCEPT !.password = entry.password]
     ELSE entry]

SetUserPassword(list, name, password) ==
  LET u == ToLowercase(name) IN
  Insert(list, u, [password |-> password, sendAs |-> {u}])

\* An unknown user is an error, and the list is saved as it was.
RemoveUser(list, name) == [u \in DOMAIN list \ {ToLowercase(name)} |-> list[u]]

ChangeSenders(list, name, added, removed) ==
  [u \in DOMAIN list |->
     IF u = ToLowercase(name) THEN [list[u] EXCEPT !.sendAs = (@ \cup added) \ removed] ELSE list[u]]

AddUserSendAs(list, name, sender) == ChangeSenders(list, name, {sender}, {})

\* HashSet::remove: the entry as it is written.
RemoveUserSendAs(list, name, sender) == ChangeSenders(list, name, {}, {sender})

VerifyUserPassword(name, password) ==
  LET u == ToLowercase(name) IN u \in DOMAIN users /\ users[u].password = password

\* Fault, for a mutant of Matches: the entry is compared as it is written.
MatchesAsWritten(entry, sender) ==
  \/ entry.local = Star /\ entry.domain = Star
  \/ entry.local = Star /\ entry.domain \notin {Empty, NoDomain} /\ entry.domain = Lower[sender.domain]
  \/ entry = ToLowercase(sender)

\* The three ways in which verify_user_can_send_as lets an entry match.
Matches(entry, sender) ==
  LET e == ToLowercase(entry)
      s == ToLowercase(sender) IN
  \/ e.local = Star /\ e.domain = Star
  \/ e.local = Star /\ e.domain \notin {Empty, NoDomain} /\ e.domain = s.domain
  \/ e = s

VerifyUserCanSendAs(name, sender) ==
  LET u == ToLowercase(name) IN
  u \in DOMAIN users /\ \E entry \in users[u].sendAs : Matches(entry, sender)

--------------------------------------------------------------------------------
\* The list as it was first loaded, from a file that may be written by hand.
Init ==
  /\ \E names \in SUBSET Names : \E file \in [names -> FileEntries] : users \in Loads(file)
  /\ report = NoReport

\* A command with the user and the sender or password that it was given.
Reports(command, name, argument, ok) ==
  report' = [command |-> command, user |-> ToLowercase(name), argument |-> argument, ok |-> ok]

\* A new user without '@' in its name is only accepted with --force.
SetPassword(name, password) ==
  \E list \in Loads(users) :
    \/ /\ users' = SetUserPassword(list, name, password)
       /\ Reports("SetPassword", name, password, TRUE)
    \/ /\ name.domain = NoDomain /\ ToLowercase(name) \notin DOMAIN list
       /\ users' = list
       /\ Reports("SetPassword", name, password, FALSE)

Remove(name) ==
  \E list \in Loads(users) :
    /\ users' = RemoveUser(list, name)
    /\ Reports("Remove", name, Empty, ToLowercase(name) \in DOMAIN list)

AddSender(name, sender) ==
  \E list \in Loads(users) :
    /\ users' = AddUserSendAs(list, name, sender)
    /\ Reports("AddSender", name, sender, ToLowercase(name) \in DOMAIN list)

RemoveSender(name, sender) ==
  \E list \in Loads(users) :
    /\ users' = RemoveUserSendAs(list, name, sender)
    /\ Reports("RemoveSender", name, sender, ToLowercase(name) \in DOMAIN list)

Next ==
  \E name \in Names :
    \/ \E password \in Passwords : SetPassword(name, password)
    \/ Remove(name)
    \/ \E sender \in Senders : AddSender(name, sender) \/ RemoveSender(name, sender)

Spec == Init /\ [][Next]_vars

--------------------------------------------------------------------------------
(* Properties *)

\* The type of the list; its names are in lower case, so that look-ups by a
\* folded name reach every user.
TypeOK ==
  /\ DOMAIN users \subseteq People
  /\ \A u \in DOMAIN users : users[u] \in Entries
  /\ report = NoReport \/ report \in
       [command : {"SetPassword", "Remove", "AddSender", "RemoveSender"}, user : People,
        argument : Senders \cup Passwords \cup {Empty}, ok : BOOLEAN]

secret == [u \in DOMAIN users |-> users[u].password]
rights == [u \in DOMAIN users |-> users[u].sendAs]

Rights == INSTANCE SendRights

\* What is checked is what was granted, however name, sender and entry are
\* written: login and sender checks are those of SendRights, and they reach
\* everyone on the list, whatever the spelling in the file was.
ChecksAgree ==
  /\ \A u \in DOMAIN users : VerifyUserPassword(u, users[u].password)
  /\ \A name \in Names :
       LET u == ToLowercase(name) IN
       /\ \A password \in Passwords : VerifyUserPassword(name, password) <=> Rights!Opens(u, password)
       /\ \A sender \in Senders :
            VerifyUserCanSendAs(name, sender) <=> Rights!MaySend(u, sender)

\* Every command has the effect it reports, and no other, through any number of
\* loads and saves and in any spelling of the user (SendRights): a password change
\* leaves the permissions, a user made again starts with its own address alone,
\* and what is reported as an error changes nothing.
ImplementsRights ==
  [][Rights!RightsNext(People, Senders, Passwords)]_<<secret, rights, report>>

\* src/lib/mail_proxy/src/user.rs:178, "Remove an entry from a users allowed
\* senders list": once a removal has been reported without an error, the address
\* is not on the user's list any more, in whichever case.
RemovalTakesEffect ==
  report # NoReport /\ report.command = "RemoveSender" /\ report.ok =>
    ToLowercase(report.argument) \notin {ToLowercase(e) : e \in rights[report.user]}
================================================================================
