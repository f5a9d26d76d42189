----------------------------- MODULE UserListProofs -----------------------------
(* The theorems about UserList, for any names, addresses and spellings.       *)
EXTENDS UserList, TLAPS

\* Folding a name that is folded changes nothing.
LEMMA FoldedOnce ==
  ASSUME NEW a \in Addresses
  PROVE  /\ ToLowercase(a) \in Addresses
         /\ ToLowercase(ToLowercase(a)) = ToLowercase(a)
BY LowerAssumption DEF Addresses, ToLowercase

LEMMA PeopleAreFolded ==
  ASSUME NEW u \in People
  PROVE  u \in Addresses /\ ToLowercase(u) = u
BY FoldedOnce, UserListAssumption DEF People

LEMMA SendersAreAddresses ==
  ASSUME NEW s \in Senders
  PROVE  s \in Addresses
BY UserListAssumption

\* Saving and loading keeps the list.
LEMMA LoadKeeps ==
  ASSUME NEW file, DOMAIN file \subseteq People, NEW list \in Loads(file)
  PROVE  DOMAIN list = DOMAIN file /\ \A u \in DOMAIN file : list[u] = file[u]
<1>1. \A n \in DOMAIN file : ToLowercase(n) = n
  BY PeopleAreFolded
<1>2. DOMAIN list = {ToLowercase(n) : n \in DOMAIN file}
  BY DEF Loads
<1>3. DOMAIN list = DOMAIN file
  BY <1>1, <1>2
<1>4. \A u \in DOMAIN list : \E n \in DOMAIN file : ToLowercase(n) = u /\ list[u] = file[n]
  BY DEF Loads
<1> QED
  BY <1>1, <1>3, <1>4

\* The list that Init starts from, of whichever file.
LEMMA LoadType ==
  ASSUME NEW names \in SUBSET Names, NEW file \in [names -> FileEntries], NEW list \in Loads(file)
  PROVE  DOMAIN list \subseteq People /\ \A u \in DOMAIN list : list[u] \in Entries
<1>1. DOMAIN list = {ToLowercase(n) : n \in names}
  BY DEF Loads
<1>2. \A u \in DOMAIN list : \E n \in names : list[u] = file[n]
  BY DEF Loads
<1>3. \A n \in names : file[n] \in Entries
  BY UserListAssumption
<1> QED
  BY <1>1, <1>2, <1>3 DEF People

\* What a command leaves and tells, written without the load.
LEMMA SetPasswordEffect ==
  ASSUME TypeOK, NEW name \in Names, NEW password \in Passwords, SetPassword(name, password)
  PROVE  LET u == ToLowercase(name) IN
         \/ /\ DOMAIN users' = DOMAIN users \cup {u}
            /\ \A v \in DOMAIN users : v # u => users'[v] = users[v]
            /\ users'[u] = IF u \in DOMAIN users THEN [users[u] EXCEPT !.password = password]
                           ELSE [password |-> password, sendAs |-> {u}]
            /\ Reports("SetPassword", name, password, TRUE)
         \/ /\ u \notin DOMAIN users
            /\ DOMAIN users' = DOMAIN users /\ \A v \in DOMAIN users : users'[v] = users[v]
            /\ Reports("SetPassword", name, password, FALSE)
<1> DEFINE u == ToLowercase(name)
<1>1. PICK list \in Loads(users) :
        \/ /\ users' = SetUserPassword(list, name, password)
           /\ Reports("SetPassword", name, password, TRUE)
        \/ /\ u \notin DOMAIN list /\ users' = list
           /\ Reports("SetPassword", name, password, FALSE)
  BY DEF SetPassword
<1>2. DOMAIN list = DOMAIN users /\ \A v \in DOMAIN users : list[v] = users[v]
  BY LoadKeeps DEF TypeOK
<1>3. CASE users' = SetUserPassword(list, name, password) /\ Reports("SetPassword", name, password, TRUE)
  BY <1>2, <1>3 DEF SetUserPassword, Insert
<1>4. CASE u \notin DOMAIN list /\ users' = list /\ Reports("SetPassword", name, password, FALSE)
  BY <1>2, <1>4
<1> QED
  BY <1>1, <1>3, <1>4

LEMMA RemoveEffect ==
  ASSUME TypeOK, NEW name \in Names, Remove(name)
  PROVE  /\ DOMAIN users' = DOMAIN users \ {ToLowercase(name)}
         /\ \A v \in DOMAIN users' : users'[v] = users[v]
         /\ Reports("Remove", name, Empty, ToLowercase(name) \in DOMAIN users)
<1>1. PICK list \in Loads(users) :
        /\ users' = RemoveUser(list, name)
        /\ Reports("Remove", name, Empty, ToLowercase(name) \in DOMAIN list)
  BY DEF Remove
<1>2. DOMAIN list = DOMAIN users /\ \A v \in DOMAIN users : list[v] = users[v]
  BY LoadKeeps DEF TypeOK
<1> QED
  BY <1>1, <1>2 DEF RemoveUser

LEMMA AddSenderEffect ==
  ASSUME TypeOK, NEW name \in Names, NEW sender \in Senders, AddSender(name, sender)
  PROVE  LET u == ToLowercase(name) IN
         /\ DOMAIN users' = DOMAIN users
         /\ \A v \in DOMAIN users : v # u => users'[v] = users[v]
         /\ u \in DOMAIN users => users'[u] = [users[u] EXCEPT !.sendAs = @ \cup {sender}]
         /\ Reports("AddSender", name, sender, u \in DOMAIN users)
<1>1. PICK list \in Loads(users) :
        /\ users' = AddUserSendAs(list, name, sender)
        /\ Reports("AddSender", name, sender, ToLowercase(name) \in DOMAIN list)
  BY DEF AddSender
<1>2. DOMAIN list = DOMAIN users /\ \A v \in DOMAIN users : list[v] = users[v]
  BY LoadKeeps DEF TypeOK
<1> QED
  BY <1>1, <1>2 DEF AddUserSendAs, ChangeSenders

LEMMA RemoveSenderEffect ==
  ASSUME TypeOK, NEW name \in Names, NEW sender \in Senders, RemoveSender(name, sender)
  PROVE  LET u == ToLowercase(name) IN
         /\ DOMAIN users' = DOMAIN users
         /\ \A v \in DOMAIN users : v # u => users'[v] = users[v]
         /\ u \in DOMAIN users => users'[u] = [users[u] EXCEPT !.sendAs = @ \ {sender}]
         /\ Reports("RemoveSender", name, sender, u \in DOMAIN users)
<1>1. PICK list \in Loads(users) :
        /\ users' = RemoveUserSendAs(list, name, sender)
        /\ Reports("RemoveSender", name, sender, ToLowercase(name) \in DOMAIN list)
  BY DEF RemoveSender
<1>2. DOMAIN list = DOMAIN users /\ \A v \in DOMAIN users : list[v] = users[v]
  BY LoadKeeps DEF TypeOK
<1> QED
  BY <1>1, <1>2 DEF RemoveUserSendAs, ChangeSenders

LEMMA ReportType ==
  ASSUME NEW name \in Names, NEW ok \in BOOLEAN
  PROVE  LET Told == report' \in
               [command : {"SetPassword", "Remove", "AddSender", "RemoveSender"}, user : People,
                argument : Senders \cup Passwords \cup {Empty}, ok : BOOLEAN]
         IN /\ \A password \in Passwords : Reports("SetPassword", name, password, ok) => Told
            /\ Reports("Remove", name, Empty, ok) => Told
            /\ \A sender \in Senders :
                 Reports("AddSender", name, sender, ok) \/ Reports("RemoveSender", name, sender, ok) => Told
BY DEF Reports, People

LEMMA TypeStep == TypeOK /\ [Next]_vars => TypeOK'
<1> SUFFICES ASSUME TypeOK, [Next]_vars  PROVE TypeOK'
  OBVIOUS
<1>1. ASSUME NEW name \in Names, NEW password \in Passwords, SetPassword(name, password)
      PROVE  TypeOK'
  <2> DEFINE u == ToLowercase(name)
  <2>1. u \in People /\ u \in Addresses
    BY FoldedOnce, UserListAssumption DEF People
  <2>2. CASE /\ DOMAIN users' = DOMAIN users \cup {u}
             /\ \A v \in DOMAIN users : v # u => users'[v] = users[v]
             /\ users'[u] = IF u \in DOMAIN users THEN [users[u] EXCEPT !.password = password]
                            ELSE [password |-> password, sendAs |-> {u}]
             /\ Reports("SetPassword", name, password, TRUE)
    <3> HIDE DEF u
    <3>1. users'[u] \in Entries
      BY <2>1, <2>2 DEF TypeOK, Entries
    <3> QED
      BY <2>1, <2>2, <3>1, ReportType DEF TypeOK
  <2>3. CASE /\ DOMAIN users' = DOMAIN users /\ \A v \in DOMAIN users : users'[v] = users[v]
             /\ Reports("SetPassword", name, password, FALSE)
    BY <2>3, ReportType DEF TypeOK
  <2> QED
    BY <1>1, <2>2, <2>3, SetPasswordEffect
<1>2. ASSUME NEW name \in Names, Remove(name)
      PROVE  TypeOK'
  <2> DEFINE known == ToLowercase(name) \in DOMAIN users
  <2>1. known \in BOOLEAN
    OBVIOUS
  <2>2. /\ DOMAIN users' \subseteq DOMAIN users
        /\ \A v \in DOMAIN users' : users'[v] = users[v]
        /\ Reports("Remove", name, Empty, known)
    BY <1>2, RemoveEffect
  <2> HIDE DEF known
  <2>3. report' \in
          [command : {"SetPassword", "Remove", "AddSender", "RemoveSender"}, user : People,
           argument : Senders \cup Passwords \cup {Empty}, ok : BOOLEAN]
    BY <2>1, <2>2, ReportType
  <2> QED
    BY <2>2, <2>3 DEF TypeOK
<1>3. ASSUME NEW name \in Names, NEW sender \in Senders,
             AddSender(name, sender) \/ RemoveSender(name, sender)
      PROVE  TypeOK'
  <2> DEFINE u == ToLowercase(name)
             known == u \in DOMAIN users
  <2>1. PICK rest \in {users[u].sendAs \cup {sender}, users[u].sendAs \ {sender}} :
          /\ DOMAIN users' = DOMAIN users
          /\ \A v \in DOMAIN users : v # u => users'[v] = users[v]
          /\ known => users'[u] = [users[u] EXCEPT !.sendAs = rest]
          /\ Reports("AddSender", name, sender, known) \/ Reports("RemoveSender", name, sender, known)
    BY <1>3, AddSenderEffect, RemoveSenderEffect
  <2>2. sender \in Addresses
    BY SendersAreAddresses
  <2>3. report' \in
          [command : {"SetPassword", "Remove", "AddSender", "RemoveSender"}, user : People,
           argument : Senders \cup Passwords \cup {Empty}, ok : BOOLEAN]
    <3>1. known \in BOOLEAN
      OBVIOUS
    <3> HIDE DEF known
    <3> QED
      BY <2>1, <3>1, ReportType
  <2> HIDE DEF u
  <2>4. u \in DOMAIN users => users'[u] \in Entries
    BY <2>1, <2>2 DEF TypeOK, Entries
  <2> QED
    BY <2>1, <2>3, <2>4 DEF TypeOK
<1>4. CASE UNCHANGED vars
  BY <1>4 DEF vars, TypeOK
<1> QED
  BY <1>1, <1>2, <1>3, <1>4 DEF Next

\* UserList: the list keeps its type; every name in it is folded.
THEOREM TypeCorrect == Spec => []TypeOK
<1>1. Init => TypeOK
  <2> SUFFICES ASSUME Init  PROVE TypeOK
    OBVIOUS
  <2>1. PICK names \in SUBSET Names : \E file \in [names -> FileEntries] : users \in Loads(file)
    BY DEF Init
  <2> QED
    BY <2>1, LoadType DEF Init, TypeOK
<1> QED
  BY <1>1, TypeStep, PTL DEF Spec
--------------------------------------------------------------------------------
(* Checks *)

\* A folded entry covers the same senders.
LEMMA MatchesIsCovers ==
  ASSUME NEW entry \in Addresses, NEW sender \in Addresses
  PROVE  Matches(entry, sender) <=> Rights!Covers(Rights!Fold(entry), Rights!Fold(sender))
<1> DEFINE e == ToLowercase(entry)
           s == ToLowercase(sender)
<1>1. ToLowercase(e) = e /\ ToLowercase(s) = s
  BY FoldedOnce
<1>2. Matches(entry, sender) <=>
        \/ e.local = Star /\ e.domain = Star
        \/ e.local = Star /\ e.domain \notin {Empty, NoDomain} /\ e.domain = s.domain
        \/ e = s
  BY DEF Matches
<1>3. Star \notin {Empty, NoDomain} /\ Rights!Fold(entry) = e /\ Rights!Fold(sender) = s
  BY SpecialAssumption DEF Rights!Fold, ToLowercase
<1> HIDE DEF e, s
<1>4. Rights!Covers(e, s) <=>
        \/ e = s
        \/ e.local = Star /\ e.domain \notin {Empty, NoDomain} /\ e.domain \in {Star, s.domain}
  BY DEF Rights!Covers
<1> QED
  BY <1>2, <1>3, <1>4 DEF e, s

LEMMA CheckStep == TypeOK => ChecksAgree
<1> SUFFICES ASSUME TypeOK  PROVE ChecksAgree
  OBVIOUS
<1>1. ASSUME NEW u \in DOMAIN users
      PROVE  VerifyUserPassword(u, users[u].password)
  BY PeopleAreFolded DEF TypeOK, VerifyUserPassword
<1>2. ASSUME NEW name \in Names, NEW password \in Passwords
      PROVE  VerifyUserPassword(name, password) <=> Rights!Opens(ToLowercase(name), password)
  BY DEF VerifyUserPassword, Rights!Opens, secret
<1>3. ASSUME NEW name \in Names, NEW sender \in Senders
      PROVE  VerifyUserCanSendAs(name, sender) <=> Rights!MaySend(ToLowercase(name), sender)
  <2> DEFINE u == ToLowercase(name)
  <2>1. CASE u \in DOMAIN users
    <3>1. \A entry \in users[u].sendAs :
            Matches(entry, sender) <=> Rights!Covers(Rights!Fold(entry), Rights!Fold(sender))
      BY <2>1, MatchesIsCovers, SendersAreAddresses DEF TypeOK, Entries
    <3>2. u \in DOMAIN rights /\ rights[u] = users[u].sendAs
      BY <2>1 DEF rights
    <3>3. VerifyUserCanSendAs(name, sender) <=> \E entry \in users[u].sendAs : Matches(entry, sender)
      BY <2>1 DEF VerifyUserCanSendAs
    <3>4. Rights!MaySend(u, sender) <=>
            \E entry \in rights[u] : Rights!Covers(Rights!Fold(entry), Rights!Fold(sender))
      BY <3>2 DEF Rights!MaySend
    <3>5. (\E entry \in users[u].sendAs : Matches(entry, sender)) <=>
            \E entry \in rights[u] : Rights!Covers(Rights!Fold(entry), Rights!Fold(sender))
      BY <3>1, <3>2
    <3> QED
      BY <3>3, <3>4, <3>5
  <2>2. CASE u \notin DOMAIN users
    BY <2>2 DEF VerifyUserCanSendAs, Rights!MaySend, rights
  <2> QED
    BY <2>1, <2>2
<1> QED
  BY <1>1, <1>2, <1>3 DEF ChecksAgree

\* UserList: passwords and senders are checked as SendRights grants them, in
\* any spelling of name, entry and sender.
THEOREM ChecksCorrect == Spec => []ChecksAgree
BY CheckStep, TypeCorrect, PTL

--------------------------------------------------------------------------------
(* Refinement *)

LEMMA ReportTells ==
  ASSUME NEW command, NEW name, NEW argument, NEW ok, Reports(command, name, argument, ok)
  PROVE  Rights!Tells(command, ToLowercase(name), argument, ok)
BY DEF Reports, Rights!Tells

LEMMA SetPasswordRights ==
  ASSUME TypeOK, NEW name \in Names, NEW password \in Passwords, SetPassword(name, password)
  PROVE  LET u == ToLowercase(name) IN
         \/ Rights!Hire(u, password) \/ Rights!ChangePassword(u, password)
         \/ Rights!Refuse("SetPassword", u, password)
<1> DEFINE u == ToLowercase(name)
           Set == /\ DOMAIN users' = DOMAIN users \cup {u}
                  /\ \A v \in DOMAIN users : v # u => users'[v] = users[v]
                  /\ users'[u] = IF u \in DOMAIN users THEN [users[u] EXCEPT !.password = password]
                                 ELSE [password |-> password, sendAs |-> {u}]
                  /\ Rights!Tells("SetPassword", u, password, TRUE)
           Refused == /\ u \notin DOMAIN users
                      /\ DOMAIN users' = DOMAIN users /\ \A v \in DOMAIN users : users'[v] = users[v]
                      /\ Rights!Tells("SetPassword", u, password, FALSE)
<1>1. Set \/ Refused
  BY SetPasswordEffect, ReportTells
<1> HIDE DEF u
<1>2. CASE Set /\ u \in DOMAIN users
  <2>1. users[u] \in Entries /\ DOMAIN users' = DOMAIN users
    BY <1>2 DEF TypeOK
  <2>2. users'[u].password = password /\ users'[u].sendAs = users[u].sendAs
    BY <1>2, <2>1 DEF Entries
  <2>3. secret' = [secret EXCEPT ![u] = password]
    BY <1>2, <2>1, <2>2 DEF secret
  <2>4. rights' = rights
    <3>1. \A v \in DOMAIN users : users'[v].sendAs = users[v].sendAs
      BY <1>2, <2>2
    <3> QED
      BY <2>1, <3>1 DEF rights
  <2>5. Rights!ChangePassword(u, password)
    BY <1>2, <2>3, <2>4 DEF Rights!ChangePassword, secret
  <2> QED
    BY <2>5 DEF u
<1>3. CASE Set /\ u \notin DOMAIN users
  <2>1. users'[u].password = password /\ users'[u].sendAs = {u}
    BY <1>3
  <2>2. secret' = [v \in DOMAIN secret \cup {u} |-> IF v = u THEN password ELSE secret[v]]
    BY <1>3, <2>1 DEF secret
  <2>3. rights' = [v \in DOMAIN rights \cup {u} |-> IF v = u THEN {u} ELSE rights[v]]
    BY <1>3, <2>1 DEF rights
  <2>4. Rights!Hire(u, password)
    BY <1>3, <2>2, <2>3 DEF Rights!Hire, secret
  <2> QED
    BY <2>4 DEF u
<1>4. CASE Refused
  <2>1. secret' = secret /\ rights' = rights
    BY <1>4 DEF secret, rights
  <2>2. Rights!Refuse("SetPassword", u, password)
    BY <1>4, <2>1 DEF Rights!Refuse, secret
  <2> QED
    BY <2>2 DEF u
<1> QED
  BY <1>1, <1>2, <1>3, <1>4

LEMMA RemoveRights ==
  ASSUME TypeOK, NEW name \in Names, Remove(name)
  PROVE  LET u == ToLowercase(name) IN
         Rights!Dismiss(u) \/ Rights!Refuse("Remove", u, Empty)
<1> DEFINE u == ToLowercase(name)
<1>1. /\ DOMAIN users' = DOMAIN users \ {u} /\ \A v \in DOMAIN users' : users'[v] = users[v]
      /\ Rights!Tells("Remove", u, Empty, u \in DOMAIN users)
  BY RemoveEffect, ReportTells
<1> HIDE DEF u
<1>2. secret' = [v \in DOMAIN secret \ {u} |-> secret[v]]
  BY <1>1 DEF secret
<1>3. rights' = [v \in DOMAIN rights \ {u} |-> rights[v]]
  BY <1>1 DEF rights
<1>4. CASE u \in DOMAIN users
  <2>1. Rights!Tells("Remove", u, Empty, TRUE)
    BY <1>1, <1>4 DEF Rights!Tells
  <2> QED
    BY <1>2, <1>3, <1>4, <2>1 DEF Rights!Dismiss, secret, u
<1>5. CASE u \notin DOMAIN users
  <2>1. DOMAIN secret \ {u} = DOMAIN secret /\ DOMAIN rights \ {u} = DOMAIN rights
    BY <1>5 DEF secret, rights
  <2>2. secret' = secret /\ rights' = rights
    BY <1>2, <1>3, <2>1 DEF secret, rights
  <2>3. Rights!Tells("Remove", u, Empty, FALSE)
    <3>1. (u \in DOMAIN users) = FALSE
      BY <1>5
    <3> QED
      BY <1>1, <3>1, Zenon
  <2> QED
    BY <1>5, <2>2, <2>3 DEF Rights!Refuse, secret, u
<1> QED
  BY <1>4, <1>5

\* A change of one user's entries, whichever it is.
LEMMA SendersRights ==
  ASSUME TypeOK, NEW u, NEW entries,
         DOMAIN users' = DOMAIN users,
         \A v \in DOMAIN users : v # u => users'[v] = users[v],
         u \in DOMAIN users => users'[u] = [users[u] EXCEPT !.sendAs = entries]
  PROVE  /\ secret' = secret
         /\ u \in DOMAIN users => rights' = [rights EXCEPT ![u] = entries]
         /\ u \notin DOMAIN users => rights' = rights
<1>1. ASSUME u \in DOMAIN users
      PROVE  users'[u].password = users[u].password /\ users'[u].sendAs = entries
  BY <1>1 DEF TypeOK, Entries
<1>2. secret' = secret
  BY <1>1 DEF secret
<1>3. ASSUME u \in DOMAIN users
      PROVE  rights' = [rights EXCEPT ![u] = entries]
  BY <1>1, <1>3 DEF rights
<1>4. ASSUME u \notin DOMAIN users
      PROVE  rights' = rights
  BY <1>4 DEF rights
<1> QED
  BY <1>2, <1>3, <1>4

LEMMA AddSenderRights ==
  ASSUME TypeOK, NEW name \in Names, NEW sender \in Senders, AddSender(name, sender)
  PROVE  LET u == ToLowercase(name) IN
         Rights!Grant(u, sender) \/ Rights!Refuse("AddSender", u, sender)
<1> DEFINE u == ToLowercase(name)
           entries == users[u].sendAs \cup {sender}
<1>1. /\ DOMAIN users' = DOMAIN users
      /\ \A v \in DOMAIN users : v # u => users'[v] = users[v]
      /\ u \in DOMAIN users => users'[u] = [users[u] EXCEPT !.sendAs = entries]
      /\ Rights!Tells("AddSender", u, sender, u \in DOMAIN users)
  BY AddSenderEffect, ReportTells
<1> HIDE DEF u
<1>2. /\ secret' = secret
      /\ u \in DOMAIN users => rights' = [rights EXCEPT ![u] = entries]
      /\ u \notin DOMAIN users => rights' = rights
  BY <1>1, SendersRights
<1>3. CASE u \in DOMAIN users
  <2>1. DOMAIN rights = DOMAIN users /\ rights[u] = users[u].sendAs
    BY <1>3 DEF rights
  <2>2. Rights!Tells("AddSender", u, sender, TRUE)
    BY <1>1, <1>3 DEF Rights!Tells
  <2> QED
    BY <1>2, <1>3, <2>1, <2>2 DEF Rights!Grant, u
<1>4. CASE u \notin DOMAIN users
  <2>1. Rights!Tells("AddSender", u, sender, FALSE)
    <3>1. (u \in DOMAIN users) = FALSE
      BY <1>4
    <3> QED
      BY <1>1, <3>1, Zenon
  <2> QED
    BY <1>2, <1>4, <2>1 DEF Rights!Refuse, secret, u
<1> QED
  BY <1>3, <1>4

LEMMA RemoveSenderRights ==
  ASSUME TypeOK, NEW name \in Names, NEW sender \in Senders, RemoveSender(name, sender)
  PROVE  LET u == ToLowercase(name) IN
         Rights!Revoke(u, sender) \/ Rights!Refuse("RemoveSender", u, sender)
<1> DEFINE u == ToLowercase(name)
           entries == users[u].sendAs \ {sender}
<1>1. /\ DOMAIN users' = DOMAIN users
      /\ \A v \in DOMAIN users : v # u => users'[v] = users[v]
      /\ u \in DOMAIN users => users'[u] = [users[u] EXCEPT !.sendAs = entries]
      /\ Rights!Tells("RemoveSender", u, sender, u \in DOMAIN users)
  BY RemoveSenderEffect, ReportTells
<1> HIDE DEF u
<1>2. /\ secret' = secret
      /\ u \in DOMAIN users => rights' = [rights EXCEPT ![u] = entries]
      /\ u \notin DOMAIN users => rights' = rights
  BY <1>1, SendersRights
<1>3. CASE u \in DOMAIN users
  <2>1. DOMAIN rights = DOMAIN users /\ rights[u] = users[u].sendAs
    BY <1>3 DEF rights
  <2>2. Rights!Tells("RemoveSender", u, sender, TRUE)
    BY <1>1, <1>3 DEF Rights!Tells
  <2> QED
    BY <1>2, <1>3, <2>1, <2>2 DEF Rights!Revoke, u
<1>4. CASE u \notin DOMAIN users
  <2>1. Rights!Tells("RemoveSender", u, sender, FALSE)
    <3>1. (u \in DOMAIN users) = FALSE
      BY <1>4
    <3> QED
      BY <1>1, <3>1, Zenon
  <2> QED
    BY <1>2, <1>4, <2>1 DEF Rights!Refuse, secret, u
<1> QED
  BY <1>3, <1>4

\* UserList: each command changes passwords and permissions as it reports, and as
\* SendRights says, for any users and through any number of loads and saves.
THEOREM RightsImplemented == Spec => ImplementsRights
<1>1. TypeOK /\ [Next]_vars => [Rights!RightsNext(People, Senders, Passwords)]_<<secret, rights, report>>
  <2> SUFFICES ASSUME TypeOK, [Next]_vars
               PROVE  \/ Rights!RightsNext(People, Senders, Passwords)
                      \/ UNCHANGED <<secret, rights, report>>
    OBVIOUS
  <2>1. \A name \in Names : ToLowercase(name) \in People
    BY DEF People
  <2>2. ASSUME NEW name \in Names, NEW password \in Passwords, SetPassword(name, password)
        PROVE  Rights!RightsNext(People, Senders, Passwords)
    BY <2>1, <2>2, SetPasswordRights DEF Rights!RightsNext
  <2>3. ASSUME NEW name \in Names, Remove(name)
        PROVE  Rights!RightsNext(People, Senders, Passwords)
    BY <2>1, <2>3, RemoveRights DEF Rights!RightsNext
  <2>4. ASSUME NEW name \in Names, NEW sender \in Senders, AddSender(name, sender)
        PROVE  Rights!RightsNext(People, Senders, Passwords)
    BY <2>1, <2>4, AddSenderRights DEF Rights!RightsNext
  <2>5. ASSUME NEW name \in Names, NEW sender \in Senders, RemoveSender(name, sender)
        PROVE  Rights!RightsNext(People, Senders, Passwords)
    BY <2>1, <2>5, RemoveSenderRights DEF Rights!RightsNext
  <2>6. CASE UNCHANGED vars
    BY <2>6 DEF vars, secret, rights
  <2> QED
    BY <2>2, <2>3, <2>4, <2>5, <2>6 DEF Next
<1> QED
  BY <1>1, TypeCorrect, PTL DEF Spec, ImplementsRights
================================================================================
