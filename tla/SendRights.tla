------------------------------- MODULE SendRights -------------------------------
(***************************************************************************)
(* What UserList promises: a user is one person however the name is        *)
(* written, has one password, and may send as what was granted since the   *)
(* user was created; and a command that tells no error has done its part.  *)
(***************************************************************************)
CONSTANTS Star, Empty, NoDomain, Lower

VARIABLES
  secret,  \* the password of each user
  rights,  \* the addresses and patterns granted to each user, as they were written
  report   \* the last command and what it told

Fold(address) == [local |-> Lower[address.local], domain |-> Lower[address.domain]]

\* A pattern is any address, an address of one domain, or an address itself.
Covers(pattern, sender) ==
  \/ pattern = sender
  \/ /\ pattern.local = Star
     /\ pattern.domain \notin {Empty, NoDomain}
     /\ pattern.domain \in {Star, sender.domain}

MaySend(user, sender) ==
  user \in DOMAIN rights /\ \E entry \in rights[user] : Covers(Fold(entry), Fold(sender))

Opens(user, password) == user \in DOMAIN secret /\ secret[user] = password

Tells(command, user, argument, ok) ==
  report' = [command |-> command, user |-> user, argument |-> argument, ok |-> ok]

\* A new user may send as itself, and nothing else.
Hire(user, password) ==
  /\ user \notin DOMAIN secret
  /\ secret' = [u \in DOMAIN secret \cup {user} |-> IF u = user THEN password ELSE secret[u]]
  /\ rights' = [u \in DOMAIN rights \cup {user} |-> IF u = user THEN {user} ELSE rights[u]]
  /\ Tells("SetPassword", user, password, TRUE)

ChangePassword(user, password) ==
  /\ user \in DOMAIN secret
  /\ secret' = [secret EXCEPT ![user] = password]
  /\ UNCHANGED rights
  /\ Tells("SetPassword", user, password, TRUE)

Dismiss(user) ==
  /\ user \in DOMAIN secret
  /\ secret' = [u \in DOMAIN secret \ {user} |-> secret[u]]
  /\ rights' = [u \in DOMAIN rights \ {user} |-> rights[u]]
  /\ Tells("Remove", user, Empty, TRUE)

Grant(user, entry) ==
  /\ user \in DOMAIN rights
  /\ rights' = [rights EXCEPT ![user] = @ \cup {entry}]
  /\ UNCHANGED secret
  /\ Tells("AddSender", user, entry, TRUE)

\* What was granted in another spelling stays.
Revoke(user, entry) ==
  /\ user \in DOMAIN rights
  /\ rights' = [rights EXCEPT ![user] = @ \ {entry}]
  /\ UNCHANGED secret
  /\ Tells("RemoveSender", user, entry, TRUE)

\* Only what is asked for a user that is not known may be refused.
Refuse(command, user, argument) ==
  /\ user \notin DOMAIN secret
  /\ UNCHANGED <<secret, rights>>
  /\ Tells(command, user, argument, FALSE)

RightsNext(people, senders, passwords) ==
  \E user \in people :
    \/ \E password \in passwords :
         Hire(user, password) \/ ChangePassword(user, password) \/ Refuse("SetPassword", user, password)
    \/ Dismiss(user) \/ Refuse("Remove", user, Empty)
    \/ \E entry \in senders :
         \/ Grant(user, entry) \/ Refuse("AddSender", user, entry)
         \/ Revoke(user, entry) \/ Refuse("RemoveSender", user, entry)

================================================================================
