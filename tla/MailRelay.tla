------------------------------- MODULE MailRelay -------------------------------
(***************************************************************************)
(* What PostGraph promises of a session's mails: Graph takes each at most  *)
(* once, as the client meant it and only if the client may send as its     *)
(* sender, and the client is told 250 only for a mail that Graph took.     *)
(* A mail may be taken after the session gave up on it.                    *)
(***************************************************************************)
EXTENDS Naturals, Sequences

CONSTANTS
  SendAs,  \* pairs of a user and an address the user may send as
  NoUser   \* the user of a client that has not logged in

VARIABLES
  loginRequired,  \* whether clients have to log in
  mails,          \* the mails the client completed: sender, data, user
  delivered,      \* what Graph took, in that order: mail number, sender, data
  confirmed       \* the numbers of the mails the client was told 250 for

relayVars == <<loginRequired, mails, delivered, confirmed>>

Permitted(m) ==
  /\ loginRequired => m.user # NoUser
  /\ m.user # NoUser => <<m.user, m.from>> \in SendAs

Copy(n) == [n |-> n, from |-> mails[n].from, data |-> mails[n].data]
IsDelivered(n) == \E i \in DOMAIN delivered : delivered[i].n = n

RelayInit == mails = <<>> /\ delivered = <<>> /\ confirmed = {}

Submit ==
  /\ Len(mails') = Len(mails) + 1
  /\ SubSeq(mails', 1, Len(mails)) = mails
  /\ UNCHANGED <<loginRequired, delivered, confirmed>>

Deliver(n) ==
  /\ Permitted(mails[n])
  /\ ~IsDelivered(n)
  /\ delivered' = Append(delivered, Copy(n))
  /\ UNCHANGED <<loginRequired, mails, confirmed>>

Confirm(n) ==
  /\ IsDelivered(n)
  /\ n \notin confirmed
  /\ confirmed' = confirmed \cup {n}
  /\ UNCHANGED <<loginRequired, mails, delivered>>

RelayNext ==
  \/ Submit
  \/ \E n \in DOMAIN mails : Deliver(n) \/ Confirm(n)

RelaySpec == RelayInit /\ [][RelayNext]_relayVars
================================================================================
