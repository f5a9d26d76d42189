--------------------------------- MODULE Dialog ---------------------------------
(***************************************************************************)
(* What SMTP promises a client that may be several commands ahead: each    *)
(* command is answered by one reply, in order, and a reply is seen whole   *)
(* or not at all; TLS starts only when nothing is on its way in either     *)
(* direction.  Nothing is said of lines and their marks.                   *)
(***************************************************************************)
EXTENDS Naturals

VARIABLES
  sent,     \* the commands that the client has sent, the connection as the first
  taken,    \* those that the session has read,
  answered, \* and those that it has answered
  seen,     \* the replies whose end the client has seen
  secure    \* has TLS started?

DialogInit == sent = 1 /\ taken = 1 /\ answered = 0 /\ seen = 0 /\ secure = FALSE

Ask == sent' = sent + 1 /\ UNCHANGED <<taken, answered, seen, secure>>

Take ==
  /\ taken < sent /\ answered = taken
  /\ taken' = taken + 1
  /\ UNCHANGED <<sent, answered, seen, secure>>

Answer ==
  /\ answered < taken
  /\ answered' = answered + 1
  /\ UNCHANGED <<sent, taken, seen, secure>>

See ==
  /\ seen < answered
  /\ seen' = seen + 1
  /\ UNCHANGED <<sent, taken, answered, secure>>

Secure ==
  /\ taken = sent /\ answered = sent /\ seen = sent
  /\ secure' = TRUE
  /\ UNCHANGED <<sent, taken, answered, seen>>

DialogNext == Ask \/ Take \/ Answer \/ See \/ Secure
================================================================================
