------------------------------ MODULE ProxySession ------------------------------
(***************************************************************************)
(* A session of PostGraph from its first reply to on_disconnect: the SMTP  *)
(* session (SmtpSession) whose Handler is the ProxyHandler of              *)
(* lib/mail_proxy/src/proxy.rs, which hands mails to a Graph client        *)
(* (GraphClient).  The handler and the client are cloned per connection,   *)
(* so a session starts without a user name and without a token.            *)
(***************************************************************************)
EXTENDS SmtpSession, GraphClient

CONSTANTS
  Setups,   \* the configuration files considered
  Users,    \* the users of the configuration
  NoUser,   \* Option::None of the user name
  SendAs,   \* pairs of a user and an address verify_user_can_send_as allows
  MaxMails  \* bound of the model: mails completed per session

ASSUME ProxyAssumption ==
  /\ Setups \subseteq [hasUsers : BOOLEAN, tls : BOOLEAN, allowInsecure : BOOLEAN]
  /\ NoUser \notin Users
  /\ SendAs \subseteq Users \X Addresses
  /\ MaxMails \in Nat

VARIABLES
  username,    \* ProxyHandler::username
  productive,  \* ProxyHandler::productive
  report,      \* what on_disconnect reported to Fail2Ban, "open" before it
  lastLogin,   \* history: the user the client last tried to log in as
  mails,       \* history: the mails the client completed, as it meant them
  confirmed    \* history: the mails the client was told 250 for

handlerVars == <<username, productive>>
historyVars == <<lastLogin, mails, confirmed>>
proxyVars == <<sessionVars, graphVars, handlerVars, report, historyVars>>

Requests == [n : 1 .. MaxMails, from : Addresses \cup {NoAddress}, data : Seq(BodyLines)]

\* SMTPServerConfig::apply_to_server_config.
EffectiveAuthMode(setup) ==
  IF ~setup.hasUsers THEN "None"
  ELSE IF setup.tls THEN "RequireTls"
  ELSE IF setup.allowInsecure THEN "Always"
  ELSE "None"

ConfigOf(setup) == [authMode |-> EffectiveAuthMode(setup), acceptor |-> setup.tls]

ProxyInit ==
  /\ SessionInit
  /\ GraphInit
  /\ \E setup \in Setups : config = ConfigOf(setup)
  /\ username = NoUser
  /\ productive = FALSE
  /\ report = "open"
  /\ lastLogin = [user |-> NoUser, ok |-> TRUE]
  /\ mails = <<>>
  /\ confirmed = {}

--------------------------------------------------------------------------------
(* The session on its own *)

\* The client ends a message, as the user it believes to be logged in as.
EndOfMail ==
  /\ Len(mails) < MaxMails
  /\ DataEnd
  /\ mails' = Append(mails, [from |-> client.draft.from, data |-> client.draft.data,
                             user |-> IF client.login = "none" THEN NoUser ELSE lastLogin.user])
  /\ UNCHANGED <<graphVars, handlerVars, report, lastLogin, confirmed>>

\* Commands, message lines, and the returns of on_hello, which ProxyHandler
\* does not override, and of the TLS handshake.
OtherStep ==
  /\ \/ Command
     \/ \E line \in BodyLines : DataLine(line)
     \/ \E ok \in BOOLEAN : ChallengeLine(ok) \/ TlsReturns(ok)
     \/ ChallengeEof
     \/ HelloReturns(TRUE)
  /\ UNCHANGED <<graphVars, handlerVars, report, historyVars>>

ReplySent ==
  /\ SendReply
  /\ confirmed' = IF client.verb = "DOT" /\ out.code = 250
                  THEN confirmed \cup {Len(mails)} ELSE confirmed
  /\ UNCHANGED <<graphVars, handlerVars, report, lastLogin, mails>>

--------------------------------------------------------------------------------
(* ProxyHandler *)

\* on_login; valid says what verify_user_password finds.
OnLogin(user, valid) ==
  /\ LoginReturns(valid)
  /\ username' = IF valid THEN user ELSE NoUser
  /\ productive' = (valid /\ productive)
  /\ lastLogin' = [user |-> user, ok |-> valid]
  /\ UNCHANGED <<graphVars, report, mails, confirmed>>

SenderAllowed == username # NoUser => <<username, mail.from>> \in SendAs

\* Fault, for a mutant of OnMail: productive is set before the sender is checked.
OnMailProductiveFirst ==
  /\ pc = "on_mail" /\ call = "idle"
  /\ productive' = TRUE
  /\ \/ ~SenderAllowed /\ MailReturns(FALSE) /\ UNCHANGED graphVars
     \/ SenderAllowed /\ SendMail /\ UNCHANGED sessionVars
  /\ UNCHANGED <<username, report, historyVars>>

\* on_mail up to its first await.
OnMail ==
  /\ pc = "on_mail" /\ call = "idle"
  /\ \/ ~SenderAllowed /\ MailReturns(FALSE) /\ UNCHANGED <<graphVars, productive>>
     \/ SenderAllowed /\ productive' = TRUE /\ SendMail /\ UNCHANGED sessionVars
  /\ UNCHANGED <<username, report, historyVars>>

\* The rest of send_mail, awaited by on_mail.
Request == [n |-> Len(mails), from |-> mail.from, data |-> mail.data]

\* Fault, for a mutant of SendMailContinues: an expired token is waited out.
SendMailContinuesOrWaits ==
  /\ \/ (TokenGranted \/ Post(Request)) /\ UNCHANGED sessionVars
     \/ (TokenFails \/ PostFails) /\ MailReturns(FALSE)
     \/ PostReturnsOk(Len(mails)) /\ MailReturns(TRUE)
  /\ UNCHANGED <<handlerVars, report, historyVars>>

SendMailContinues ==
  /\ \/ (TokenGranted \/ Post(Request)) /\ UNCHANGED sessionVars
     \/ (TokenFails \/ TokenFoundExpired \/ PostFails) /\ MailReturns(FALSE)
     \/ PostReturnsOk(Len(mails)) /\ MailReturns(TRUE)
  /\ UNCHANGED <<handlerVars, report, historyVars>>

OnReset ==
  /\ ResetReturns
  /\ username' = NoUser
  /\ UNCHANGED <<graphVars, productive, report, historyVars>>

\* on_disconnect, once the session is over.
OnDisconnect ==
  /\ pc = "closed" /\ report = "open"
  /\ report' = IF productive THEN "ok" ELSE "fail"
  /\ UNCHANGED <<sessionVars, graphVars, handlerVars, historyVars>>

--------------------------------------------------------------------------------
(* What the environment does *)

\* The session is cut off, and with it the call it awaits.
CutOff ==
  /\ Abort
  /\ Dropped
  /\ UNCHANGED <<handlerVars, report, historyVars>>

ServiceStep ==
  /\ \/ TokenExpires
     \/ \E r \in inFlight : ServiceAccepts(r) \/ ServiceRefuses(r)
  /\ UNCHANGED <<sessionVars, handlerVars, report, historyVars>>

ProxyNext ==
  \/ EndOfMail \/ OtherStep \/ ReplySent
  \/ \E user \in Users, valid \in BOOLEAN : OnLogin(user, valid)
  \/ OnMail \/ SendMailContinues \/ OnReset \/ OnDisconnect
  \/ CutOff \/ ServiceStep

ProxySpec == ProxyInit /\ [][ProxyNext]_proxyVars

\* on_mail runs, and each of its HTTP requests is answered or times out.
ProxyFairSpec ==
  ProxySpec /\ WF_proxyVars(OnMail) /\ WF_proxyVars(SendMailContinues)

--------------------------------------------------------------------------------
(* Properties *)

\* The type of the state that is added to the session's.
ProxyTypeOK ==
  /\ username \in Users \cup {NoUser}
  /\ productive \in BOOLEAN
  /\ report \in {"open", "ok", "fail"}
  /\ lastLogin \in [user : Users \cup {NoUser}, ok : BOOLEAN]
  /\ mails \in Seq([from : Addresses \cup {NoAddress}, data : Seq(BodyLines),
                    user : Users \cup {NoUser}])
  /\ confirmed \subseteq 1 .. MaxMails
  /\ token \in Tokens /\ call \in Calls
  /\ inFlight \subseteq Requests
  /\ accepted \in Seq(Requests)

Relay == INSTANCE MailRelay WITH loginRequired <- HasAuth, delivered <- accepted

\* The session relays mails as MailRelay promises: Graph takes only what a
\* client with the right to send it sent, unchanged and once, and a 250 means
\* that Graph took it, whatever fails, expires, is lost or is cut off.
ImplementsRelay == Relay!RelaySpec

\* on_mail checks the sender against the user the client is logged in as, now
\* that the session's login flag and the handler's user name are two variables
\* that RSET, STARTTLS and AUTH change at different steps.
UserIsClients ==
  pc = "on_mail" /\ HasAuth => lastLogin.ok /\ username = lastLogin.user

\* Fail2Ban is told of an unproductive session only if Graph took none of its
\* mails, not even later, or its last login was refused; and a session passes
\* for productive only if the client completed a mail it may send.
ReportFits ==
  /\ report = "fail" /\ lastLogin.ok => accepted = <<>>
  /\ report = "ok" => \E n \in DOMAIN mails : Relay!Permitted(mails[n])

\* A client that completed a mail gets an answer on its way, unless the
\* session is cut off.
MailAnswered == pc = "on_mail" ~> pc # "on_mail"

--------------------------------------------------------------------------------
(* The inductive strengthening of the safety properties *)

\* The session is over, or will be once its reply is out.
Ending == pc = "closed" \/ (pc = "reply" /\ out.then = "closed")

\* Credentials are only handled where a login is asked for, and RSET logs the
\* session out before it tells the handler.
AuthOffered ==
  /\ isAuthenticated => HasAuth
  /\ pc \in AuthReads \cup {"on_login"} => HasAuth
  /\ pc = "reply" /\ out.then \in AuthReads \cup {"authenticated"} => HasAuth
  /\ pc = "on_reset" \/ (pc = "reply" /\ out.then = "on_reset") => ~isAuthenticated

\* A refused login ends the session; otherwise the handler knows the user of a
\* session that is logged in or about to be.
LoginKnown ==
  /\ ~lastLogin.ok => Ending
  /\ lastLogin.ok /\ (isAuthenticated \/ (pc = "reply" /\ out.then = "authenticated")) =>
       username = lastLogin.user /\ username \in Users

\* The mail in on_mail is the last that the client completed, and it reaches
\* the Graph client only if it may be sent, and the service only once.
MailMeant ==
  /\ call # "idle" => pc = "on_mail" /\ SenderAllowed /\ productive
  /\ pc = "on_mail" =>
       /\ mails # <<>>
       /\ mails[Len(mails)] =
            [from |-> mail.from, data |-> mail.data,
             user |-> IF client.login = "none" THEN NoUser ELSE lastLogin.user]
       /\ call # "post" => ~IsAccepted(Len(mails)) /\ \A r \in inFlight : r.n # Len(mails)

\* A request that may still be taken is the copy of a permitted mail that was
\* not taken yet, whether or not its session still waits for it.
RequestsMeant ==
  /\ \A r \in inFlight :
       /\ r.n \in DOMAIN mails
       /\ r = Relay!Copy(r.n)
       /\ Relay!Permitted(mails[r.n])
       /\ ~IsAccepted(r.n)
  /\ \A i \in DOMAIN accepted : accepted[i].n \in DOMAIN mails

\* A 250 on its way to a client that completed a mail is true.
SuccessIsTrue ==
  pc = "reply" /\ client.verb = "DOT" /\ out.code = 250 => IsAccepted(Len(mails))

\* productive says what Fail2Ban should know, and on_disconnect passes it on.
ProductiveFits ==
  /\ ~productive /\ lastLogin.ok => accepted = <<>> /\ inFlight = {}
  /\ productive => \E n \in DOMAIN mails : Relay!Permitted(mails[n])
  /\ report # "open" => pc = "closed" /\ (report = "ok" <=> productive)

ProxyInv ==
  /\ SessionInv
  /\ ProxyTypeOK /\ Len(mails) <= MaxMails
  /\ AuthOffered /\ LoginKnown
  /\ MailMeant /\ RequestsMeant /\ SuccessIsTrue
  /\ ProductiveFits
================================================================================
