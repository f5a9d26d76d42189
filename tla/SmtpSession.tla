------------------------------ MODULE SmtpSession ------------------------------
(***************************************************************************)
(* One SMTP session: Session::handle, handle_auth and handle_data of       *)
(* lib/smtp/src/session.rs, over a connection that may be upgraded to TLS  *)
(* and a Handler whose verdicts are not known here.                        *)
(*                                                                         *)
(* The session is one async task.  pc says at which await it is suspended; *)
(* between two awaits it runs alone, so an action is the code from one     *)
(* await to the next.  At every await the session may also be cut off      *)
(* (Abort): end of file, an i/o error, an over-long line, the read and     *)
(* reply timeouts, and the session time limit all drop it there.           *)
(*                                                                         *)
(* client is a history variable: what an SMTP client that sends one line   *)
(* and waits for its reply knows of the session.  No action reads it.      *)
(***************************************************************************)
EXTENDS Naturals, Sequences

CONSTANTS
  Configs,         \* the session configurations considered
  MaxMessageSize,  \* SessionConfig::max_message_size, in octets
  Addresses,       \* envelope addresses, already normalised
  NoAddress,       \* the empty string of Mail::empty
  BodyLines,       \* message lines as the client means them
  MaxRecipients    \* bound of the model: RCPT commands per transaction

AuthModes == {"None", "Always", "RequireTls"}

ASSUME ConfigsAssumption ==
  Configs \subseteq [authMode : AuthModes, acceptor : BOOLEAN]
ASSUME SizesAssumption == MaxMessageSize \in Nat /\ MaxRecipients \in Nat
\* A line has at least its terminator, and 1 in dots says it starts with ".".
ASSUME BodyLinesAssumption ==
  BodyLines \subseteq [dots : {0, 1}, len : Nat \ {0}]

VARIABLES
  config,           \* SessionConfig and the acceptor of the connection
  phase,            \* SessionState::phase
  isAuthenticated,  \* SessionState::is_authenticated
  mail,             \* SessionState::current_mail
  conn,             \* Session::connection: "plain", "tls", or "none" (taken)
  pc,               \* the await the task is suspended at
  out,              \* the reply being written and what follows it
  client            \* history: what the client knows

sessionVars == <<config, phase, isAuthenticated, mail, conn, pc, out, client>>
serverState == <<phase, isAuthenticated, mail>>

Phases == {"Connected", "Greeted", "Envelope", "Data"}
AuthReads == {"auth_plain", "auth_user", "auth_pass"}
HandlerCalls == {"on_hello", "on_login", "on_mail", "on_reset"}
PcValues == {"reply", "read", "start_tls", "closed"} \cup AuthReads \cup HandlerCalls

\* What the task does once a reply is out: the next await, or one of the
\* three assignments that follow a reply in the code before the next read.
Afterwards == {"read", "closed", "on_reset", "start_tls", "greeted",
               "authenticated", "mail_done"} \cup AuthReads

Codes == {0, 214, 220, 221, 235, 250, 334, 354, 451, 500, 503, 530, 535, 552}

EmptyMail == [from |-> NoAddress, to |-> <<>>, data |-> <<>>, size |-> 0]
Mails == [from : Addresses \cup {NoAddress}, to : Seq(Addresses),
          data : Seq(BodyLines), size : Nat]

Verbs == {"BANNER", "HELO", "HELP", "STARTTLS", "AUTH", "MAIL", "RCPT", "DATA",
          "RSET", "NOOP", "QUIT", "BAD", "DOT"}
Clients == [verb : Verbs, arg : Addresses \cup {NoAddress}, stage : Phases,
            draft : Mails, login : {"none", "plain", "tls"}]

--------------------------------------------------------------------------------
(* The client's view *)

\* The client puts a line on the wire.
Sends(verb, arg) == client' = [client EXCEPT !.verb = verb, !.arg = arg]

Forgets(k) == [k EXCEPT !.stage = "Connected", !.draft = EmptyMail, !.login = "none"]

\* What the client concludes from a reply to the line it sent last.
Learns(k, code) ==
  CASE k.verb = "HELO" /\ code = 250 -> [k EXCEPT !.stage = "Greeted"]
    [] k.verb = "AUTH" /\ code = 235 -> [k EXCEPT !.login = conn]
    [] k.verb = "MAIL" /\ code = 250 ->
         [k EXCEPT !.stage = "Envelope", !.draft = [EmptyMail EXCEPT !.from = k.arg]]
    [] k.verb = "RCPT" /\ code = 250 -> [k EXCEPT !.draft.to = Append(@, k.arg)]
    [] k.verb = "DATA" /\ code = 354 -> [k EXCEPT !.stage = "Data"]
    [] k.verb = "DOT" /\ code \in {250, 451} ->
         [k EXCEPT !.stage = "Greeted", !.draft = EmptyMail]
    [] k.verb = "RSET" /\ code = 250 -> Forgets(k)
    [] k.verb = "STARTTLS" /\ code = 220 -> Forgets(k)
    [] OTHER -> k

\* Dot transparency on the sending side (RFC 5321, 4.5.2).
Wire(line) ==
  IF line.dots = 1 THEN [dots |-> 2, len |-> line.len + 1] ELSE line

--------------------------------------------------------------------------------
(* Helpers of the session *)

\* Session::reply: the task waits until the reply is written and flushed.
Answer(code, then) == pc' = "reply" /\ out' = [code |-> code, then |-> then]

Await(p) == pc' = p /\ UNCHANGED out

IsTlsOffered == conn = "tls" \/ config.acceptor  \* fault, for a mutant of IsTls
IsTls == conn = "tls"
SupportsTls == conn = "plain" /\ config.acceptor
HasAuth == config.authMode # "None"
Authenticated == HasAuth => isAuthenticated

\* A line is read and, outside of DATA, parsed as a command.
Ready == pc = "read" /\ phase # "Data"
Capturing == pc = "read" /\ phase = "Data"

--------------------------------------------------------------------------------
(* Commands *)

Hello ==
  /\ Ready
  /\ Sends("HELO", NoAddress)
  /\ \/ phase = "Connected" /\ Await("on_hello")
     \/ phase # "Connected" /\ Answer(503, "read")
  /\ UNCHANGED <<config, serverState, conn>>

Help ==
  /\ Ready
  /\ Sends("HELP", NoAddress)
  /\ Answer(214, "read")
  /\ UNCHANGED <<config, serverState, conn>>

NoOp ==
  /\ Ready
  /\ Sends("NOOP", NoAddress)
  /\ Answer(250, "read")
  /\ UNCHANGED <<config, serverState, conn>>

Unparsable ==
  /\ Ready
  /\ Sends("BAD", NoAddress)
  /\ Answer(500, "read")
  /\ UNCHANGED <<config, serverState, conn>>

StartTls ==
  /\ Ready
  /\ Sends("STARTTLS", NoAddress)
  /\ \/ ~SupportsTls /\ Answer(500, "read")
     \/ SupportsTls /\ phase # "Greeted" /\ Answer(503, "read")
     \/ SupportsTls /\ phase = "Greeted" /\ Answer(220, "start_tls")
  /\ UNCHANGED <<config, serverState, conn>>

\* handle_auth on one payload: the PLAIN credentials, the LOGIN user name or
\* the LOGIN password.  ok says whether it decodes and, for PLAIN, splits in
\* three; a bad PLAIN payload is a syntax error, a bad LOGIN one an error of
\* the session.
AuthPayload(step, ok) ==
  \/ step = "auth_plain" /\ ok /\ Await("on_login")
  \/ step = "auth_plain" /\ ~ok /\ Answer(500, "read")
  \/ step = "auth_user" /\ ok /\ Answer(334, "auth_pass")
  \/ step = "auth_pass" /\ ok /\ Await("on_login")
  \/ step \in {"auth_user", "auth_pass"} /\ ~ok /\ Await("closed")

\* AUTH PLAIN or AUTH LOGIN, with the initial payload on the line or without.
Authenticate(step, initial, ok) ==
  /\ Ready
  /\ Sends("AUTH", NoAddress)
  /\ \/ phase # "Greeted" /\ Answer(503, "read")
     \/ phase = "Greeted" /\ ~HasAuth /\ Answer(500, "read")
     \/ phase = "Greeted" /\ config.authMode = "RequireTls" /\ ~IsTls /\ Answer(503, "read")
     \/ /\ phase = "Greeted" /\ HasAuth /\ (config.authMode = "RequireTls" => IsTls)
        /\ \/ initial /\ AuthPayload(step, ok)
           \/ ~initial /\ Answer(334, step)
  /\ UNCHANGED <<config, serverState, conn>>

\* The answer to a 334 challenge.
ChallengeLine(ok) ==
  /\ pc \in AuthReads
  /\ AuthPayload(pc, ok)
  /\ UNCHANGED <<config, serverState, conn, client>>

\* End of file instead of an answer: a syntax error is still replied, and the
\* next read finds the end of file again.
ChallengeEof ==
  /\ pc \in AuthReads
  /\ Answer(500, "closed")
  /\ UNCHANGED <<config, serverState, conn, client>>

Mail(from) ==
  /\ Ready
  /\ Sends("MAIL", from)
  /\ \/ phase # "Greeted" /\ Answer(503, "read") /\ UNCHANGED <<phase, mail>>
     \/ /\ phase = "Greeted" /\ ~Authenticated
        /\ Answer(530, "read")
        /\ UNCHANGED <<phase, mail>>
     \/ /\ phase = "Greeted" /\ Authenticated
        /\ mail' = [EmptyMail EXCEPT !.from = from]
        /\ phase' = "Envelope"
        /\ Answer(250, "read")
  /\ UNCHANGED <<config, isAuthenticated, conn>>

Recipient(to) ==
  /\ Ready
  /\ Len(mail.to) < MaxRecipients
  /\ Sends("RCPT", to)
  /\ \/ phase # "Envelope" /\ Answer(503, "read") /\ UNCHANGED mail
     \/ phase = "Envelope" /\ ~Authenticated /\ Answer(530, "read") /\ UNCHANGED mail
     \/ /\ phase = "Envelope" /\ Authenticated
        /\ mail' = [mail EXCEPT !.to = Append(@, to)]
        /\ Answer(250, "read")
  /\ UNCHANGED <<config, phase, isAuthenticated, conn>>

Data ==
  /\ Ready
  /\ Sends("DATA", NoAddress)
  /\ \/ phase # "Envelope" /\ Answer(503, "read") /\ UNCHANGED phase
     \/ phase = "Envelope" /\ ~Authenticated /\ Answer(530, "read") /\ UNCHANGED phase
     \/ /\ phase = "Envelope" /\ Authenticated
        /\ phase' = "Data"
        /\ Answer(354, "read")
  /\ UNCHANGED <<config, isAuthenticated, mail, conn>>

\* Fault, for a mutant of ResetState: only the mail and the phase are reset.
ResetStateKeepsLogin ==
  /\ phase' = "Connected"
  /\ mail' = EmptyMail
  /\ UNCHANGED isAuthenticated

\* SessionState::new, on RSET and after the TLS handshake.
ResetState ==
  /\ phase' = "Connected"
  /\ isAuthenticated' = FALSE
  /\ mail' = EmptyMail

Reset ==
  /\ Ready
  /\ Sends("RSET", NoAddress)
  /\ ResetState
  /\ Answer(250, "on_reset")
  /\ UNCHANGED <<config, conn>>

Quit ==
  /\ Ready
  /\ Sends("QUIT", NoAddress)
  /\ Answer(221, "closed")
  /\ UNCHANGED <<config, serverState, conn>>

--------------------------------------------------------------------------------
(* Message data *)

UnstuffedNever(line) == line  \* fault, for a mutant of Unstuffed

\* handle_data strips one dot of a line that starts with "..".
Unstuffed(line) ==
  IF line.dots = 2 THEN [dots |-> 1, len |-> line.len - 1] ELSE line

\* Mail::append_data, on the server's mail and on the client's draft.
AppendData(m, line) == [m EXCEPT !.data = Append(@, line), !.size = @ + line.len]

TooLongAlready(line) == mail.size > MaxMessageSize  \* fault, for a mutant of TooLong
TooLong(line) == mail.size + line.len > MaxMessageSize

DataLine(meant) ==
  LET line == Unstuffed(Wire(meant)) IN
  /\ Capturing
  /\ client' = [client EXCEPT !.draft = AppendData(@, meant)]
  /\ \/ TooLong(line) /\ Answer(552, "closed") /\ UNCHANGED mail
     \/ ~TooLong(line) /\ mail' = AppendData(mail, line) /\ UNCHANGED <<pc, out>>
  /\ UNCHANGED <<config, phase, isAuthenticated, conn>>

\* The line "." hands the mail to Handler::on_mail.
DataEnd ==
  /\ Capturing
  /\ Sends("DOT", NoAddress)
  /\ Await("on_mail")
  /\ UNCHANGED <<config, serverState, conn>>

--------------------------------------------------------------------------------
(* Returns of awaited calls *)

\* Handler::on_hello; a rejected client is dropped without a reply.
HelloReturns(ok) ==
  /\ pc = "on_hello"
  /\ \/ ok /\ Answer(250, "greeted")
     \/ ~ok /\ Await("closed")
  /\ UNCHANGED <<config, serverState, conn, client>>

\* Handler::on_login; an error counts as a rejection.
LoginReturns(ok) ==
  /\ pc = "on_login"
  /\ \/ ok /\ Answer(235, "authenticated")
     \/ ~ok /\ Answer(535, "closed")
  /\ UNCHANGED <<config, serverState, conn, client>>

\* Handler::on_mail.
MailReturns(ok) ==
  /\ pc = "on_mail"
  /\ Answer(IF ok THEN 250 ELSE 451, "mail_done")
  /\ UNCHANGED <<config, serverState, conn, client>>

\* Handler::on_reset; its errors are only logged.
ResetReturns ==
  /\ pc = "on_reset"
  /\ Await("read")
  /\ UNCHANGED <<config, serverState, conn, client>>

\* SmtpClientConnection::start_tls; if it fails the session has no connection.
TlsReturns(ok) ==
  /\ pc = "start_tls"
  /\ \/ ok /\ conn' = "tls" /\ ResetState /\ Await("read")
     \/ ~ok /\ Await("closed") /\ UNCHANGED <<serverState, conn>>
  /\ UNCHANGED <<config, client>>

\* Fault, for a mutant of PhaseAfter: a completed mail leads back to Connected.
PhaseAfterRestarts(then) ==
  CASE then = "greeted" -> "Greeted"
    [] then = "mail_done" -> "Connected"
    [] OTHER -> phase

\* The assignments that follow a reply in the code.
PhaseAfter(then) == IF then \in {"greeted", "mail_done"} THEN "Greeted" ELSE phase
LoginAfter(then) == isAuthenticated \/ then = "authenticated"
MailAfter(then) == IF then = "mail_done" THEN EmptyMail ELSE mail

\* The reply is written; then what follows it.
SendReply ==
  /\ pc = "reply"
  /\ client' = Learns(client, out.code)
  /\ pc' = IF out.then \in {"greeted", "authenticated", "mail_done"}
           THEN "read" ELSE out.then
  /\ phase' = PhaseAfter(out.then)
  /\ isAuthenticated' = LoginAfter(out.then)
  /\ mail' = MailAfter(out.then)
  /\ conn' = IF out.then = "start_tls" THEN "none" ELSE conn
  /\ out' = [code |-> 0, then |-> "read"]
  /\ UNCHANGED config

\* The session is dropped at an await.
Abort ==
  /\ pc # "closed"
  /\ pc' = "closed"
  /\ UNCHANGED <<config, serverState, conn, out, client>>

--------------------------------------------------------------------------------
\* Session::handle first writes the banner.
SessionInit ==
  /\ config \in Configs
  /\ phase = "Connected"
  /\ isAuthenticated = FALSE
  /\ mail = EmptyMail
  /\ conn = "plain"
  /\ pc = "reply"
  /\ out = [code |-> 220, then |-> "read"]
  /\ client = [verb |-> "BANNER", arg |-> NoAddress, stage |-> "Connected",
               draft |-> EmptyMail, login |-> "none"]

Command ==
  \/ Hello \/ Help \/ NoOp \/ Unparsable \/ StartTls \/ Data \/ Reset \/ Quit
  \/ \E step \in {"auth_plain", "auth_user"}, initial, ok \in BOOLEAN :
       Authenticate(step, initial, ok)
  \/ \E a \in Addresses : Mail(a) \/ Recipient(a)

\* What the session does on its own or on a line of the client, as opposed
\* to the return of a call to its Handler.
SessionStep ==
  \/ Command
  \/ \E line \in BodyLines : DataLine(line)
  \/ DataEnd
  \/ \E ok \in BOOLEAN : ChallengeLine(ok) \/ HelloReturns(ok) \/ TlsReturns(ok)
  \/ ChallengeEof

SessionNext ==
  \/ SessionStep
  \/ \E ok \in BOOLEAN : LoginReturns(ok) \/ MailReturns(ok)
  \/ ResetReturns
  \/ SendReply
  \/ Abort

SessionSpec == SessionInit /\ [][SessionNext]_sessionVars

--------------------------------------------------------------------------------
(* Properties *)

\* The type of the session's state.
TypeOK ==
  /\ config \in Configs
  /\ phase \in Phases
  /\ isAuthenticated \in BOOLEAN
  /\ mail \in Mails
  /\ conn \in {"plain", "tls", "none"}
  /\ pc \in PcValues
  /\ out \in [code : Codes, then : Afterwards]
  /\ client \in Clients
  /\ client.verb \in {"MAIL", "RCPT"} => client.arg \in Addresses

\* Whenever the session waits for a line or hands a mail to the handler, the
\* client's picture of it, built from the replies alone, is right: the phase
\* (hence whether a line is a command or message data), the mail under
\* construction with its unstuffed lines, and whether it is logged in.
\* RSET, a failed on_mail and STARTTLS all have to leave both sides agreed.
InStep ==
  pc \in {"read", "on_mail"} =>
    /\ client.stage = phase
    /\ client.draft = mail
    /\ isAuthenticated <=> client.login # "none"

\* A mail reaches the handler only from a client that was told, since the
\* last RSET or STARTTLS, that its login succeeded, and in RequireTls mode
\* that login went over TLS.
MailIsAuthorised ==
  pc = "on_mail" /\ HasAuth =>
    /\ client.login # "none"
    /\ config.authMode = "RequireTls" => client.login = "tls"

\* In RequireTls mode the server never asks for, reads or checks credentials
\* on a connection that is not TLS.
CredentialsOverTls ==
  config.authMode = "RequireTls" /\ pc \in AuthReads \cup {"on_login"} => conn = "tls"

\* The captured message never exceeds the advertised SIZE, and a message the
\* client is told is too long really is: with the refused line, the client's
\* own message is over the limit.
SizeLimit ==
  /\ mail.size <= MaxMessageSize
  /\ pc = "reply" /\ out.code = 552 => client.draft.size > MaxMessageSize

--------------------------------------------------------------------------------
(* The inductive strengthening of the safety properties *)

Agrees(k, p, m, a) == k.stage = p /\ k.draft = m /\ (a <=> k.login # "none")

\* The commands during which the task can be at each await.
VerbOfWait ==
  /\ pc = "on_hello" => client.verb = "HELO" /\ phase = "Connected"
  /\ pc \in AuthReads \cup {"on_login"} => client.verb = "AUTH" /\ phase = "Greeted"
  /\ pc = "on_mail" => client.verb = "DOT" /\ phase = "Data"
  /\ conn = "none" => pc \in {"start_tls", "closed"}

\* Each reply on its way out fits the line it answers and what follows it.
ReplyFits ==
  pc = "reply" =>
    /\ out.then \in AuthReads => client.verb = "AUTH" /\ phase = "Greeted" /\ out.code = 334
    /\ out.then = "start_tls" => client.verb = "STARTTLS" /\ out.code = 220
    /\ out.code = 235 => out.then = "authenticated"
    /\ out.code = 552 => client.draft.size > MaxMessageSize

\* The two sides agree at every await once the pending reply is taken into
\* account, and during the TLS handshake the client already has forgotten.
WillAgree ==
  /\ pc \in {"read", "on_hello", "on_login", "on_mail", "on_reset"} \cup AuthReads =>
       Agrees(client, phase, mail, isAuthenticated)
  /\ pc = "start_tls" => Agrees(client, "Connected", EmptyMail, FALSE)
  /\ pc = "reply" /\ out.then \notin {"closed", "start_tls"} =>
       Agrees(Learns(client, out.code), PhaseAfter(out.then), MailAfter(out.then),
              LoginAfter(out.then))

\* Where credentials and mails are handled, the configured mode was obeyed.
ModeObeyed ==
  /\ phase \in {"Envelope", "Data"} => Authenticated
  /\ config.authMode = "RequireTls" =>
       /\ client.login # "plain"
       /\ pc \in AuthReads \cup {"on_login"} => conn = "tls"
       /\ pc = "reply" /\ out.then \in AuthReads \cup {"authenticated"} => conn = "tls"

SessionInv ==
  /\ TypeOK
  /\ VerbOfWait
  /\ ReplyFits
  /\ WillAgree
  /\ ModeObeyed
  /\ mail.size <= MaxMessageSize

================================================================================
