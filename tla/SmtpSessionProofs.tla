--------------------------- MODULE SmtpSessionProofs ---------------------------
(* Proofs about SmtpSession, for every set of configurations, addresses and  *)
(* message lines and for every size limit.                                   *)
EXTENDS SmtpSession, TLAPS, SequenceTheorems

\* A line of the client keeps the history variable in its type.
LEMMA SendsType ==
  ASSUME client \in Clients, NEW v \in Verbs, NEW a \in Addresses \cup {NoAddress},
         Sends(v, a)
  PROVE  client' \in Clients
BY DEF Sends, Clients

\* The two ways an action hands over to the next await.
LEMMA AnswerType ==
  ASSUME NEW code \in Codes, NEW then \in Afterwards, Answer(code, then)
  PROVE  pc' \in PcValues /\ out' \in [code : Codes, then : Afterwards]
BY DEF Answer, PcValues

LEMMA AwaitType ==
  ASSUME out \in [code : Codes, then : Afterwards], NEW p \in PcValues, Await(p)
  PROVE  pc' \in PcValues /\ out' \in [code : Codes, then : Afterwards]
BY DEF Await

\* Mails: the empty one, and one with a sender, a recipient or a line more.
LEMMA EmptyMailType == EmptyMail \in Mails
BY DEF EmptyMail, Mails

LEMMA SenderType ==
  ASSUME NEW m \in Mails, NEW a \in Addresses \cup {NoAddress}
  PROVE  [m EXCEPT !.from = a] \in Mails
BY DEF Mails

LEMMA RecipientType ==
  ASSUME NEW m \in Mails, NEW a \in Addresses
  PROVE  [m EXCEPT !.to = Append(@, a)] \in Mails
<1>1. Append(m.to, a) \in Seq(Addresses)
  BY DEF Mails
<1> QED
  BY <1>1 DEF Mails

LEMMA AppendDataType ==
  ASSUME NEW m \in Mails, NEW line \in BodyLines
  PROVE  AppendData(m, line) \in Mails
<1>1. Append(m.data, line) \in Seq(BodyLines)
  BY DEF Mails
<1>2. m.size + line.len \in Nat
  BY BodyLinesAssumption DEF Mails
<1> QED
  BY <1>1, <1>2 DEF Mails, AppendData

\* What the server unstuffs is the line the client meant.
LEMMA Transparency ==
  ASSUME NEW line \in BodyLines
  PROVE  Unstuffed(Wire(line)) = line
<1>1. line \in [dots : {0, 1}, len : Nat \ {0}]
  BY BodyLinesAssumption
<1>2. CASE line.dots = 0
  BY <1>1, <1>2 DEF Unstuffed, Wire
<1>3. CASE line.dots = 1
  <2>1. Wire(line) = [dots |-> 2, len |-> line.len + 1]
    BY <1>3 DEF Wire
  <2>2. Unstuffed(Wire(line)) = [dots |-> 1, len |-> (line.len + 1) - 1]
    BY <2>1 DEF Unstuffed
  <2>3. (line.len + 1) - 1 = line.len
    BY <1>1
  <2> QED
    BY <1>1, <1>3, <2>2, <2>3
<1> QED
  BY <1>1, <1>2, <1>3

LEMMA ForgetsType ==
  ASSUME NEW k \in Clients
  PROVE  Forgets(k) \in Clients
BY EmptyMailType DEF Forgets, Clients, Phases

LEMMA LearnsType ==
  ASSUME TypeOK, NEW code \in Codes
  PROVE  Learns(client, code) \in Clients
<1> USE DEF TypeOK
<1> DEFINE New == [EmptyMail EXCEPT !.from = client.arg]
           Longer == [client.draft EXCEPT !.to = Append(@, client.arg)]
<1>1. Forgets(client) \in Clients
  BY ForgetsType
<1>2. [client EXCEPT !.stage = "Greeted"] \in Clients /\ [client EXCEPT !.stage = "Data"] \in Clients
  BY DEF Clients, Phases
<1>3. [client EXCEPT !.login = conn] \in Clients
  BY DEF TypeOK, Clients
<1>4. [client EXCEPT !.stage = "Envelope", !.draft = New] \in Clients
  <2>1. New \in Mails
    BY EmptyMailType, SenderType DEF Clients
  <2> QED
    BY <2>1 DEF Clients, Phases
<1>5. client.verb = "RCPT" => [client EXCEPT !.draft.to = Append(@, client.arg)] \in Clients
  <2> SUFFICES ASSUME client.verb = "RCPT"
               PROVE  [client EXCEPT !.draft.to = Append(@, client.arg)] \in Clients
    OBVIOUS
  <2>1. Longer \in Mails
    BY RecipientType DEF Clients
  <2>2. [client EXCEPT !.draft.to = Append(@, client.arg)] = [client EXCEPT !.draft = Longer]
    BY DEF Clients, Mails
  <2> QED
    BY <2>1, <2>2 DEF Clients
<1>6. [client EXCEPT !.stage = "Greeted", !.draft = EmptyMail] \in Clients
  BY EmptyMailType DEF Clients, Phases
<1> QED
  BY <1>1, <1>2, <1>3, <1>4, <1>5, <1>6 DEF Learns

\* A reply does not change which line the client sent last.
LEMMA LearnsKeepsLine ==
  ASSUME TypeOK, NEW code \in Codes
  PROVE  /\ Learns(client, code).verb = client.verb
         /\ Learns(client, code).arg = client.arg
<1>1. [client EXCEPT !.draft.to = Append(@, client.arg)]
        = [client EXCEPT !.draft = [client.draft EXCEPT !.to = Append(@, client.arg)]]
  BY DEF TypeOK, Clients, Mails
<1> QED
  BY <1>1 DEF Learns, Forgets, TypeOK, Clients

\* The parts of TypeOK that Sends, Answer and Await take care of.
ClientOK ==
  /\ client \in Clients
  /\ client.verb \in {"MAIL", "RCPT"} => client.arg \in Addresses
TaskOK == pc \in PcValues /\ out \in [code : Codes, then : Afterwards]

LEMMA LineType ==
  ASSUME TypeOK, NEW v \in Verbs, NEW a \in Addresses \cup {NoAddress},
         v \in {"MAIL", "RCPT"} => a \in Addresses, Sends(v, a)
  PROVE  ClientOK'
<1>1. client' \in Clients
  BY SendsType DEF TypeOK
<1>2. client'.verb = v /\ client'.arg = a
  BY DEF TypeOK, Sends, Clients
<1> QED
  BY <1>1, <1>2 DEF ClientOK

\* The type invariant is preserved by each action of the session.
LEMMA TypeStep == TypeOK /\ [SessionNext]_sessionVars => TypeOK'
<1> SUFFICES ASSUME TypeOK, [SessionNext]_sessionVars PROVE TypeOK'
  OBVIOUS
<1> USE DEF serverState
<1>a. \A code \in Codes, then \in Afterwards : Answer(code, then) => TaskOK'
  BY AnswerType DEF TaskOK
<1>w. \A p \in PcValues : Await(p) => TaskOK'
  BY AwaitType DEF TypeOK, TaskOK
<1>t. TaskOK /\ ClientOK
  BY DEF TypeOK, TaskOK, ClientOK
<1>1. CASE Hello
  <2>1. ClientOK'
    BY <1>1, LineType DEF Hello, Verbs
  <2>2. TaskOK'
    BY <1>1, <1>a, <1>w DEF Hello, Codes, Afterwards, PcValues, HandlerCalls
  <2> QED
    BY <1>1, <2>1, <2>2 DEF Hello, TypeOK, ClientOK, TaskOK
<1>2. CASE Help \/ NoOp \/ Unparsable \/ Quit
  <2>1. ClientOK'
    BY <1>2, LineType DEF Help, NoOp, Unparsable, Quit, Verbs
  <2>2. TaskOK'
    BY <1>2, <1>a DEF Help, NoOp, Unparsable, Quit, Codes, Afterwards
  <2> QED
    BY <1>2, <2>1, <2>2 DEF Help, NoOp, Unparsable, Quit, TypeOK, ClientOK, TaskOK
<1>3. CASE StartTls
  <2>1. ClientOK'
    BY <1>3, LineType DEF StartTls, Verbs
  <2>2. TaskOK'
    BY <1>3, <1>a DEF StartTls, Codes, Afterwards
  <2> QED
    BY <1>3, <2>1, <2>2 DEF StartTls, TypeOK, ClientOK, TaskOK
<1>p. ASSUME NEW step \in AuthReads, NEW ok \in BOOLEAN, AuthPayload(step, ok)
      PROVE  TaskOK'
  BY <1>p, <1>a, <1>w DEF AuthPayload, Codes, Afterwards, AuthReads, PcValues, HandlerCalls
<1>4. ASSUME NEW step \in {"auth_plain", "auth_user"}, NEW initial \in BOOLEAN,
             NEW ok \in BOOLEAN, Authenticate(step, initial, ok)
      PROVE  TypeOK'
  <2>1. ClientOK'
    BY <1>4, LineType DEF Authenticate, Verbs
  <2>2. step \in AuthReads
    BY DEF AuthReads
  <2>3. TaskOK'
    BY <1>4, <1>a, <1>p, <2>2 DEF Authenticate, Codes, Afterwards, AuthReads
  <2> QED
    BY <1>4, <2>1, <2>3 DEF Authenticate, TypeOK, ClientOK, TaskOK
<1>5. ASSUME NEW ok \in BOOLEAN, ChallengeLine(ok) PROVE TypeOK'
  <2>1. TaskOK'
    BY <1>5, <1>p DEF ChallengeLine
  <2> QED
    BY <1>5, <2>1 DEF ChallengeLine, TypeOK, TaskOK
<1>6. CASE ChallengeEof
  <2>1. TaskOK'
    BY <1>6, <1>a DEF ChallengeEof, Codes, Afterwards
  <2> QED
    BY <1>6, <2>1 DEF ChallengeEof, TypeOK, TaskOK
<1>7. ASSUME NEW a \in Addresses, Mail(a) PROVE TypeOK'
  <2>1. ClientOK'
    BY <1>7, LineType DEF Mail, Verbs
  <2>2. TaskOK'
    BY <1>7, <1>a DEF Mail, Codes, Afterwards
  <2>3. [EmptyMail EXCEPT !.from = a] \in Mails
    BY EmptyMailType, SenderType
  <2> QED
    BY <1>7, <2>1, <2>2, <2>3 DEF Mail, TypeOK, ClientOK, TaskOK, Phases
<1>8. ASSUME NEW a \in Addresses, Recipient(a) PROVE TypeOK'
  <2>1. ClientOK'
    BY <1>8, LineType DEF Recipient, Verbs
  <2>2. TaskOK'
    BY <1>8, <1>a DEF Recipient, Codes, Afterwards
  <2>3. [mail EXCEPT !.to = Append(@, a)] \in Mails
    BY RecipientType DEF TypeOK
  <2> QED
    BY <1>8, <2>1, <2>2, <2>3 DEF Recipient, TypeOK, ClientOK, TaskOK
<1>9. CASE Data
  <2>1. ClientOK'
    BY <1>9, LineType DEF Data, Verbs
  <2>2. TaskOK'
    BY <1>9, <1>a DEF Data, Codes, Afterwards
  <2> QED
    BY <1>9, <2>1, <2>2 DEF Data, TypeOK, ClientOK, TaskOK, Phases
<1>10. CASE Reset
  <2>1. ClientOK'
    BY <1>10, LineType DEF Reset, Verbs
  <2>2. TaskOK'
    BY <1>10, <1>a DEF Reset, Codes, Afterwards
  <2> QED
    BY <1>10, <2>1, <2>2, EmptyMailType
       DEF Reset, ResetState, TypeOK, ClientOK, TaskOK, Phases
<1>11. ASSUME NEW meant \in BodyLines, DataLine(meant) PROVE TypeOK'
  <2>1. Unstuffed(Wire(meant)) = meant
    BY Transparency
  <2>2. mail' \in Mails
    BY <1>11, <2>1, AppendDataType DEF DataLine, TypeOK
  <2>3. TaskOK'
    BY <1>11, <1>a, <1>t DEF DataLine, Codes, Afterwards, TaskOK
  <2>4. ClientOK'
    <3>1. AppendData(client.draft, meant) \in Mails
      BY AppendDataType DEF TypeOK, Clients
    <3>2. client' = [client EXCEPT !.draft = AppendData(client.draft, meant)]
      BY <1>11 DEF DataLine, TypeOK, Clients
    <3> QED
      BY <3>1, <3>2 DEF TypeOK, ClientOK, Clients
  <2> QED
    BY <1>11, <2>2, <2>3, <2>4 DEF DataLine, TypeOK, ClientOK, TaskOK
<1>12. CASE DataEnd
  <2>1. ClientOK'
    BY <1>12, LineType DEF DataEnd, Verbs
  <2>2. TaskOK'
    BY <1>12, <1>w DEF DataEnd, PcValues, HandlerCalls
  <2> QED
    BY <1>12, <2>1, <2>2 DEF DataEnd, TypeOK, ClientOK, TaskOK
<1>13. ASSUME NEW ok \in BOOLEAN, HelloReturns(ok) \/ LoginReturns(ok) \/ MailReturns(ok)
       PROVE  TypeOK'
  <2>1. TaskOK'
    BY <1>13, <1>a, <1>w
       DEF HelloReturns, LoginReturns, MailReturns, Codes, Afterwards, PcValues
  <2> QED
    BY <1>13, <2>1 DEF HelloReturns, LoginReturns, MailReturns, TypeOK, TaskOK
<1>14. ASSUME NEW ok \in BOOLEAN, TlsReturns(ok) PROVE TypeOK'
  <2>1. TaskOK'
    BY <1>14, <1>w DEF TlsReturns, PcValues
  <2> QED
    BY <1>14, <2>1, EmptyMailType DEF TlsReturns, ResetState, TypeOK, TaskOK, Phases
<1>15. CASE ResetReturns
  <2>1. TaskOK'
    BY <1>15, <1>w DEF ResetReturns, PcValues
  <2> QED
    BY <1>15, <2>1 DEF ResetReturns, TypeOK, TaskOK
<1>16. CASE SendReply
  <2>1. client' \in Clients /\ client'.verb = client.verb /\ client'.arg = client.arg
    <3>1. out.code \in Codes
      BY DEF TypeOK
    <3>2. client' \in Clients
      BY <1>16, <3>1, LearnsType DEF SendReply
    <3> QED
      BY <1>16, <3>1, <3>2, LearnsKeepsLine DEF SendReply
  <2>2. TaskOK'
    BY <1>16 DEF SendReply, TypeOK, TaskOK, PcValues, HandlerCalls, Codes, Afterwards
  <2>3. phase' \in Phases /\ mail' \in Mails /\ isAuthenticated' \in BOOLEAN
    BY <1>16, EmptyMailType
       DEF SendReply, PhaseAfter, MailAfter, LoginAfter, TypeOK, Phases
  <2> QED
    BY <1>16, <2>1, <2>2, <2>3 DEF SendReply, TypeOK, TaskOK
<1>17. CASE Abort
  BY <1>17 DEF Abort, TypeOK, PcValues
<1>18. CASE UNCHANGED sessionVars
  BY <1>18 DEF sessionVars, TypeOK
<1> QED
  BY <1>1, <1>2, <1>3, <1>4, <1>5, <1>6, <1>7, <1>8, <1>9, <1>10, <1>11, <1>12, <1>13,
     <1>14, <1>15, <1>16, <1>17, <1>18 DEF SessionNext, SessionStep, Command

LEMMA TypeInit == SessionInit => TypeOK
<1> SUFFICES ASSUME SessionInit PROVE TypeOK
  OBVIOUS
<1>1. client \in Clients /\ mail \in Mails
  BY EmptyMailType DEF SessionInit, Clients, Verbs, Phases
<1>2. client.verb = "BANNER"
  BY DEF SessionInit
<1>3. out \in [code : Codes, then : Afterwards]
  BY DEF SessionInit, Codes, Afterwards
<1>4. isAuthenticated \in BOOLEAN
  BY DEF SessionInit
<1> QED
  BY <1>1, <1>2, <1>3, <1>4 DEF SessionInit, TypeOK, Phases, PcValues

\* SmtpSession: the session's state always has its type.
THEOREM TypeCorrect == SessionSpec => []TypeOK
BY TypeInit, TypeStep, PTL DEF SessionSpec

--------------------------------------------------------------------------------
\* What a line of the client leaves of its picture of the session.
LEMMA SendsKeeps ==
  ASSUME client \in Clients, NEW v, NEW a, Sends(v, a)
  PROVE  /\ client'.verb = v
         /\ client'.arg = a
         /\ client'.stage = client.stage
         /\ client'.draft = client.draft
         /\ client'.login = client.login
BY DEF Sends, Clients

\* A command that is answered and changes nothing else.
LEMMA Refusal ==
  ASSUME SessionInv, TypeOK', NEW v, NEW a, NEW code \in {214, 250, 500, 503, 530},
         pc = "read", Sends(v, a), Answer(code, "read"),
         UNCHANGED <<config, phase, isAuthenticated, mail, conn>>,
         code = 250 => v = "NOOP"
  PROVE  SessionInv'
<1>1. /\ client'.verb = v
      /\ client'.stage = client.stage
      /\ client'.draft = client.draft
      /\ client'.login = client.login
  BY SendsKeeps DEF SessionInv, TypeOK
<1>2. pc' = "reply" /\ out'.code = code /\ out'.then = "read"
  BY DEF Answer
<1>4. WillAgree'
  <2>1. Agrees(client, phase, mail, isAuthenticated)
    BY DEF SessionInv, WillAgree
  <2>2. Agrees(client', phase', mail', isAuthenticated')
    BY <1>1, <2>1 DEF Agrees
  <2>3. Learns(client, out.code)' = client'
    BY <1>1, <1>2 DEF Learns
  <2>4. PhaseAfter(out.then)' = phase' /\ MailAfter(out.then)' = mail'
    BY <1>2 DEF PhaseAfter, MailAfter
  <2>5. LoginAfter(out.then)' <=> isAuthenticated'
    BY <1>2 DEF LoginAfter
  <2> QED
    BY <1>2, <2>2, <2>3, <2>4, <2>5 DEF WillAgree, AuthReads, Agrees
<1>5. VerbOfWait'
  BY <1>2 DEF SessionInv, VerbOfWait, AuthReads
<1>6. ReplyFits'
  BY <1>2 DEF ReplyFits, AuthReads
<1>7. ModeObeyed'
  BY <1>1, <1>2 DEF SessionInv, ModeObeyed, AuthReads, Authenticated, HasAuth
<1> QED
  BY <1>4, <1>5, <1>6, <1>7 DEF SessionInv

\* handle_auth at a payload, of the command line or of a challenge.
LEMMA PayloadInv ==
  ASSUME SessionInv, TypeOK', NEW step \in AuthReads, NEW ok \in BOOLEAN,
         pc = "read" \/ pc \in AuthReads, AuthPayload(step, ok),
         UNCHANGED <<config, phase, isAuthenticated, mail, conn>>,
         client'.verb = "AUTH", phase = "Greeted",
         config.authMode = "RequireTls" => conn = "tls",
         /\ client'.stage = client.stage
         /\ client'.draft = client.draft
         /\ client'.login = client.login
  PROVE  SessionInv'
<1>1. Agrees(client', phase', mail', isAuthenticated')
  BY DEF SessionInv, WillAgree, Agrees
<1>2. pc' \in {"on_login", "closed", "reply"}
  BY DEF AuthPayload, Answer, Await
<1>3. pc' = "reply" => out'.code \in {500, 334} /\ out'.then \in {"read", "auth_pass"}
                       /\ (out'.then = "auth_pass" => out'.code = 334)
  BY DEF AuthPayload, Answer, Await
<1>4. WillAgree'
  <2>1. CASE pc' = "reply"
    <3>1. Learns(client, out.code)' = client'
      BY <1>3, <2>1 DEF Learns
    <3>2. PhaseAfter(out.then)' = phase' /\ MailAfter(out.then)' = mail'
      BY <1>3, <2>1 DEF PhaseAfter, MailAfter
    <3>3. LoginAfter(out.then)' <=> isAuthenticated'
      BY <1>3, <2>1 DEF LoginAfter
    <3> QED
      BY <1>1, <2>1, <3>1, <3>2, <3>3 DEF WillAgree, AuthReads, Agrees
  <2>2. CASE pc' # "reply"
    BY <1>1, <1>2, <2>2 DEF WillAgree, AuthReads
  <2> QED
    BY <2>1, <2>2
<1>5. VerbOfWait'
  BY <1>2 DEF SessionInv, VerbOfWait, AuthReads
<1>6. ReplyFits'
  BY <1>2, <1>3 DEF ReplyFits, AuthReads
<1>7. ModeObeyed'
  BY <1>2, <1>3 DEF SessionInv, ModeObeyed, AuthReads, Authenticated, HasAuth
<1> QED
  BY <1>4, <1>5, <1>6, <1>7 DEF SessionInv

\* The commands that refuse, or that hand over to another await.
LEMMA CommandInv ==
  ASSUME SessionInv, TypeOK', Hello \/ Help \/ NoOp \/ Unparsable \/ Quit \/ StartTls
  PROVE  SessionInv'
<1> USE DEF serverState
<1>0. pc = "read"
  BY DEF Hello, Help, NoOp, Unparsable, Quit, StartTls, Ready
<1>a. Agrees(client, phase, mail, isAuthenticated)
  BY <1>0 DEF SessionInv, WillAgree
<1>1. CASE Help \/ NoOp \/ Unparsable
  BY <1>0, <1>1, Refusal DEF Help, NoOp, Unparsable
<1>2. CASE Hello /\ phase # "Connected"
  BY <1>0, <1>2, Refusal DEF Hello
<1>3. CASE StartTls /\ ~(SupportsTls /\ phase = "Greeted")
  BY <1>0, <1>3, Refusal DEF StartTls
<1>k. client \in Clients
  BY DEF SessionInv, TypeOK
<1>4. CASE Hello /\ phase = "Connected"
  <2>1. pc' = "on_hello" /\ UNCHANGED <<config, phase, isAuthenticated, mail, conn>>
    BY <1>4 DEF Hello, Await
  <2>2. client'.verb = "HELO" /\ client'.login = client.login /\ client'.stage = client.stage
        /\ client'.draft = client.draft
    BY <1>k, <1>4, SendsKeeps DEF Hello
  <2>3. WillAgree'
    BY <1>a, <2>1, <2>2 DEF WillAgree, Agrees
  <2>4. VerbOfWait' /\ ReplyFits'
    BY <1>0, <1>4, <2>1, <2>2 DEF SessionInv, VerbOfWait, ReplyFits, AuthReads
  <2>5. ModeObeyed'
    BY <2>1, <2>2 DEF SessionInv, ModeObeyed, AuthReads, Authenticated, HasAuth
  <2> QED
    BY <2>1, <2>3, <2>4, <2>5 DEF SessionInv
<1>5. CASE Quit \/ (StartTls /\ SupportsTls /\ phase = "Greeted")
  <2>1. pc' = "reply" /\ UNCHANGED <<config, phase, isAuthenticated, mail, conn>>
    BY <1>5 DEF Quit, StartTls, Answer
  <2>2. \/ client'.verb = "QUIT" /\ out' = [code |-> 221, then |-> "closed"]
        \/ client'.verb = "STARTTLS" /\ out' = [code |-> 220, then |-> "start_tls"]
    BY <1>k, <1>5, SendsKeeps DEF Quit, StartTls, Answer
  <2>3. client'.login = client.login /\ client'.stage = client.stage
        /\ client'.draft = client.draft
    BY <1>k, <1>5, SendsKeeps DEF Quit, StartTls
  <2>4. WillAgree'
    BY <2>1, <2>2 DEF WillAgree, AuthReads
  <2>5. VerbOfWait' /\ ReplyFits'
    BY <1>0, <2>1, <2>2 DEF SessionInv, VerbOfWait, ReplyFits, AuthReads
  <2>6. ModeObeyed'
    BY <2>1, <2>2, <2>3 DEF SessionInv, ModeObeyed, AuthReads, Authenticated, HasAuth
  <2> QED
    BY <2>1, <2>4, <2>5, <2>6 DEF SessionInv
<1> QED
  BY <1>1, <1>2, <1>3, <1>4, <1>5

LEMMA AuthInv ==
  ASSUME SessionInv, TypeOK', NEW step \in {"auth_plain", "auth_user"},
         NEW initial \in BOOLEAN, NEW ok \in BOOLEAN, Authenticate(step, initial, ok)
  PROVE  SessionInv'
<1> USE DEF serverState
<1>k. client \in Clients
  BY DEF SessionInv, TypeOK
<1>0. pc = "read" /\ UNCHANGED <<config, phase, isAuthenticated, mail, conn>>
  BY DEF Authenticate, Ready
<1>s. /\ client'.verb = "AUTH"
      /\ client'.stage = client.stage
      /\ client'.draft = client.draft
      /\ client'.login = client.login
  BY <1>k, SendsKeeps DEF Authenticate
<1>1. CASE phase # "Greeted" \/ ~HasAuth \/ (config.authMode = "RequireTls" /\ ~IsTls)
  BY <1>0, <1>1, Refusal DEF Authenticate
<1>2. CASE phase = "Greeted" /\ HasAuth /\ (config.authMode = "RequireTls" => IsTls)
  <2>1. CASE initial
    BY <1>0, <1>s, <1>2, <2>1, PayloadInv DEF Authenticate, AuthReads, IsTls
  <2>2. CASE ~initial
    <3>1. pc' = "reply" /\ out' = [code |-> 334, then |-> step]
      BY <1>2, <2>2 DEF Authenticate, Answer
    <3>2. Agrees(client', phase', mail', isAuthenticated')
      BY <1>0, <1>s DEF SessionInv, WillAgree, Agrees
    <3>3. WillAgree'
      <4>1. Learns(client, out.code)' = client'
        BY <3>1 DEF Learns
      <4>2. /\ PhaseAfter(out.then)' = phase'
            /\ MailAfter(out.then)' = mail'
            /\ LoginAfter(out.then)' <=> isAuthenticated'
        BY <3>1 DEF PhaseAfter, MailAfter, LoginAfter
      <4> QED
        BY <3>1, <3>2, <4>1, <4>2 DEF WillAgree, AuthReads, Agrees
    <3>4. VerbOfWait' /\ ReplyFits'
      BY <1>0, <1>s, <1>2, <3>1 DEF SessionInv, VerbOfWait, ReplyFits, AuthReads
    <3>5. ModeObeyed'
      BY <1>0, <1>s, <1>2, <3>1
         DEF SessionInv, ModeObeyed, AuthReads, Authenticated, HasAuth, IsTls
    <3> QED
      BY <1>0, <3>3, <3>4, <3>5 DEF SessionInv
  <2> QED
    BY <2>1, <2>2
<1> QED
  BY <1>1, <1>2

LEMMA ChallengeInv ==
  ASSUME SessionInv, TypeOK', NEW ok \in BOOLEAN, ChallengeLine(ok) \/ ChallengeEof
  PROVE  SessionInv'
<1> USE DEF serverState
<1>1. CASE ChallengeLine(ok)
  BY <1>1, PayloadInv DEF ChallengeLine, SessionInv, VerbOfWait, ModeObeyed
<1>2. CASE ChallengeEof
  BY <1>2 DEF ChallengeEof, Answer, SessionInv, WillAgree, VerbOfWait, ReplyFits,
              ModeObeyed, AuthReads, Authenticated, HasAuth
<1> QED
  BY <1>1, <1>2

\* A command that is answered after a change of the phase and of the mail.
LEMMA Accepted ==
  ASSUME SessionInv, TypeOK', NEW code \in {250, 354}, pc = "read", Answer(code, "read"),
         UNCHANGED <<config, isAuthenticated, conn>>, Authenticated,
         client'.login = client.login, mail'.size <= MaxMessageSize,
         Learns(client, out.code)'.stage = phase',
         Learns(client, out.code)'.draft = mail',
         Learns(client, out.code)'.login = client.login
  PROVE  SessionInv'
<1>1. pc' = "reply" /\ out'.code = code /\ out'.then = "read"
  BY DEF Answer
<1>2. WillAgree'
  <2>1. PhaseAfter(out.then)' = phase' /\ MailAfter(out.then)' = mail'
    BY <1>1 DEF PhaseAfter, MailAfter
  <2>2. LoginAfter(out.then)' <=> isAuthenticated'
    BY <1>1 DEF LoginAfter
  <2>3. isAuthenticated <=> client.login # "none"
    BY DEF SessionInv, WillAgree, Agrees
  <2> QED
    BY <1>1, <2>1, <2>2, <2>3 DEF WillAgree, AuthReads, Agrees
<1>3. VerbOfWait' /\ ReplyFits'
  BY <1>1 DEF SessionInv, VerbOfWait, ReplyFits, AuthReads
<1>4. ModeObeyed'
  BY <1>1 DEF SessionInv, ModeObeyed, AuthReads, Authenticated, HasAuth
<1> QED
  BY <1>2, <1>3, <1>4 DEF SessionInv

LEMMA MailInv ==
  ASSUME SessionInv, TypeOK', NEW a \in Addresses, Mail(a)
  PROVE  SessionInv'
<1>k. client \in Clients /\ pc = "read"
  BY DEF SessionInv, TypeOK, Mail, Ready
<1>1. CASE ~(phase = "Greeted" /\ Authenticated)
  BY <1>k, <1>1, Refusal DEF Mail
<1>2. CASE phase = "Greeted" /\ Authenticated
  <2>1. client'.verb = "MAIL" /\ client'.arg = a /\ client'.login = client.login
    BY <1>k, SendsKeeps DEF Mail
  <2>2. /\ mail' = [EmptyMail EXCEPT !.from = a]
        /\ phase' = "Envelope"
        /\ Answer(250, "read")
    BY <1>2 DEF Mail
  <2>3. Learns(client, out.code)'
          = [client' EXCEPT !.stage = "Envelope", !.draft = [EmptyMail EXCEPT !.from = client'.arg]]
    BY <2>1, <2>2 DEF Learns, Answer
  <2>4. /\ Learns(client, out.code)'.stage = phase'
        /\ Learns(client, out.code)'.draft = mail'
        /\ Learns(client, out.code)'.login = client.login
    BY <2>1, <2>2, <2>3 DEF TypeOK, Clients
  <2>5. mail'.size <= MaxMessageSize
    BY <2>2, SizesAssumption DEF EmptyMail
  <2> QED
    BY <1>k, <1>2, <2>1, <2>2, <2>4, <2>5, Accepted DEF Mail
<1> QED
  BY <1>1, <1>2

LEMMA RecipientInv ==
  ASSUME SessionInv, TypeOK', NEW a \in Addresses, Recipient(a)
  PROVE  SessionInv'
<1>k. client \in Clients /\ pc = "read" /\ mail \in Mails
  BY DEF SessionInv, TypeOK, Recipient, Ready
<1>1. CASE ~(phase = "Envelope" /\ Authenticated)
  BY <1>k, <1>1, Refusal DEF Recipient
<1>2. CASE phase = "Envelope" /\ Authenticated
  <2>1. /\ client'.verb = "RCPT" /\ client'.arg = a /\ client'.login = client.login
        /\ client'.stage = client.stage /\ client'.draft = client.draft
    BY <1>k, SendsKeeps DEF Recipient
  <2>2. mail' = [mail EXCEPT !.to = Append(@, a)] /\ phase' = phase /\ Answer(250, "read")
    BY <1>2 DEF Recipient
  <2>3. Learns(client, out.code)'
          = [client' EXCEPT !.draft.to = Append(@, client'.arg)]
    BY <2>1, <2>2 DEF Learns, Answer
  <2>4. client.draft = mail /\ client.stage = phase
    BY <1>k DEF SessionInv, WillAgree, Agrees
  <2>5. /\ Learns(client, out.code)'.stage = phase'
        /\ Learns(client, out.code)'.draft = mail'
        /\ Learns(client, out.code)'.login = client.login
    BY <2>1, <2>2, <2>3, <2>4 DEF TypeOK, Clients, Mails
  <2>6. mail'.size <= MaxMessageSize
    BY <1>k, <2>2 DEF SessionInv, Mails
  <2> QED
    BY <1>k, <1>2, <2>1, <2>2, <2>5, <2>6, Accepted DEF Recipient
<1> QED
  BY <1>1, <1>2

LEMMA DataInv == ASSUME SessionInv, TypeOK', Data PROVE SessionInv'
<1>k. client \in Clients /\ pc = "read"
  BY DEF SessionInv, TypeOK, Data, Ready
<1>1. CASE ~(phase = "Envelope" /\ Authenticated)
  BY <1>k, <1>1, Refusal DEF Data
<1>2. CASE phase = "Envelope" /\ Authenticated
  <2>1. /\ client'.verb = "DATA" /\ client'.login = client.login
        /\ client'.draft = client.draft
    BY <1>k, SendsKeeps DEF Data
  <2>2. phase' = "Data" /\ mail' = mail /\ Answer(354, "read")
    BY <1>2 DEF Data
  <2>3. Learns(client, out.code)' = [client' EXCEPT !.stage = "Data"]
    BY <2>1, <2>2 DEF Learns, Answer
  <2>4. client.draft = mail
    BY <1>k DEF SessionInv, WillAgree, Agrees
  <2>5. /\ Learns(client, out.code)'.stage = phase'
        /\ Learns(client, out.code)'.draft = mail'
        /\ Learns(client, out.code)'.login = client.login
    BY <2>1, <2>2, <2>3, <2>4 DEF TypeOK, Clients
  <2> QED
    BY <1>k, <1>2, <2>1, <2>2, <2>5, Accepted DEF Data, SessionInv
<1> QED
  BY <1>1, <1>2

LEMMA ResetInv == ASSUME SessionInv, TypeOK', Reset PROVE SessionInv'
<1>k. client \in Clients /\ pc = "read"
  BY DEF SessionInv, TypeOK, Reset, Ready
<1>1. client'.verb = "RSET" /\ client'.login = client.login
  BY <1>k, SendsKeeps DEF Reset
<1>2. pc' = "reply" /\ out' = [code |-> 250, then |-> "on_reset"]
  BY DEF Reset, Answer
<1>3. Learns(client, out.code)' = Forgets(client')
  BY <1>1, <1>2 DEF Learns, Forgets
<1>4. Agrees(Learns(client, out.code)', "Connected", EmptyMail, FALSE)
  BY <1>3 DEF Forgets, Agrees, TypeOK, Clients
<1>5. WillAgree'
  BY <1>2, <1>4 DEF WillAgree, Reset, ResetState, PhaseAfter, MailAfter, LoginAfter,
                    Agrees, AuthReads
<1>6. VerbOfWait' /\ ReplyFits'
  BY <1>k, <1>1, <1>2 DEF Reset, SessionInv, VerbOfWait, ReplyFits, AuthReads
<1>7. ModeObeyed'
  BY <1>1, <1>2 DEF Reset, ResetState, SessionInv, ModeObeyed, AuthReads
<1>8. mail'.size <= MaxMessageSize
  BY SizesAssumption DEF Reset, ResetState, EmptyMail
<1> QED
  BY <1>5, <1>6, <1>7, <1>8 DEF SessionInv

LEMMA DataLineInv ==
  ASSUME SessionInv, TypeOK', NEW meant \in BodyLines, DataLine(meant)
  PROVE  SessionInv'
<1>k. client \in Clients /\ pc = "read" /\ phase = "Data" /\ mail \in Mails
  BY DEF SessionInv, TypeOK, DataLine, Capturing
<1>1. Unstuffed(Wire(meant)) = meant
  BY Transparency
<1>2. client' = [client EXCEPT !.draft = AppendData(client.draft, meant)]
  BY <1>k DEF DataLine, Clients
<1>3. client'.verb = client.verb /\ client'.login = client.login
      /\ client'.stage = client.stage /\ client'.draft = AppendData(mail, meant)
  BY <1>k, <1>2 DEF Clients, SessionInv, WillAgree, Agrees
<1>4. AppendData(mail, meant).size = mail.size + meant.len
  BY <1>k DEF AppendData, Mails
<1>5. CASE TooLong(meant)
  <2>1. pc' = "reply" /\ out' = [code |-> 552, then |-> "closed"] /\ mail' = mail
    BY <1>k, <1>1, <1>5 DEF DataLine, Answer
  <2>2. WillAgree'
    BY <2>1 DEF WillAgree, AuthReads
  <2>3. VerbOfWait'
    BY <1>k, <2>1 DEF DataLine, SessionInv, VerbOfWait, AuthReads
  <2>4. ReplyFits'
    BY <1>3, <1>4, <1>5, <2>1 DEF ReplyFits, TooLong, AuthReads
  <2>5. ModeObeyed'
    BY <1>3, <2>1 DEF DataLine, SessionInv, ModeObeyed, AuthReads, Authenticated, HasAuth
  <2> QED
    BY <2>1, <2>2, <2>3, <2>4, <2>5 DEF SessionInv
<1>6. CASE ~TooLong(meant)
  <2>1. mail' = AppendData(mail, meant) /\ UNCHANGED <<pc, out>>
    BY <1>1, <1>6 DEF DataLine
  <2>2. WillAgree'
    BY <1>k, <1>3, <2>1 DEF DataLine, SessionInv, WillAgree, Agrees, AuthReads
  <2>3. VerbOfWait' /\ ReplyFits'
    BY <1>k, <1>3, <2>1 DEF DataLine, SessionInv, VerbOfWait, ReplyFits, AuthReads
  <2>4. ModeObeyed'
    BY <1>k, <1>3, <2>1 DEF DataLine, SessionInv, ModeObeyed, AuthReads, Authenticated, HasAuth
  <2>5. mail'.size <= MaxMessageSize
    <3>1. mail.size \in Nat /\ meant.len \in Nat
      BY <1>k, BodyLinesAssumption DEF Mails
    <3> QED
      BY <1>4, <1>6, <2>1, <3>1, SizesAssumption DEF TooLong
  <2> QED
    BY <2>2, <2>3, <2>4, <2>5 DEF SessionInv
<1> QED
  BY <1>5, <1>6

LEMMA DataEndInv == ASSUME SessionInv, TypeOK', DataEnd PROVE SessionInv'
<1>k. client \in Clients /\ pc = "read" /\ phase = "Data"
  BY DEF SessionInv, TypeOK, DataEnd, Capturing
<1>1. /\ client'.verb = "DOT" /\ client'.login = client.login
      /\ client'.stage = client.stage /\ client'.draft = client.draft
  BY <1>k, SendsKeeps DEF DataEnd
<1>2. pc' = "on_mail" /\ UNCHANGED <<config, phase, isAuthenticated, mail, conn>>
  BY DEF DataEnd, Await, serverState
<1>3. WillAgree'
  BY <1>k, <1>1, <1>2 DEF SessionInv, WillAgree, Agrees, AuthReads
<1>4. VerbOfWait' /\ ReplyFits'
  BY <1>k, <1>1, <1>2 DEF SessionInv, VerbOfWait, ReplyFits, AuthReads
<1>5. ModeObeyed'
  BY <1>1, <1>2 DEF SessionInv, ModeObeyed, AuthReads, Authenticated, HasAuth
<1> QED
  BY <1>2, <1>3, <1>4, <1>5 DEF SessionInv

\* The handler's verdicts.
LEMMA ReturnInv ==
  ASSUME SessionInv, TypeOK', NEW ok \in BOOLEAN,
         HelloReturns(ok) \/ LoginReturns(ok) \/ MailReturns(ok)
  PROVE  SessionInv'
<1> USE DEF serverState
<1>k. client \in Clients
  BY DEF SessionInv, TypeOK
<1>0. UNCHANGED <<config, phase, isAuthenticated, mail, conn, client>>
  BY DEF HelloReturns, LoginReturns, MailReturns
<1>a. Agrees(client, phase, mail, isAuthenticated) /\ conn # "none"
  BY DEF HelloReturns, LoginReturns, MailReturns, SessionInv, WillAgree, VerbOfWait, AuthReads
<1>1. \/ pc' = "closed"
      \/ pc' = "reply" /\ out'.then = "closed" /\ out'.code = 535
      \/ pc' = "reply" /\ out'.then = "greeted" /\ out'.code = 250 /\ client.verb = "HELO"
      \/ /\ pc' = "reply" /\ out'.then = "authenticated" /\ out'.code = 235
         /\ client.verb = "AUTH" /\ (config.authMode = "RequireTls" => conn = "tls")
      \/ /\ pc' = "reply" /\ out'.then = "mail_done" /\ out'.code \in {250, 451}
         /\ client.verb = "DOT"
  BY DEF HelloReturns, LoginReturns, MailReturns, Answer, Await, SessionInv, VerbOfWait,
         ModeObeyed
<1>2. WillAgree'
  <2>1. CASE pc' = "reply" /\ out'.then = "greeted"
    <3>1. Learns(client, out.code)' = [client EXCEPT !.stage = "Greeted"]
      BY <1>0, <1>1, <2>1 DEF Learns
    <3> QED
      BY <1>k, <1>a, <1>0, <2>1, <3>1
         DEF WillAgree, Agrees, PhaseAfter, MailAfter, LoginAfter, AuthReads, Clients
  <2>2. CASE pc' = "reply" /\ out'.then = "authenticated"
    <3>1. Learns(client, out.code)' = [client EXCEPT !.login = conn]
      BY <1>0, <1>1, <2>2 DEF Learns
    <3> QED
      BY <1>k, <1>a, <1>0, <2>2, <3>1
         DEF WillAgree, Agrees, PhaseAfter, MailAfter, LoginAfter, AuthReads, Clients
  <2>3. CASE pc' = "reply" /\ out'.then = "mail_done"
    <3>1. Learns(client, out.code)' = [client EXCEPT !.stage = "Greeted", !.draft = EmptyMail]
      BY <1>0, <1>1, <2>3 DEF Learns
    <3> QED
      BY <1>k, <1>a, <1>0, <2>3, <3>1
         DEF WillAgree, Agrees, PhaseAfter, MailAfter, LoginAfter, AuthReads, Clients
  <2>4. CASE pc' = "closed" \/ (pc' = "reply" /\ out'.then = "closed")
    BY <2>4 DEF WillAgree, AuthReads
  <2> QED
    BY <1>1, <2>1, <2>2, <2>3, <2>4
<1>3. VerbOfWait' /\ ReplyFits'
  BY <1>0, <1>1, <1>a DEF VerbOfWait, ReplyFits, AuthReads
<1>4. ModeObeyed'
  BY <1>0, <1>1 DEF SessionInv, ModeObeyed, AuthReads, Authenticated, HasAuth
<1> QED
  BY <1>0, <1>2, <1>3, <1>4 DEF SessionInv

LEMMA OtherReturnInv ==
  ASSUME SessionInv, TypeOK', NEW ok \in BOOLEAN, ResetReturns \/ TlsReturns(ok) \/ Abort
  PROVE  SessionInv'
<1> USE DEF serverState, Await
<1>1. CASE ResetReturns
  BY <1>1 DEF ResetReturns, SessionInv, WillAgree, VerbOfWait, ReplyFits, ModeObeyed,
              AuthReads, Authenticated, HasAuth
<1>2. CASE Abort \/ (TlsReturns(ok) /\ ~ok)
  BY <1>2 DEF Abort, TlsReturns, SessionInv, WillAgree, VerbOfWait, ReplyFits, ModeObeyed,
              AuthReads, Authenticated, HasAuth
<1>3. CASE TlsReturns(ok) /\ ok
  <2>1. WillAgree'
    BY <1>3 DEF TlsReturns, ResetState, SessionInv, WillAgree, Agrees, AuthReads
  <2>2. VerbOfWait' /\ ReplyFits' /\ ModeObeyed'
    BY <1>3 DEF TlsReturns, ResetState, SessionInv, VerbOfWait, ReplyFits, ModeObeyed, AuthReads
  <2>3. mail'.size <= MaxMessageSize
    BY <1>3, SizesAssumption DEF TlsReturns, ResetState, EmptyMail
  <2> QED
    BY <2>1, <2>2, <2>3 DEF SessionInv
<1> QED
  BY <1>1, <1>2, <1>3

LEMMA SendReplyInv == ASSUME SessionInv, TypeOK', SendReply PROVE SessionInv'
<1> DEFINE Next == Learns(client, out.code)
<1>k. client \in Clients /\ out.code \in Codes /\ out.then \in Afterwards /\ pc = "reply"
  BY DEF SessionInv, TypeOK, SendReply
<1>1. client' = Next /\ Next.verb = client.verb /\ UNCHANGED config
  BY <1>k, LearnsKeepsLine DEF SendReply, SessionInv
<1>2. /\ phase' = PhaseAfter(out.then)
      /\ isAuthenticated' = LoginAfter(out.then)
      /\ mail' = MailAfter(out.then)
  BY DEF SendReply
<1>3. pc' \in {"read", "closed", "on_reset", "start_tls"} \cup AuthReads
  BY <1>k DEF SendReply, Afterwards
<1>l. Next.login # "plain" \/ client.login = "plain" \/ (out.code = 235 /\ conn = "plain")
  <2>1. [client EXCEPT !.draft.to = Append(@, client.arg)].login = client.login
    BY <1>k DEF Clients, Mails
  <2> QED
    BY <1>k, <2>1 DEF Learns, Forgets, Clients
<1>4. WillAgree'
  <2>1. CASE out.then = "closed"
    BY <2>1 DEF SendReply, WillAgree, AuthReads
  <2>2. CASE out.then = "start_tls"
    <3>1. Next = Forgets(client)
      BY <1>k, <2>2 DEF SessionInv, ReplyFits, Learns
    <3>2. Agrees(client', "Connected", EmptyMail, FALSE)
      BY <1>k, <1>1, <3>1 DEF Forgets, Agrees, Clients
    <3> QED
      BY <2>2, <3>2 DEF SendReply, WillAgree, AuthReads
  <2>3. CASE out.then \notin {"closed", "start_tls"}
    <3>1. Agrees(client', phase', mail', isAuthenticated')
      BY <1>k, <1>1, <1>2, <2>3 DEF SessionInv, WillAgree, Agrees
    <3>2. pc' # "start_tls" /\ pc' # "reply"
      BY <1>3, <2>3 DEF SendReply, AuthReads
    <3> QED
      BY <3>1, <3>2 DEF WillAgree
  <2> QED
    BY <2>1, <2>2, <2>3
<1>5. VerbOfWait'
  BY <1>k, <1>1, <1>2, <1>3
     DEF SendReply, SessionInv, VerbOfWait, ReplyFits, AuthReads, PhaseAfter
<1>6. ReplyFits'
  BY <1>3 DEF ReplyFits, AuthReads
<1>7. ModeObeyed'
  <2>1. conn' = "tls" \/ conn' = conn \/ pc' = "start_tls"
    BY DEF SendReply
  <2>2. config.authMode = "RequireTls" => Next.login # "plain"
    BY <1>k, <1>l DEF SessionInv, ModeObeyed, ReplyFits
  <2>3. phase' \in {"Envelope", "Data"} => Authenticated'
    BY <1>1, <1>2
       DEF SessionInv, ModeObeyed, Authenticated, HasAuth, PhaseAfter, LoginAfter
  <2>4. pc' \in AuthReads \cup {"on_login"} => pc' = out.then /\ conn' = conn
    BY <1>3 DEF SendReply, AuthReads
  <2> QED
    BY <1>k, <1>1, <1>3, <2>2, <2>3, <2>4 DEF SessionInv, ModeObeyed, AuthReads
<1>8. mail'.size <= MaxMessageSize
  BY <1>2, SizesAssumption DEF MailAfter, EmptyMail, SessionInv
<1> QED
  BY <1>4, <1>5, <1>6, <1>7, <1>8 DEF SessionInv

LEMMA InvStep == SessionInv /\ [SessionNext]_sessionVars => SessionInv'
<1> SUFFICES ASSUME SessionInv, [SessionNext]_sessionVars PROVE SessionInv'
  OBVIOUS
<1>t. TypeOK'
  BY TypeStep DEF SessionInv
<1>1. CASE UNCHANGED sessionVars
  <2> USE <1>1 DEF sessionVars
  <2>1. Learns(client, out.code)' = Learns(client, out.code)
    BY DEF Learns
  <2>2. /\ PhaseAfter(out.then)' = PhaseAfter(out.then)
        /\ MailAfter(out.then)' = MailAfter(out.then)
        /\ LoginAfter(out.then)' <=> LoginAfter(out.then)
    BY DEF PhaseAfter, MailAfter, LoginAfter
  <2>3. WillAgree'
    BY <2>1, <2>2 DEF SessionInv, WillAgree, Agrees
  <2>4. VerbOfWait' /\ ReplyFits' /\ ModeObeyed'
    BY DEF SessionInv, VerbOfWait, ReplyFits, ModeObeyed, Authenticated, HasAuth
  <2> QED
    BY <1>t, <2>3, <2>4 DEF SessionInv
<1>2. CASE SessionStep
  <2>1. CASE Hello \/ Help \/ NoOp \/ Unparsable \/ Quit \/ StartTls
    BY <1>t, <2>1, CommandInv
  <2>2. CASE \E step \in {"auth_plain", "auth_user"}, initial, ok \in BOOLEAN :
               Authenticate(step, initial, ok)
    BY <1>t, <2>2, AuthInv
  <2>3. CASE \E a \in Addresses : Mail(a) \/ Recipient(a)
    BY <1>t, <2>3, MailInv, RecipientInv
  <2>4. CASE Data \/ Reset \/ DataEnd
    BY <1>t, <2>4, DataInv, ResetInv, DataEndInv
  <2>5. CASE \E line \in BodyLines : DataLine(line)
    BY <1>t, <2>5, DataLineInv
  <2>6. CASE ChallengeEof \/ \E ok \in BOOLEAN : ChallengeLine(ok)
    BY <1>t, <2>6, ChallengeInv
  <2>7. CASE \E ok \in BOOLEAN : HelloReturns(ok) \/ TlsReturns(ok)
    BY <1>t, <2>7, ReturnInv, OtherReturnInv
  <2> QED
    BY <1>2, <2>1, <2>2, <2>3, <2>4, <2>5, <2>6, <2>7 DEF SessionStep, Command
<1>3. CASE \E ok \in BOOLEAN : LoginReturns(ok) \/ MailReturns(ok)
  BY <1>t, <1>3, ReturnInv
<1>4. CASE ResetReturns \/ Abort
  BY <1>t, <1>4, OtherReturnInv
<1>5. CASE SendReply
  BY <1>t, <1>5, SendReplyInv
<1> QED
  BY <1>1, <1>2, <1>3, <1>4, <1>5 DEF SessionNext

LEMMA InvInit == SessionInit => SessionInv
<1> SUFFICES ASSUME SessionInit PROVE SessionInv
  OBVIOUS
<1>1. TypeOK
  BY TypeInit
<1>2. Learns(client, out.code) = client
  BY DEF SessionInit, Learns
<1>3. WillAgree
  BY <1>2 DEF SessionInit, WillAgree, Agrees, PhaseAfter, MailAfter, LoginAfter, AuthReads
<1>4. VerbOfWait /\ ReplyFits /\ ModeObeyed
  BY DEF SessionInit, VerbOfWait, ReplyFits, ModeObeyed, AuthReads
<1>5. mail.size <= MaxMessageSize
  BY SizesAssumption DEF SessionInit, EmptyMail
<1> QED
  BY <1>1, <1>3, <1>4, <1>5 DEF SessionInv

\* SmtpSession: whenever the session waits for a line or hands over a mail,
\* the client and Session::handle agree on the phase, the mail and the login.
THEOREM StaysInStep == SessionSpec => []InStep
<1>1. SessionInv => InStep
  BY DEF SessionInv, WillAgree, Agrees, InStep
<1> QED
  BY <1>1, InvInit, InvStep, PTL DEF SessionSpec

\* SmtpSession: a mail handed to the handler comes from a client that was
\* told its login succeeded, over TLS where the configuration requires it.
THEOREM MailAuthorised == SessionSpec => []MailIsAuthorised
<1>1. SessionInv => MailIsAuthorised
  BY DEF SessionInv, TypeOK, Clients, WillAgree, Agrees, VerbOfWait, ModeObeyed,
         Authenticated, MailIsAuthorised
<1> QED
  BY <1>1, InvInit, InvStep, PTL DEF SessionSpec

\* SmtpSession: in RequireTls mode credentials are only handled over TLS.
THEOREM CredentialsNeedTls == SessionSpec => []CredentialsOverTls
<1>1. SessionInv => CredentialsOverTls
  BY DEF SessionInv, ModeObeyed, CredentialsOverTls
<1> QED
  BY <1>1, InvInit, InvStep, PTL DEF SessionSpec

\* SmtpSession: the size limit holds, and 552 is only said of longer messages.
THEOREM SizeIsLimited == SessionSpec => []SizeLimit
<1>1. SessionInv => SizeLimit
  BY DEF SessionInv, ReplyFits, SizeLimit
<1> QED
  BY <1>1, InvInit, InvStep, PTL DEF SessionSpec
================================================================================
