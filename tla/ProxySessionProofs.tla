--------------------------- MODULE ProxySessionProofs ---------------------------
(* Proofs about ProxySession, for every configuration, set of users, notion   *)
(* of who may send as whom, and bound.                                        *)
EXTENDS ProxySession, SmtpSessionProofs, SequenceTheorems

--------------------------------------------------------------------------------
(* What the steps do to the session *)

LEMMA SessionSteps == [ProxyNext]_proxyVars => [SessionNext]_sessionVars
<1> SUFFICES ASSUME [ProxyNext]_proxyVars PROVE [SessionNext]_sessionVars
  OBVIOUS
<1>1. CASE EndOfMail \/ OtherStep \/ ReplySent
  BY <1>1 DEF EndOfMail, OtherStep, ReplySent, SessionNext, SessionStep
<1>2. ASSUME NEW user \in Users, NEW valid \in BOOLEAN, OnLogin(user, valid)
      PROVE  SessionNext
  BY <1>2 DEF OnLogin, SessionNext
<1>3. CASE OnMail \/ SendMailContinues
  BY <1>3 DEF OnMail, SendMailContinues, SessionNext
<1>4. CASE OnReset \/ CutOff
  BY <1>4 DEF OnReset, CutOff, SessionNext
<1>5. CASE OnDisconnect \/ ServiceStep \/ UNCHANGED proxyVars
  BY <1>5 DEF OnDisconnect, ServiceStep, proxyVars
<1> QED
  BY <1>1, <1>2, <1>3, <1>4, <1>5 DEF ProxyNext

LEMMA SessionInvKept == ASSUME ProxyInv, [ProxyNext]_proxyVars PROVE SessionInv'
BY SessionSteps, InvStep DEF ProxyInv

\* Commands, lines and the returns of handshake and on_hello leave on_mail
\* alone and say nothing that the handler did not decide.
LEMMA OtherStepEffect ==
  ASSUME SessionInv, AuthOffered, OtherStep
  PROVE  /\ UNCHANGED <<config, graphVars, handlerVars, report, historyVars>>
         /\ pc \notin {"on_mail", "on_login", "closed", "reply"}
         /\ pc' \notin {"on_mail", "on_reset"}
         /\ isAuthenticated' => isAuthenticated
         /\ pc' \in AuthReads \cup {"on_login"} => HasAuth
         /\ pc' = "reply" =>
              /\ out'.then # "authenticated"
              /\ out'.then \in AuthReads => HasAuth
              /\ out'.then = "on_reset" => ~isAuthenticated'
              /\ ~(client'.verb = "DOT" /\ out'.code = 250)
<1> DEFINE Effect ==
              /\ config' = config
              /\ pc \notin {"on_mail", "on_login", "closed", "reply"}
              /\ pc' \notin {"on_mail", "on_reset"}
              /\ isAuthenticated' => isAuthenticated
              /\ pc' \in AuthReads \cup {"on_login"} => HasAuth
              /\ pc' = "reply" =>
                   /\ out'.then # "authenticated"
                   /\ out'.then \in AuthReads => HasAuth
                   /\ out'.then = "on_reset" => ~isAuthenticated'
                   /\ ~(client'.verb = "DOT" /\ out'.code = 250)
<1> SUFFICES Effect
  BY DEF OtherStep
<1>t. client \in Clients
  BY DEF SessionInv, TypeOK
<1>v. \A verb, arg : Sends(verb, arg) => client'.verb = verb
  BY <1>t DEF Sends, Clients
<1> USE DEF Ready, Answer, Await, AuthReads
<1>1. CASE Hello \/ Help \/ NoOp \/ Unparsable \/ StartTls \/ Data \/ Quit
  BY <1>1, <1>v DEF Hello, Help, NoOp, Unparsable, StartTls, Data, Quit, serverState
<1>2. CASE Reset
  BY <1>2, <1>v DEF Reset, ResetState
<1>3. ASSUME NEW step \in {"auth_plain", "auth_user"}, NEW initial \in BOOLEAN, NEW ok \in BOOLEAN,
             Authenticate(step, initial, ok)
      PROVE  Effect
  <2>0. /\ pc = "read" /\ config' = config /\ isAuthenticated' = isAuthenticated
        /\ client'.verb = "AUTH"
    BY <1>3, <1>v DEF Authenticate, serverState
  <2>1. CASE Answer(503, "read") \/ Answer(500, "read")
    BY <2>0, <2>1
  <2>2. CASE HasAuth /\ Answer(334, step)
    BY <2>0, <2>2
  <2>3. CASE HasAuth /\ AuthPayload(step, ok)
    BY <2>0, <2>3 DEF AuthPayload
  <2> QED
    BY <1>3, <2>1, <2>2, <2>3 DEF Authenticate
<1>4. ASSUME NEW a \in Addresses, Mail(a) \/ Recipient(a) PROVE Effect
  <2>1. /\ pc = "read" /\ pc' = "reply" /\ out'.then = "read"
        /\ config' = config /\ isAuthenticated' = isAuthenticated
    BY <1>4 DEF Mail, Recipient
  <2>2. client'.verb \in {"MAIL", "RCPT"}
    BY <1>4, <1>v DEF Mail, Recipient
  <2> QED
    BY <2>1, <2>2
<1>5. ASSUME NEW line \in BodyLines, DataLine(line) PROVE Effect
  BY <1>5 DEF DataLine, Capturing
<1>6. ASSUME NEW ok \in BOOLEAN, ChallengeLine(ok) PROVE Effect
  <2>1. pc \in AuthReads /\ HasAuth /\ client'.verb = client.verb
    BY <1>6 DEF ChallengeLine, AuthOffered
  <2>2. client.verb = "AUTH"
    BY <2>1 DEF SessionInv, VerbOfWait
  <2> QED
    BY <1>6, <2>1, <2>2 DEF ChallengeLine, AuthPayload, serverState
<1>7. CASE ChallengeEof
  <2>1. client'.verb = "AUTH"
    BY <1>7 DEF ChallengeEof, SessionInv, VerbOfWait
  <2> QED
    BY <1>7, <2>1 DEF ChallengeEof, serverState
<1>8. ASSUME NEW ok \in BOOLEAN, TlsReturns(ok) PROVE Effect
  BY <1>8 DEF TlsReturns, ResetState, serverState
<1>9. CASE HelloReturns(TRUE)
  <2>1. client'.verb = "HELO"
    BY <1>9 DEF HelloReturns, SessionInv, VerbOfWait
  <2> QED
    BY <1>9, <2>1 DEF HelloReturns, serverState
<1> HIDE DEF Effect
<1>10. CASE Command
  BY <1>1, <1>2, <1>3, <1>4, <1>10 DEF Command
<1> QED
  BY <1>5, <1>6, <1>7, <1>8, <1>9, <1>10 DEF OtherStep

\* A reply that is written leads to a read, the end, on_reset or the handshake.
LEMMA ReplySentEffect ==
  ASSUME SessionInv, ReplySent
  PROVE  /\ UNCHANGED <<config, graphVars, handlerVars, report, lastLogin, mails>>
         /\ confirmed' = IF client.verb = "DOT" /\ out.code = 250
                         THEN confirmed \cup {Len(mails)} ELSE confirmed
         /\ pc = "reply"
         /\ pc' \notin {"on_mail", "on_login", "reply"}
         /\ isAuthenticated' <=> isAuthenticated \/ out.then = "authenticated"
         /\ pc' \in AuthReads => out.then \in AuthReads
         /\ pc' = "on_reset" <=> out.then = "on_reset"
         /\ pc' = "closed" <=> out.then = "closed"
<1>1. out.then \in Afterwards /\ isAuthenticated \in BOOLEAN
  BY DEF SessionInv, TypeOK
<1>2. pc' = IF out.then \in {"greeted", "authenticated", "mail_done"} THEN "read" ELSE out.then
  BY DEF ReplySent, SendReply
<1>3. isAuthenticated' <=> isAuthenticated \/ out.then = "authenticated"
  BY DEF ReplySent, SendReply, LoginAfter
<1>4. config' = config /\ pc = "reply"
  BY DEF ReplySent, SendReply
<1>5. /\ pc' \notin {"on_mail", "on_login", "reply"}
      /\ pc' \in AuthReads => out.then \in AuthReads
      /\ pc' = "on_reset" <=> out.then = "on_reset"
      /\ pc' = "closed" <=> out.then = "closed"
  BY <1>1, <1>2 DEF Afterwards, AuthReads
<1> QED
  BY <1>3, <1>4, <1>5 DEF ReplySent

\* The client ends a message: what it sent is what the session holds.
LEMMA EndOfMailEffect ==
  ASSUME SessionInv, EndOfMail
  PROVE  /\ UNCHANGED <<config, serverState, graphVars, handlerVars, report, lastLogin, confirmed>>
         /\ pc = "read" /\ phase = "Data" /\ pc' = "on_mail"
         /\ client'.login = client.login
         /\ isAuthenticated <=> client.login # "none"
         /\ Len(mails) < MaxMails
         /\ mails' = Append(mails, [from |-> mail.from, data |-> mail.data,
                        user |-> IF client.login = "none" THEN NoUser ELSE lastLogin.user])
<1>1. pc = "read" /\ phase = "Data" /\ pc' = "on_mail"
  BY DEF EndOfMail, DataEnd, Capturing, Await
<1>2. client.draft = mail /\ (isAuthenticated <=> client.login # "none")
  BY <1>1 DEF SessionInv, WillAgree, Agrees
<1>3. client'.login = client.login
  BY DEF EndOfMail, DataEnd, Sends, SessionInv, TypeOK, Clients
<1>4. UNCHANGED <<config, serverState>>
  BY DEF EndOfMail, DataEnd
<1> QED
  BY <1>1, <1>2, <1>3, <1>4 DEF EndOfMail

\* The last mail of a session that is logged in where it has to be is
\* permitted if its sender passes the check of on_mail.
LEMMA CurrentMailPermitted ==
  ASSUME ProxyInv, pc = "on_mail", SenderAllowed
  PROVE  /\ Len(mails) \in DOMAIN mails
         /\ Relay!Permitted(mails[Len(mails)])
         /\ Request = Relay!Copy(Len(mails))
<1>1. /\ mails \in Seq([from : Addresses \cup {NoAddress}, data : Seq(BodyLines),
                        user : Users \cup {NoUser}])
      /\ mails # <<>>
  BY DEF ProxyInv, ProxyTypeOK, MailMeant
<1>2. Len(mails) \in DOMAIN mails
  BY <1>1
<1>3. mails[Len(mails)] =
        [from |-> mail.from, data |-> mail.data,
         user |-> IF client.login = "none" THEN NoUser ELSE lastLogin.user]
  BY DEF ProxyInv, MailMeant
<1>4. /\ phase = "Data" /\ (isAuthenticated <=> client.login # "none")
      /\ HasAuth => isAuthenticated
      /\ isAuthenticated => HasAuth
  BY DEF ProxyInv, SessionInv, VerbOfWait, WillAgree, Agrees, ModeObeyed, Authenticated, AuthOffered
<1>5. isAuthenticated => username = lastLogin.user /\ username \in Users
  BY DEF ProxyInv, LoginKnown, Ending
<1>6. Relay!Permitted(mails[Len(mails)])
  BY <1>3, <1>4, <1>5, ProxyAssumption DEF Relay!Permitted, SenderAllowed
<1>7. Request = Relay!Copy(Len(mails))
  BY <1>3 DEF Request, Relay!Copy
<1> QED
  BY <1>2, <1>6, <1>7

--------------------------------------------------------------------------------
(* Type *)

LEMMA ProxyTypeStep ==
  ASSUME ProxyInv, [ProxyNext]_proxyVars
  PROVE  ProxyTypeOK' /\ Len(mails') <= MaxMails
<1> DEFINE Completed == [from : Addresses \cup {NoAddress}, data : Seq(BodyLines),
                         user : Users \cup {NoUser}]
<1>t. SessionInv /\ AuthOffered /\ ProxyTypeOK /\ Len(mails) <= MaxMails /\ MaxMails \in Nat
  BY ProxyAssumption DEF ProxyInv
<1> USE <1>t DEF ProxyTypeOK
<1>m. mail \in Mails /\ mails \in Seq(Completed) /\ Len(mails) \in Nat
  BY DEF SessionInv, TypeOK
<1>1. CASE EndOfMail
  <2> DEFINE m == [from |-> mail.from, data |-> mail.data,
                   user |-> IF client.login = "none" THEN NoUser ELSE lastLogin.user]
  <2>1. m \in Completed
    BY <1>m DEF Mails
  <2>2. mails' = Append(mails, m) /\ Len(mails) < MaxMails
    BY <1>1, EndOfMailEffect
  <2> HIDE DEF m
  <2>3. mails' \in Seq(Completed) /\ Len(mails') <= MaxMails
    BY <1>m, <2>1, <2>2
  <2>4. UNCHANGED <<graphVars, handlerVars, report, lastLogin, confirmed>>
    BY <1>1, EndOfMailEffect
  <2> QED
    BY <2>3, <2>4 DEF graphVars, handlerVars
<1>2. CASE OtherStep
  BY <1>2 DEF OtherStep, graphVars, handlerVars, historyVars
<1>3. CASE ReplySent
  <2>1. UNCHANGED <<graphVars, handlerVars, report, lastLogin, mails>>
    BY <1>3, ReplySentEffect
  <2>2. confirmed' \subseteq confirmed \cup {Len(mails)}
    BY <1>3, ReplySentEffect
  <2>3. confirmed' # confirmed => Len(mails) >= 1
    <3>1. SUFFICES ASSUME confirmed' # confirmed PROVE Len(mails) >= 1
      OBVIOUS
    <3>2. client.verb = "DOT" /\ out.code = 250 /\ pc = "reply"
      BY <1>3, <3>1, ReplySentEffect
    <3>3. PICK i \in DOMAIN accepted : accepted[i].n = Len(mails)
      BY <3>2 DEF ProxyInv, SuccessIsTrue, IsAccepted
    <3>4. Len(mails) \in DOMAIN mails
      BY <3>3 DEF ProxyInv, RequestsMeant
    <3> QED
      BY <1>m, <3>4
  <2>4. confirmed' \subseteq 1 .. MaxMails
    BY <1>m, <2>2, <2>3
  <2> QED
    BY <2>1, <2>4 DEF graphVars, handlerVars
<1>4. ASSUME NEW user \in Users, NEW valid \in BOOLEAN, OnLogin(user, valid)
      PROVE  ProxyTypeOK' /\ Len(mails') <= MaxMails
  BY <1>4 DEF OnLogin, graphVars
<1>5. CASE OnMail
  BY <1>5 DEF OnMail, SendMail, graphVars, historyVars, Calls
<1>6. CASE SendMailContinues
  <2>1. UNCHANGED <<handlerVars, report, historyVars>>
    BY <1>6 DEF SendMailContinues
  <2>2. CASE Post(Request)
    <3>1. pc = "on_mail"
      BY <2>2 DEF Post, ProxyInv, MailMeant
    <3>2. mails # <<>>
      BY <3>1 DEF ProxyInv, MailMeant
    <3>3. Request \in Requests
      <4>1. Len(mails) \in 1 .. MaxMails
        BY <1>m, <3>2
      <4> QED
        BY <1>m, <4>1 DEF Request, Requests, Mails
    <3> QED
      BY <2>1, <2>2, <3>3 DEF Post, Calls, Tokens, handlerVars, historyVars
  <2>3. CASE TokenGranted \/ TokenFails \/ TokenFoundExpired \/ PostFails \/ PostReturnsOk(Len(mails))
    BY <2>1, <2>3 DEF TokenGranted, TokenFails, TokenFoundExpired, PostFails, PostReturnsOk,
                      Calls, Tokens, handlerVars, historyVars
  <2> QED
    BY <1>6, <2>2, <2>3 DEF SendMailContinues
<1>7. CASE OnReset \/ OnDisconnect
  BY <1>7 DEF OnReset, OnDisconnect, graphVars, handlerVars, historyVars
<1>8. CASE CutOff
  BY <1>8 DEF CutOff, Dropped, handlerVars, historyVars, Calls
<1>9. CASE ServiceStep
  <2>1. UNCHANGED <<handlerVars, report, historyVars>>
    BY <1>9 DEF ServiceStep
  <2>2. CASE TokenExpires
    BY <2>1, <2>2 DEF TokenExpires, Tokens, handlerVars, historyVars
  <2>3. ASSUME NEW r \in inFlight, ServiceAccepts(r) \/ ServiceRefuses(r)
        PROVE  ProxyTypeOK' /\ Len(mails') <= MaxMails
    <3>1. r \in Requests
      OBVIOUS
    <3>2. Append(accepted, r) \in Seq(Requests)
      BY <3>1
    <3>3. accepted' \in Seq(Requests) /\ inFlight' \subseteq Requests
      BY <2>3, <3>2 DEF ServiceAccepts, ServiceRefuses
    <3> QED
      BY <2>1, <2>3, <3>3 DEF ServiceAccepts, ServiceRefuses, handlerVars, historyVars
  <2> QED
    BY <1>9, <2>2, <2>3 DEF ServiceStep
<1>10. CASE UNCHANGED proxyVars
  BY <1>10 DEF proxyVars, graphVars, handlerVars, historyVars
<1> QED
  BY <1>1, <1>2, <1>3, <1>4, <1>5, <1>6, <1>7, <1>8, <1>9, <1>10 DEF ProxyNext

--------------------------------------------------------------------------------
(* Login *)

LEMMA AuthOfferedStep ==
  ASSUME ProxyInv, [ProxyNext]_proxyVars
  PROVE  AuthOffered'
<1>t. SessionInv /\ AuthOffered /\ isAuthenticated \in BOOLEAN /\ out \in [code : Codes, then : Afterwards]
  BY DEF ProxyInv, SessionInv, TypeOK
<1>h. config' = config => (HasAuth' <=> HasAuth)
  BY DEF HasAuth
<1>1. CASE EndOfMail
  BY <1>t, <1>h, <1>1, EndOfMailEffect DEF AuthOffered, AuthReads, serverState
<1>2. CASE OtherStep
  BY <1>t, <1>h, <1>2, OtherStepEffect DEF AuthOffered
<1>3. CASE ReplySent
  BY <1>t, <1>h, <1>3, ReplySentEffect DEF AuthOffered
<1>4. ASSUME NEW user \in Users, NEW valid \in BOOLEAN, OnLogin(user, valid)
      PROVE  AuthOffered'
  <2>1. /\ pc = "on_login" /\ pc' = "reply" /\ out'.then \in {"authenticated", "closed"}
        /\ config' = config /\ isAuthenticated' = isAuthenticated
    BY <1>4 DEF OnLogin, LoginReturns, Answer, serverState
  <2> QED
    BY <1>t, <1>h, <2>1 DEF AuthOffered, AuthReads
<1>5. CASE OnMail \/ SendMailContinues
  <2>1. \/ UNCHANGED sessionVars
        \/ /\ pc' = "reply" /\ out'.then = "mail_done"
           /\ config' = config /\ isAuthenticated' = isAuthenticated
    BY <1>5 DEF OnMail, SendMailContinues, MailReturns, Answer, serverState
  <2> QED
    BY <1>t, <1>h, <2>1 DEF AuthOffered, AuthReads, sessionVars
<1>6. CASE OnReset \/ CutOff
  <2>1. /\ pc' \in {"read", "closed"}
        /\ config' = config /\ isAuthenticated' = isAuthenticated
    BY <1>6 DEF OnReset, ResetReturns, CutOff, Abort, Await, serverState
  <2> QED
    BY <1>t, <1>h, <2>1 DEF AuthOffered, AuthReads
<1>7. CASE OnDisconnect \/ ServiceStep \/ UNCHANGED proxyVars
  <2>1. UNCHANGED sessionVars
    BY <1>7 DEF OnDisconnect, ServiceStep, proxyVars
  <2> QED
    BY <1>t, <1>h, <2>1 DEF AuthOffered, sessionVars
<1> QED
  BY <1>1, <1>2, <1>3, <1>4, <1>5, <1>6, <1>7 DEF ProxyNext

LEMMA LoginKnownStep ==
  ASSUME ProxyInv, [ProxyNext]_proxyVars
  PROVE  LoginKnown'
<1>t. /\ SessionInv /\ AuthOffered /\ LoginKnown
      /\ isAuthenticated \in BOOLEAN /\ out \in [code : Codes, then : Afterwards]
  BY DEF ProxyInv, SessionInv, TypeOK
<1>1. CASE EndOfMail
  BY <1>t, <1>1, EndOfMailEffect DEF LoginKnown, Ending, serverState, handlerVars
<1>2. CASE OtherStep
  BY <1>t, <1>2, OtherStepEffect DEF LoginKnown, Ending, handlerVars, historyVars
<1>3. CASE ReplySent
  BY <1>t, <1>3, ReplySentEffect DEF LoginKnown, Ending, handlerVars
<1>4. ASSUME NEW user \in Users, NEW valid \in BOOLEAN, OnLogin(user, valid)
      PROVE  LoginKnown'
  <2>1. /\ pc' = "reply" /\ isAuthenticated' = isAuthenticated
        /\ out'.then = IF valid THEN "authenticated" ELSE "closed"
        /\ username' = IF valid THEN user ELSE NoUser
        /\ lastLogin'.user = user /\ lastLogin'.ok = valid
    BY <1>4 DEF OnLogin, LoginReturns, Answer, serverState
  <2> QED
    BY <2>1 DEF LoginKnown, Ending
<1>5. CASE OnMail \/ SendMailContinues
  <2>1. /\ UNCHANGED <<username, lastLogin>>
        /\ pc = "on_mail" \/ UNCHANGED sessionVars
        /\ \/ UNCHANGED sessionVars
           \/ /\ pc' = "reply" /\ out'.then = "mail_done"
              /\ isAuthenticated' = isAuthenticated
    BY <1>5 DEF OnMail, SendMailContinues, MailReturns, Answer, serverState, handlerVars, historyVars
  <2> QED
    BY <1>t, <2>1 DEF LoginKnown, Ending, sessionVars
<1>6. CASE OnReset
  <2>1. /\ pc = "on_reset" /\ pc' = "read" /\ ~isAuthenticated'
        /\ lastLogin' = lastLogin
    BY <1>t, <1>6 DEF OnReset, ResetReturns, Await, serverState, historyVars, AuthOffered
  <2> QED
    BY <1>t, <2>1 DEF LoginKnown, Ending
<1>7. CASE CutOff
  <2>1. pc' = "closed" /\ UNCHANGED <<isAuthenticated, username, lastLogin>>
    BY <1>7 DEF CutOff, Abort, serverState, handlerVars, historyVars
  <2> QED
    BY <1>t, <2>1 DEF LoginKnown, Ending
<1>8. CASE OnDisconnect \/ ServiceStep \/ UNCHANGED proxyVars
  <2>1. UNCHANGED sessionVars /\ UNCHANGED <<username, lastLogin>>
    BY <1>8 DEF OnDisconnect, ServiceStep, proxyVars, handlerVars, historyVars
  <2> QED
    BY <1>t, <2>1 DEF LoginKnown, Ending, sessionVars
<1> QED
  BY <1>1, <1>2, <1>3, <1>4, <1>5, <1>6, <1>7, <1>8 DEF ProxyNext

--------------------------------------------------------------------------------
(* Mails *)

\* What the Graph client and the service do to the requests, seen from a mail.
LEMMA GraphMonotone ==
  ASSUME ProxyInv, [ProxyNext]_proxyVars
  PROVE  \A n : IsAccepted(n) => IsAccepted(n)'
<1>a. accepted \in Seq(Requests)
  BY DEF ProxyInv, ProxyTypeOK
<1>1. CASE accepted' = accepted
  BY <1>1 DEF IsAccepted
<1>2. ASSUME NEW r \in inFlight, ServiceAccepts(r)
      PROVE  \A n : IsAccepted(n) => IsAccepted(n)'
  <2>1. /\ accepted' = Append(accepted, r)
        /\ \A i \in DOMAIN accepted : i \in DOMAIN accepted' /\ accepted'[i] = accepted[i]
    BY <1>a, <1>2 DEF ServiceAccepts
  <2> QED
    BY <2>1 DEF IsAccepted
<1>3. accepted' = accepted \/ \E r \in inFlight : ServiceAccepts(r)
  <2>1. CASE EndOfMail \/ OtherStep \/ ReplySent \/ OnReset \/ OnDisconnect \/ CutOff
              \/ UNCHANGED proxyVars
    BY <2>1 DEF EndOfMail, OtherStep, ReplySent, OnReset, OnDisconnect, CutOff, Dropped,
                proxyVars, graphVars
  <2>2. CASE OnMail \/ \E user \in Users, valid \in BOOLEAN : OnLogin(user, valid)
    BY <2>2 DEF OnMail, SendMail, OnLogin, graphVars
  <2>3. CASE SendMailContinues
    BY <2>3 DEF SendMailContinues, TokenGranted, Post, TokenFails, TokenFoundExpired, PostFails,
                PostReturnsOk
  <2>4. CASE ServiceStep
    BY <2>4 DEF ServiceStep, TokenExpires, ServiceRefuses
  <2> QED
    BY <2>1, <2>2, <2>3, <2>4 DEF ProxyNext
<1> QED
  BY <1>1, <1>2, <1>3

LEMMA SuccessStep ==
  ASSUME ProxyInv, [ProxyNext]_proxyVars
  PROVE  SuccessIsTrue'
<1>t. SessionInv /\ AuthOffered /\ SuccessIsTrue
  BY DEF ProxyInv
<1>m. Len(mails)' = Len(mails) /\ IsAccepted(Len(mails)) => IsAccepted(Len(mails))'
  BY GraphMonotone DEF IsAccepted
<1>1. CASE EndOfMail
  BY <1>t, <1>1, EndOfMailEffect DEF SuccessIsTrue
<1>2. CASE OtherStep
  BY <1>t, <1>2, OtherStepEffect DEF SuccessIsTrue
<1>3. CASE ReplySent
  BY <1>t, <1>3, ReplySentEffect DEF SuccessIsTrue
<1>4. ASSUME NEW user \in Users, NEW valid \in BOOLEAN, OnLogin(user, valid)
      PROVE  SuccessIsTrue'
  <2>1. client.verb = "AUTH" /\ client' = client
    BY <1>t, <1>4 DEF OnLogin, LoginReturns, SessionInv, VerbOfWait
  <2> QED
    BY <2>1 DEF SuccessIsTrue
<1>5. CASE OnMail
  <2>1. pc = "on_mail" /\ mails' = mails /\ (pc' # "on_mail" => out'.code = 451)
    BY <1>5 DEF OnMail, MailReturns, Answer, sessionVars, historyVars
  <2> QED
    BY <2>1 DEF SuccessIsTrue
<1>6. CASE SendMailContinues
  <2>1. call # "idle"
    BY <1>6 DEF SendMailContinues, TokenGranted, Post, TokenFails, TokenFoundExpired, PostFails,
                PostReturnsOk
  <2>2. pc = "on_mail" /\ mails' = mails
    BY <1>6, <2>1 DEF ProxyInv, MailMeant, SendMailContinues, historyVars
  <2>3. CASE PostReturnsOk(Len(mails))
    BY <1>m, <2>2, <2>3 DEF PostReturnsOk, PostSucceeded, SuccessIsTrue
  <2>4. CASE ~PostReturnsOk(Len(mails))
    <3>1. pc' # "on_mail" => out'.code = 451
      BY <1>6, <2>2, <2>4 DEF SendMailContinues, MailReturns, Answer, sessionVars
    <3> QED
      BY <3>1 DEF SuccessIsTrue
  <2> QED
    BY <2>3, <2>4
<1>7. CASE OnReset \/ CutOff
  BY <1>7 DEF OnReset, ResetReturns, CutOff, Abort, Await, SuccessIsTrue
<1>8. CASE OnDisconnect \/ ServiceStep \/ UNCHANGED proxyVars
  <2>1. UNCHANGED sessionVars /\ mails' = mails
    BY <1>8 DEF OnDisconnect, ServiceStep, proxyVars, historyVars
  <2> QED
    BY <1>t, <1>m, <2>1 DEF SuccessIsTrue, sessionVars
<1> QED
  BY <1>1, <1>2, <1>3, <1>4, <1>5, <1>6, <1>7, <1>8 DEF ProxyNext

\* Completed mails stay as they are, and so do what is permitted and what a copy is.
LEMMA MailsKept ==
  ASSUME ProxyInv, [ProxyNext]_proxyVars
  PROVE  /\ config' = config
         /\ \A n \in DOMAIN mails :
              /\ n \in DOMAIN mails'
              /\ mails'[n] = mails[n]
              /\ Relay!Permitted(mails[n])' <=> Relay!Permitted(mails[n])
              /\ Relay!Copy(n)' = Relay!Copy(n)
<1>m. mails \in Seq([from : Addresses \cup {NoAddress}, data : Seq(BodyLines),
                     user : Users \cup {NoUser}])
  BY DEF ProxyInv, ProxyTypeOK
<1>1. config' = config
  <2>1. [SessionNext]_sessionVars
    BY SessionSteps
  <2>2. CASE SessionStep
    <3>1. CASE Hello \/ Help \/ NoOp \/ Unparsable \/ StartTls \/ Data \/ Reset \/ Quit
      BY <3>1 DEF Hello, Help, NoOp, Unparsable, StartTls, Data, Reset, Quit
    <3>2. ASSUME NEW step, NEW initial, NEW ok, Authenticate(step, initial, ok)
          PROVE  config' = config
      BY <3>2 DEF Authenticate
    <3>3. ASSUME NEW a, Mail(a) \/ Recipient(a) PROVE config' = config
      BY <3>3 DEF Mail, Recipient
    <3>4. ASSUME NEW line, DataLine(line) PROVE config' = config
      BY <3>4 DEF DataLine
    <3>5. ASSUME NEW ok, ChallengeLine(ok) \/ HelloReturns(ok) \/ TlsReturns(ok)
          PROVE  config' = config
      BY <3>5 DEF ChallengeLine, HelloReturns, TlsReturns
    <3>6. CASE DataEnd \/ ChallengeEof
      BY <3>6 DEF DataEnd, ChallengeEof
    <3> QED
      BY <2>2, <3>1, <3>2, <3>3, <3>4, <3>5, <3>6 DEF SessionStep, Command
  <2>3. CASE ResetReturns \/ SendReply \/ Abort \/ UNCHANGED sessionVars
    BY <2>3 DEF ResetReturns, SendReply, Abort, sessionVars
  <2>4. ASSUME NEW ok, LoginReturns(ok) \/ MailReturns(ok) PROVE config' = config
    BY <2>4 DEF LoginReturns, MailReturns
  <2> QED
    BY <2>1, <2>2, <2>3, <2>4 DEF SessionNext
<1>2. mails' = mails \/ EndOfMail
  BY DEF ProxyNext, OtherStep, ReplySent, OnLogin, OnMail, SendMailContinues, OnReset,
         OnDisconnect, CutOff, ServiceStep, historyVars, proxyVars
<1>3. \A n \in DOMAIN mails : n \in DOMAIN mails' /\ mails'[n] = mails[n]
  <2>1. CASE mails' = mails
    BY <2>1
  <2>2. CASE EndOfMail
    <3>1. PICK m : mails' = Append(mails, m)
      BY <2>2 DEF EndOfMail
    <3> QED
      BY <1>m, <3>1
  <2> QED
    BY <1>2, <2>1, <2>2
<1>4. ASSUME NEW n \in DOMAIN mails
      PROVE  /\ Relay!Permitted(mails[n])' <=> Relay!Permitted(mails[n])
             /\ Relay!Copy(n)' = Relay!Copy(n)
  BY <1>1, <1>3 DEF Relay!Permitted, Relay!Copy, HasAuth
<1> QED
  BY <1>1, <1>3, <1>4

LEMMA RequestsMeantStep ==
  ASSUME ProxyInv, [ProxyNext]_proxyVars
  PROVE  RequestsMeant'
<1> DEFINE Meant(r) ==
             /\ r.n \in DOMAIN mails
             /\ r = Relay!Copy(r.n)
             /\ Relay!Permitted(mails[r.n])
             /\ ~IsAccepted(r.n)
<1>t. RequestsMeant /\ accepted \in Seq(Requests) /\ inFlight \subseteq Requests
  BY DEF ProxyInv, ProxyTypeOK
<1>k. \A r \in inFlight : Meant(r)
  BY <1>t DEF RequestsMeant
<1>1. ASSUME accepted' = accepted, NEW r, Meant(r)
      PROVE  Meant(r)'
  <2>1. r.n \in DOMAIN mails' /\ r = Relay!Copy(r.n)' /\ Relay!Permitted(mails[r.n])'
    BY <1>1, MailsKept
  <2>2. ~IsAccepted(r.n)'
    BY <1>1 DEF IsAccepted
  <2> QED
    BY <2>1, <2>2
<1>2. ASSUME accepted' = accepted, \A r \in inFlight' : Meant(r)
      PROVE  RequestsMeant'
  <2>1. \A r \in inFlight' : Meant(r)'
    BY <1>1, <1>2
  <2>2. \A i \in DOMAIN accepted' : accepted'[i].n \in DOMAIN mails'
    BY <1>t, <1>2, MailsKept DEF RequestsMeant
  <2> QED
    BY <2>1, <2>2 DEF RequestsMeant
<1>3. CASE accepted' = accepted /\ inFlight' \subseteq inFlight
  <2> HIDE DEF Meant
  <2> QED
    BY <1>k, <1>2, <1>3
<1>4. CASE Post(Request) /\ SendMailContinues
  <2>1. pc = "on_mail" /\ SenderAllowed /\ call # "post"
    BY <1>4 DEF Post, ProxyInv, MailMeant
  <2>2. Meant(Request)
    <3>1. /\ Len(mails) \in DOMAIN mails
          /\ Relay!Permitted(mails[Len(mails)])
          /\ Request = Relay!Copy(Len(mails))
      BY <2>1, CurrentMailPermitted
    <3>2. ~IsAccepted(Len(mails))
      BY <2>1 DEF ProxyInv, MailMeant
    <3>3. Request.n = Len(mails)
      BY DEF Request
    <3> QED
      BY <3>1, <3>2, <3>3
  <2>3. accepted' = accepted /\ inFlight' = inFlight \cup {Request}
    BY <1>4 DEF Post
  <2> HIDE DEF Meant
  <2> QED
    BY <1>k, <1>2, <2>2, <2>3
<1>5. ASSUME NEW r \in inFlight, ServiceAccepts(r)
      PROVE  RequestsMeant'
  <2>1. /\ inFlight' = inFlight \ {r}
        /\ accepted' = Append(accepted, r)
    BY <1>5 DEF ServiceAccepts
  <2>2. r.n \in DOMAIN mails /\ r = Relay!Copy(r.n)
    BY <1>k
  <2>3. \A i \in DOMAIN accepted' :
          accepted'[i] = r \/ (i \in DOMAIN accepted /\ accepted'[i] = accepted[i])
    BY <1>t, <2>1
  <2>4. \A i \in DOMAIN accepted' : accepted'[i].n \in DOMAIN mails'
    BY <1>t, <2>2, <2>3, MailsKept DEF RequestsMeant
  <2>5. ASSUME NEW s \in inFlight' PROVE Meant(s)'
    <3>1. s \in inFlight /\ s # r /\ s = Relay!Copy(s.n) /\ s.n \in DOMAIN mails
      BY <1>k, <2>1
    <3>2. s.n # r.n
      BY <2>2, <3>1
    <3>3. ~IsAccepted(s.n)
      BY <1>k, <3>1
    <3>4. ~IsAccepted(s.n)'
      BY <2>3, <3>2, <3>3 DEF IsAccepted
    <3>5. Relay!Permitted(mails[s.n])
      BY <1>k, <3>1
    <3> QED
      BY <3>1, <3>4, <3>5, MailsKept
  <2> QED
    BY <2>4, <2>5 DEF RequestsMeant
<1>6. CASE EndOfMail \/ OtherStep \/ ReplySent \/ OnReset \/ OnDisconnect \/ CutOff
           \/ UNCHANGED proxyVars
  BY <1>3, <1>6 DEF EndOfMail, OtherStep, ReplySent, OnReset, OnDisconnect, CutOff, Dropped,
              proxyVars, graphVars
<1>7. CASE OnMail \/ \E user \in Users, valid \in BOOLEAN : OnLogin(user, valid)
  BY <1>3, <1>7 DEF OnMail, SendMail, OnLogin, graphVars
<1>8. CASE SendMailContinues
  BY <1>3, <1>4, <1>8 DEF SendMailContinues, TokenGranted, TokenFails, TokenFoundExpired, PostFails,
              PostReturnsOk
<1>9. CASE ServiceStep
  BY <1>3, <1>5, <1>9 DEF ServiceStep, TokenExpires, ServiceRefuses
<1> QED
  BY <1>6, <1>7, <1>8, <1>9 DEF ProxyNext

LEMMA MailMeantStep ==
  ASSUME ProxyInv, [ProxyNext]_proxyVars
  PROVE  MailMeant'
<1>t. /\ SessionInv /\ AuthOffered /\ ProxyTypeOK /\ MailMeant /\ RequestsMeant
      /\ mails \in Seq([from : Addresses \cup {NoAddress}, data : Seq(BodyLines),
                        user : Users \cup {NoUser}])
      /\ accepted \in Seq(Requests)
  BY DEF ProxyInv, ProxyTypeOK
<1>1. CASE EndOfMail
  <2> DEFINE m == [from |-> mail.from, data |-> mail.data,
                   user |-> IF client.login = "none" THEN NoUser ELSE lastLogin.user]
  <2>1. /\ UNCHANGED <<config, serverState, graphVars, handlerVars, report, lastLogin, confirmed>>
        /\ pc = "read" /\ pc' = "on_mail" /\ client'.login = client.login
        /\ mails' = Append(mails, m)
    BY <1>t, <1>1, EndOfMailEffect
  <2>2. m' = m
    BY <2>1 DEF serverState
  <2> HIDE DEF m
  <2>3. /\ mails' # <<>> /\ Len(mails') = Len(mails) + 1 /\ mails'[Len(mails')] = m
        /\ Len(mails') \notin DOMAIN mails
    BY <1>t, <2>1
  <2>4. call' = "idle"
    BY <1>t, <2>1 DEF MailMeant, graphVars
  <2>5. ~IsAccepted(Len(mails))' /\ \A r \in inFlight' : r.n # Len(mails')
    BY <1>t, <2>1, <2>3 DEF RequestsMeant, IsAccepted, graphVars
  <2> USE DEF m
  <2>6. mails'[Len(mails')] =
          [from |-> mail'.from, data |-> mail'.data,
           user |-> IF client'.login = "none" THEN NoUser ELSE lastLogin'.user]
    BY <2>2, <2>3
  <2> QED
    BY <2>1, <2>3, <2>4, <2>5, <2>6 DEF MailMeant
<1>2. CASE OtherStep
  <2>1. call' = "idle" /\ pc' # "on_mail"
    BY <1>t, <1>2, OtherStepEffect DEF MailMeant, graphVars
  <2> QED
    BY <2>1 DEF MailMeant
<1>3. CASE ReplySent
  <2>1. call' = "idle" /\ pc' # "on_mail"
    BY <1>t, <1>3, ReplySentEffect DEF MailMeant, graphVars
  <2> QED
    BY <2>1 DEF MailMeant
<1>4. ASSUME NEW user \in Users, NEW valid \in BOOLEAN, OnLogin(user, valid)
      PROVE  MailMeant'
  <2>1. call' = "idle" /\ pc' # "on_mail"
    BY <1>t, <1>4 DEF OnLogin, LoginReturns, Answer, MailMeant, graphVars
  <2> QED
    BY <2>1 DEF MailMeant
<1>5. CASE OnMail
  <2>1. CASE MailReturns(FALSE) /\ UNCHANGED graphVars
    BY <1>5, <2>1 DEF OnMail, MailReturns, Answer, MailMeant, graphVars
  <2>2. CASE SenderAllowed /\ productive' = TRUE /\ SendMail /\ UNCHANGED sessionVars
    <3>1. /\ UNCHANGED <<username, mails, lastLogin, accepted, inFlight>>
          /\ UNCHANGED <<pc, mail, client>>
          /\ pc = "on_mail" /\ call = "idle" /\ call' \in {"build", "token"}
      BY <1>5, <2>2 DEF OnMail, SendMail, sessionVars, historyVars
    <3>2. SenderAllowed'
      BY <2>2, <3>1 DEF SenderAllowed
    <3>3. ~IsAccepted(Len(mails))'
      BY <1>t, <3>1 DEF MailMeant, IsAccepted
    <3> QED
      BY <1>t, <2>2, <3>1, <3>2, <3>3 DEF MailMeant
  <2> QED
    BY <1>5, <2>1, <2>2 DEF OnMail
<1>6. CASE SendMailContinues
  <2>1. UNCHANGED <<username, productive, mails, lastLogin>>
    BY <1>6 DEF SendMailContinues, handlerVars, historyVars
  <2>2. CASE (TokenGranted \/ Post(Request)) /\ UNCHANGED sessionVars
    <3>1. /\ call \in {"token", "build"} /\ call' \in {"build", "post"} /\ accepted' = accepted
          /\ call' # "post" => inFlight' = inFlight
      BY <2>2 DEF TokenGranted, Post
    <3>2. UNCHANGED <<pc, mail, client>>
      BY <2>2 DEF sessionVars
    <3>3. SenderAllowed'
      BY <1>t, <2>1, <3>1, <3>2 DEF MailMeant, SenderAllowed
    <3>4. ~IsAccepted(Len(mails))'
      BY <1>t, <2>1, <3>1 DEF MailMeant, IsAccepted
    <3> QED
      BY <1>t, <2>1, <3>1, <3>2, <3>3, <3>4 DEF MailMeant
  <2>3. CASE call' = "idle" /\ pc' = "reply"
    BY <2>3 DEF MailMeant
  <2> QED
    BY <1>6, <2>2, <2>3 DEF SendMailContinues, TokenFails, TokenFoundExpired, PostFails,
       PostReturnsOk, MailReturns, Answer
<1>7. CASE OnReset \/ CutOff
  <2>1. call' = "idle" /\ pc' # "on_mail"
    BY <1>t, <1>7 DEF OnReset, ResetReturns, Await, CutOff, Abort, Dropped, MailMeant, graphVars
  <2> QED
    BY <2>1 DEF MailMeant
<1>8. CASE OnDisconnect
  <2>1. call' = "idle" /\ pc' # "on_mail"
    BY <1>t, <1>8 DEF OnDisconnect, MailMeant, graphVars, sessionVars
  <2> QED
    BY <2>1 DEF MailMeant
<1>9. CASE ServiceStep
  <2>1. /\ UNCHANGED sessionVars /\ UNCHANGED <<call, username, productive, mails, lastLogin>>
    BY <1>9 DEF ServiceStep, TokenExpires, ServiceAccepts, ServiceRefuses, handlerVars, historyVars
  <2>2. SenderAllowed' <=> SenderAllowed
    BY <2>1 DEF SenderAllowed, sessionVars
  <2>3. ASSUME pc = "on_mail", call # "post"
        PROVE  ~IsAccepted(Len(mails))' /\ \A r \in inFlight' : r.n # Len(mails)
    <3>1. ~IsAccepted(Len(mails)) /\ \A r \in inFlight : r.n # Len(mails)
      BY <1>t, <2>3 DEF MailMeant
    <3>2. CASE TokenExpires
      BY <2>1, <3>1, <3>2 DEF TokenExpires, IsAccepted
    <3>3. ASSUME NEW r \in inFlight, ServiceAccepts(r) \/ ServiceRefuses(r)
          PROVE  ~IsAccepted(Len(mails))' /\ \A s \in inFlight' : s.n # Len(mails)
      <4>1. inFlight' \subseteq inFlight /\ r.n # Len(mails)
        BY <3>1, <3>3 DEF ServiceAccepts, ServiceRefuses
      <4>2. accepted' = accepted \/ accepted' = Append(accepted, r)
        BY <3>3 DEF ServiceAccepts, ServiceRefuses
      <4>3. \A i \in DOMAIN accepted' :
              accepted'[i] = r \/ (i \in DOMAIN accepted /\ accepted'[i] = accepted[i])
        BY <1>t, <4>2
      <4> QED
        BY <2>1, <3>1, <4>1, <4>3 DEF IsAccepted
    <3> QED
      BY <1>9, <3>2, <3>3 DEF ServiceStep
  <2> QED
    BY <1>t, <2>1, <2>2, <2>3 DEF MailMeant, sessionVars
<1>10. CASE UNCHANGED proxyVars
  <2>1. SenderAllowed' <=> SenderAllowed
    BY <1>10 DEF SenderAllowed, proxyVars, sessionVars, handlerVars
  <2>2. IsAccepted(Len(mails))' <=> IsAccepted(Len(mails))
    BY <1>10 DEF IsAccepted, proxyVars, graphVars, historyVars
  <2> QED
    BY <1>t, <1>10, <2>1, <2>2
    DEF MailMeant, proxyVars, sessionVars, graphVars, handlerVars, historyVars
<1> QED
  BY <1>1, <1>2, <1>3, <1>4, <1>5, <1>6, <1>7, <1>8, <1>9, <1>10 DEF ProxyNext

--------------------------------------------------------------------------------
(* What Fail2Ban is told *)

LEMMA ProductiveStep ==
  ASSUME ProxyInv, [ProxyNext]_proxyVars
  PROVE  ProductiveFits'
<1> DEFINE Sent == \E n \in DOMAIN mails : Relay!Permitted(mails[n])
           Untaken == accepted = <<>> /\ inFlight = {}
<1>t. SessionInv /\ AuthOffered /\ ProxyTypeOK /\ LoginKnown /\ MailMeant /\ ProductiveFits
  BY DEF ProxyInv
<1>s. Sent => Sent'
  BY MailsKept
<1>f. /\ ~productive /\ lastLogin.ok => Untaken
      /\ productive => Sent
      /\ report # "open" => pc = "closed" /\ (report = "ok" <=> productive)
  BY <1>t DEF ProductiveFits
<1>q. ASSUME /\ ~productive' /\ lastLogin'.ok => Untaken'
             /\ productive' => Sent'
             /\ report' # "open" => pc' = "closed" /\ (report' = "ok" <=> productive')
      PROVE  ProductiveFits'
  BY <1>q DEF ProductiveFits
<1> HIDE DEF Sent
<1>1. CASE EndOfMail
  <2>1. pc # "closed" /\ UNCHANGED <<accepted, inFlight, productive, report, lastLogin>>
    BY <1>t, <1>1, EndOfMailEffect DEF graphVars, handlerVars
  <2> QED
    BY <1>s, <1>f, <1>q, <2>1
<1>2. CASE OtherStep
  <2>1. pc # "closed" /\ UNCHANGED <<accepted, inFlight, productive, report, lastLogin>>
    BY <1>t, <1>2, OtherStepEffect DEF graphVars, handlerVars, historyVars
  <2> QED
    BY <1>s, <1>f, <1>q, <2>1
<1>3. CASE ReplySent
  <2>1. pc # "closed" /\ UNCHANGED <<accepted, inFlight, productive, report, lastLogin>>
    BY <1>t, <1>3, ReplySentEffect DEF graphVars, handlerVars
  <2> QED
    BY <1>s, <1>f, <1>q, <2>1
<1>4. ASSUME NEW user \in Users, NEW valid \in BOOLEAN, OnLogin(user, valid)
      PROVE  ProductiveFits'
  <2>1. /\ pc = "on_login" /\ UNCHANGED <<accepted, inFlight, report>>
        /\ productive' = (valid /\ productive) /\ lastLogin'.ok = valid
    BY <1>4 DEF OnLogin, LoginReturns, graphVars
  <2>2. lastLogin.ok
    BY <1>t, <2>1 DEF LoginKnown, Ending
  <2> QED
    BY <1>s, <1>f, <1>q, <2>1, <2>2
<1>5. CASE OnMail
  <2>1. /\ pc = "on_mail" /\ UNCHANGED <<accepted, inFlight, report, lastLogin>>
        /\ productive' = productive \/ (productive' = TRUE /\ SenderAllowed)
    BY <1>5 DEF OnMail, SendMail, graphVars, historyVars
  <2>2. SenderAllowed => Sent
    BY <2>1, CurrentMailPermitted DEF Sent
  <2> QED
    BY <1>s, <1>f, <1>q, <2>1, <2>2
<1>6. CASE SendMailContinues
  <2>1. call # "idle"
    BY <1>6 DEF SendMailContinues, TokenGranted, Post, TokenFails, TokenFoundExpired, PostFails,
                PostReturnsOk
  <2>2. pc = "on_mail" /\ productive /\ UNCHANGED <<productive, report, lastLogin>>
    BY <1>t, <1>6, <2>1 DEF MailMeant, SendMailContinues, handlerVars, historyVars
  <2> QED
    BY <1>s, <1>f, <1>q, <2>2
<1>7. CASE OnReset
  <2>1. pc # "closed" /\ UNCHANGED <<accepted, inFlight, productive, report, lastLogin>>
    BY <1>7 DEF OnReset, ResetReturns, graphVars, historyVars
  <2> QED
    BY <1>s, <1>f, <1>q, <2>1
<1>8. CASE OnDisconnect
  <2>1. /\ pc' = "closed" /\ UNCHANGED <<accepted, inFlight, productive, lastLogin>>
        /\ report' = IF productive THEN "ok" ELSE "fail"
    BY <1>8 DEF OnDisconnect, sessionVars, graphVars, handlerVars, historyVars
  <2> QED
    BY <1>s, <1>f, <1>q, <2>1
<1>9. CASE CutOff
  <2>1. pc # "closed" /\ UNCHANGED <<accepted, inFlight, productive, report, lastLogin>>
    BY <1>9 DEF CutOff, Abort, Dropped, handlerVars, historyVars
  <2> QED
    BY <1>s, <1>f, <1>q, <2>1
<1>10. CASE ServiceStep
  <2>1. UNCHANGED <<pc, productive, report, lastLogin>>
    BY <1>10 DEF ServiceStep, sessionVars, handlerVars, historyVars
  <2>2. Untaken => Untaken'
    BY <1>10 DEF ServiceStep, TokenExpires, ServiceAccepts, ServiceRefuses
  <2> QED
    BY <1>s, <1>f, <1>q, <2>1, <2>2
<1>11. CASE UNCHANGED proxyVars
  <2>1. UNCHANGED <<pc, accepted, inFlight, productive, report, lastLogin>>
    BY <1>11 DEF proxyVars, sessionVars, graphVars, handlerVars, historyVars
  <2> QED
    BY <1>s, <1>f, <1>q, <2>1
<1> QED
  BY <1>1, <1>2, <1>3, <1>4, <1>5, <1>6, <1>7, <1>8, <1>9, <1>10, <1>11 DEF ProxyNext

--------------------------------------------------------------------------------
(* The theorems *)

LEMMA ProxyInvStep == ProxyInv /\ [ProxyNext]_proxyVars => ProxyInv'
BY SessionInvKept, ProxyTypeStep, AuthOfferedStep, LoginKnownStep, MailMeantStep,
   RequestsMeantStep, SuccessStep, ProductiveStep DEF ProxyInv

LEMMA ProxyInvInit == ProxyInit => ProxyInv
<1> SUFFICES ASSUME ProxyInit PROVE ProxyInv
  OBVIOUS
<1>1. SessionInv
  BY InvInit DEF ProxyInit
<1>2. pc = "reply" /\ isAuthenticated = FALSE /\ out = [code |-> 220, then |-> "read"]
  BY DEF ProxyInit, SessionInit
<1>3. ProxyTypeOK /\ Len(mails) <= MaxMails
  <2>1. mails = <<>> /\ accepted = <<>> /\ MaxMails \in Nat
    BY ProxyAssumption DEF ProxyInit, GraphInit
  <2>2. mails \in Seq([from : Addresses \cup {NoAddress}, data : Seq(BodyLines),
                      user : Users \cup {NoUser}])
        /\ Len(mails) = 0
    BY <2>1
  <2>3. accepted \in Seq(Requests)
    BY <2>1
  <2>4. /\ username \in Users \cup {NoUser}
        /\ productive \in BOOLEAN
        /\ report \in {"open", "ok", "fail"}
        /\ lastLogin \in [user : Users \cup {NoUser}, ok : BOOLEAN]
    BY DEF ProxyInit
  <2>5. /\ confirmed \subseteq 1 .. MaxMails /\ inFlight \subseteq Requests
        /\ token \in Tokens /\ call \in Calls
    BY DEF ProxyInit, GraphInit, Tokens, Calls
  <2> QED
    BY <2>1, <2>2, <2>3, <2>4, <2>5 DEF ProxyTypeOK
<1>4. AuthOffered
  BY <1>2 DEF AuthOffered, AuthReads
<1>5. LoginKnown
  BY <1>2 DEF ProxyInit, LoginKnown
<1>6. MailMeant /\ RequestsMeant /\ SuccessIsTrue
  BY <1>2 DEF ProxyInit, SessionInit, GraphInit, MailMeant, RequestsMeant, SuccessIsTrue
<1>7. ProductiveFits
  BY DEF ProxyInit, GraphInit, ProductiveFits
<1> QED
  BY <1>1, <1>3, <1>4, <1>5, <1>6, <1>7 DEF ProxyInv

\* ProxySession: what handler, Graph client and service keep has its type.
THEOREM ProxyTypeCorrect == ProxySpec => []ProxyTypeOK
<1>1. ProxyInv => ProxyTypeOK
  BY DEF ProxyInv
<1> QED
  BY <1>1, ProxyInvInit, ProxyInvStep, PTL DEF ProxySpec

\* ProxySession: on_mail checks the sender against the user that the client
\* logged in as last, whatever RSET, STARTTLS and AUTH came between.
THEOREM UserKnown == ProxySpec => []UserIsClients
<1>1. ProxyInv => UserIsClients
  <2> SUFFICES ASSUME ProxyInv, pc = "on_mail", HasAuth
               PROVE  lastLogin.ok /\ username = lastLogin.user
    BY DEF UserIsClients
  <2>1. isAuthenticated
    BY DEF ProxyInv, SessionInv, VerbOfWait, ModeObeyed, Authenticated
  <2> QED
    BY <2>1 DEF ProxyInv, LoginKnown, Ending
<1> QED
  BY <1>1, ProxyInvInit, ProxyInvStep, PTL DEF ProxySpec

\* ProxySession: Fail2Ban is told of a fail only of sessions of which Graph has
\* and will get no mail, or whose last login was refused, and of a success only
\* where there was a mail that could be sent.
THEOREM ReportFitting == ProxySpec => []ReportFits
<1>1. ProxyInv => ReportFits
  BY DEF ProxyInv, ProductiveFits, ReportFits
<1> QED
  BY <1>1, ProxyInvInit, ProxyInvStep, PTL DEF ProxySpec

--------------------------------------------------------------------------------
(* ProxySession implements MailRelay *)

\* A sequence is the prefix of what is appended to it.
LEMMA PrefixOfAppend ==
  ASSUME NEW S, NEW s \in Seq(S), NEW x \in S
  PROVE  Len(Append(s, x)) = Len(s) + 1 /\ SubSeq(Append(s, x), 1, Len(s)) = s
<1> DEFINE a == Append(s, x)
           b == SubSeq(a, 1, Len(s))
<1>1. /\ a \in Seq(S) /\ Len(a) = Len(s) + 1 /\ Len(s) \in Nat
      /\ \A i \in 1 .. Len(s) : a[i] = s[i]
  OBVIOUS
<1>2. b \in Seq(S) /\ Len(b) = Len(s) /\ \A i \in 1 .. Len(s) : b[i] = s[i]
  BY <1>1
<1>3. b = s
  BY <1>2, SeqEqual
<1> QED
  BY <1>1, <1>3

LEMMA RelayStep ==
  ASSUME ProxyInv, ProxyInv', [ProxyNext]_proxyVars
  PROVE  [Relay!RelayNext]_<<HasAuth, mails, accepted, confirmed>>
<1> DEFINE Stutter == UNCHANGED <<HasAuth, mails, accepted, confirmed>>
<1>t. SessionInv /\ AuthOffered /\ ProxyTypeOK /\ RequestsMeant /\ SuccessIsTrue
      /\ mails \in Seq([from : Addresses \cup {NoAddress}, data : Seq(BodyLines),
                        user : Users \cup {NoUser}])
  BY DEF ProxyInv, ProxyTypeOK
<1>h. HasAuth' = HasAuth
  BY MailsKept DEF HasAuth
<1>1. CASE EndOfMail
  <2> DEFINE m == [from |-> mail.from, data |-> mail.data,
                   user |-> IF client.login = "none" THEN NoUser ELSE lastLogin.user]
  <2>1. mails' = Append(mails, m) /\ UNCHANGED <<accepted, confirmed>>
    BY <1>t, <1>1, EndOfMailEffect DEF graphVars
  <2>2. m \in [from : Addresses \cup {NoAddress}, data : Seq(BodyLines),
               user : Users \cup {NoUser}]
    BY <1>t DEF SessionInv, TypeOK, Mails, ProxyTypeOK
  <2> HIDE DEF m
  <2>3. Len(mails') = Len(mails) + 1 /\ SubSeq(mails', 1, Len(mails)) = mails
    BY <1>t, <2>1, <2>2, PrefixOfAppend
  <2> QED
    BY <1>h, <2>1, <2>3 DEF Relay!RelayNext, Relay!Submit
<1>2. CASE ReplySent
  <2>1. UNCHANGED <<mails, accepted>>
    BY <1>t, <1>2, ReplySentEffect DEF graphVars
  <2>2. CASE confirmed' = confirmed
    BY <1>h, <2>1, <2>2
  <2>3. CASE confirmed' # confirmed
    <3>1. /\ pc = "reply" /\ client.verb = "DOT" /\ out.code = 250
          /\ confirmed' = confirmed \cup {Len(mails)}
      BY <1>t, <1>2, <2>3, ReplySentEffect
    <3>2. IsAccepted(Len(mails))
      BY <1>t, <3>1 DEF SuccessIsTrue
    <3>3. Len(mails) \in DOMAIN mails
      BY <1>t, <3>2 DEF IsAccepted, RequestsMeant
    <3>4. Relay!Confirm(Len(mails))
      BY <1>h, <2>1, <2>3, <3>1, <3>2 DEF Relay!Confirm, Relay!IsDelivered, IsAccepted
    <3> QED
      BY <3>3, <3>4 DEF Relay!RelayNext
  <2> QED
    BY <2>2, <2>3
<1>3. ASSUME NEW r \in inFlight, ServiceAccepts(r), UNCHANGED <<mails, confirmed>>
      PROVE  Relay!RelayNext
  <2>1. /\ r.n \in DOMAIN mails
        /\ r = Relay!Copy(r.n)
        /\ Relay!Permitted(mails[r.n])
        /\ ~IsAccepted(r.n)
    BY <1>t DEF RequestsMeant
  <2>2. accepted' = Append(accepted, Relay!Copy(r.n))
    BY <1>3, <2>1 DEF ServiceAccepts
  <2>3. Relay!Deliver(r.n)
    BY <1>h, <1>3, <2>1, <2>2 DEF Relay!Deliver, Relay!IsDelivered, IsAccepted
  <2> QED
    BY <2>1, <2>3 DEF Relay!RelayNext
<1>4. CASE ServiceStep
  <2>1. UNCHANGED <<mails, confirmed>>
    BY <1>4 DEF ServiceStep, historyVars
  <2>2. CASE accepted' = accepted
    BY <1>h, <2>1, <2>2
  <2> QED
    BY <1>3, <1>4, <2>1, <2>2 DEF ServiceStep, TokenExpires, ServiceRefuses
<1>5. CASE OtherStep \/ OnReset \/ OnDisconnect \/ CutOff \/ UNCHANGED proxyVars
  <2>1. Stutter
    BY <1>h, <1>5 DEF OtherStep, OnReset, OnDisconnect, CutOff, Dropped, proxyVars, graphVars,
                      historyVars
  <2> QED
    BY <2>1
<1>6. CASE OnMail \/ SendMailContinues
  <2>1. Stutter
    BY <1>h, <1>6 DEF OnMail, SendMail, SendMailContinues, TokenGranted, Post, TokenFails,
                      TokenFoundExpired, PostFails, PostReturnsOk, graphVars, historyVars
  <2> QED
    BY <2>1
<1>7. ASSUME NEW user \in Users, NEW valid \in BOOLEAN, OnLogin(user, valid)
      PROVE  Stutter
  BY <1>h, <1>7 DEF OnLogin, graphVars
<1> QED
  BY <1>1, <1>2, <1>4, <1>5, <1>6, <1>7 DEF ProxyNext

\* ProxySession implements MailRelay: whatever fails, expires, is lost or is cut
\* off, Graph takes a mail at most once, as a client with the right to send it
\* meant it, and 250 is only said of a mail that Graph took.
THEOREM RelayImplemented == ProxySpec => ImplementsRelay
<1>1. ProxyInit => Relay!RelayInit
  BY DEF ProxyInit, GraphInit, Relay!RelayInit
<1>2. ProxyInv /\ ProxyInv' /\ [ProxyNext]_proxyVars
        => [Relay!RelayNext]_<<HasAuth, mails, accepted, confirmed>>
  BY RelayStep
<1> QED
  BY <1>1, <1>2, ProxyInvInit, ProxyInvStep, PTL
  DEF ProxySpec, ImplementsRelay, Relay!RelaySpec, Relay!relayVars
================================================================================
