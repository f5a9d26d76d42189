--------------------------------- MODULE Replies --------------------------------
(***************************************************************************)
(* lib/smtp/src/response.rs, and the replies of more than one line in      *)
(* Session::handle: whether a client that reads lines finds the ends of    *)
(* the replies, and what it learns of the server's features.               *)
(*                                                                         *)
(* SmtpSession has one step per reply; here it is one per line.  The       *)
(* client may send commands ahead of their replies, but waits after        *)
(* STARTTLS.  Only what tells replies apart is kept of their texts.  AUTH,  *)
(* MAIL, RCPT, DATA and RSET, whose replies are all of one line as that of  *)
(* NOOP, are left to SmtpSession.                                           *)
(***************************************************************************)
EXTENDS Naturals, Sequences, SequencesExt

CONSTANTS
  ServerNames, \* the server names considered: strings
  MaxCommands  \* bound of the model: the commands a client sends

VARIABLES
  config,   \* server name, has_auth (any AuthMode but None), and whether there is TLS
  greeting, \* SessionState::phase, "Connected" or "Greeted"
  conn,     \* "plain" or "tls"
  serving,  \* what the session is at: a command, "nothing", "handshake", "ended"
  rest,     \* the responses that it still has to send
  read,     \* how many commands it has read, with the banner as the first
  outgoing, \* the lines on their way to the client
  asked,    \* what the client has sent, the banner as its first
  partial,  \* the lines of a reply that the client has not seen the end of
  got,      \* how many replies it has seen the end of
  known     \* the features of the server, once it has been told

repliesVars == <<config, greeting, conn, serving, rest, read, outgoing, asked, partial, got, known>>
readerVars == <<asked, partial, got, known>>

Verbs == {"HELO", "EHLO", "HELP", "STARTTLS", "NOOP", "QUIT", "?"}
Unknown == {"?"}
NoText == ""

--------------------------------------------------------------------------------
(* Responses *)

Response(code, text) == [code |-> code, text |-> text, hasNext |-> FALSE]
Continued(code, text) == [code |-> code, text |-> text, hasNext |-> TRUE]

\* Fault, for a mutant of Line: only the code says that more follows.
LineUnmarked(r) == [code |-> r.code, text |-> r.text, dash |-> FALSE, to |-> read]

\* Response::line; to is a history variable, the command that it answers.
Line(r) ==
  [code |-> r.code, text |-> r.text, dash |-> r.hasNext /\ r.text # NoText, to |-> read]

\* Fault, for a mutant of SupportsTls: TLS is not asked for on the connection.
SupportsTlsOnce == config.acceptor

SupportsTls == conn = "plain" /\ config.acceptor

\* The features in the order of EHLO's reply.
Features ==
  <<"8BITMIME">> \o (IF SupportsTls THEN <<"STARTTLS">> ELSE <<>>)
    \o (IF config.auth THEN <<"AUTH PLAIN LOGIN">> ELSE <<>>) \o <<"SIZE">>

EhloReplies ==
  LET n == Len(Features) IN
  <<Continued(250, config.name)>>
    \o [i \in 1 .. n |-> IF i = n THEN Response(250, Features[i]) ELSE Continued(250, Features[i])]

\* What the session answers to a command, line by line.
Replies(verb) ==
  CASE verb = "EHLO" /\ greeting = "Connected" -> EhloReplies
    [] verb = "HELO" /\ greeting = "Connected" -> <<Response(250, config.name)>>
    [] verb \in {"HELO", "EHLO"} /\ greeting # "Connected" -> <<Response(503, "sequence")>>
    [] verb = "HELP" -> <<Continued(250, "supported"), Response(214, "commands")>>
    [] verb = "STARTTLS" /\ ~SupportsTls -> <<Response(500, "unsupported")>>
    [] verb = "STARTTLS" /\ SupportsTls ->
         IF greeting = "Greeted" THEN <<Response(220, "ready")>> ELSE <<Response(503, "sequence")>>
    [] verb = "NOOP" -> <<Response(250, "OK")>>
    [] verb = "QUIT" -> <<Response(221, "goodbye")>>
    [] verb = "?" -> <<Response(500, "syntax")>>

--------------------------------------------------------------------------------
RepliesInit ==
  /\ config \in [name : ServerNames, auth : BOOLEAN, acceptor : BOOLEAN]
  /\ greeting = "Connected" /\ conn = "plain"
  /\ serving = "banner" /\ rest = <<Response(220, "banner")>> /\ read = 1
  /\ outgoing = <<>>
  /\ asked = <<"banner">> /\ partial = <<>> /\ got = 0 /\ known = Unknown

ReadCommand ==
  /\ serving = "nothing" /\ read < Len(asked)
  /\ read' = read + 1
  /\ serving' = asked[read + 1]
  /\ rest' = Replies(asked[read + 1])
  /\ UNCHANGED <<config, greeting, conn, outgoing, readerVars>>

\* Session::reply, and what the session does once the last line is out.
Reply ==
  /\ rest # <<>>
  /\ outgoing' = Append(outgoing, Line(Head(rest)))
  /\ rest' = Tail(rest)
  /\ IF rest' # <<>> THEN UNCHANGED <<greeting, serving>>
     ELSE /\ greeting' = IF serving \in {"HELO", "EHLO"} THEN "Greeted" ELSE greeting
          /\ serving' = CASE serving = "STARTTLS" /\ Head(rest).code = 220 -> "handshake"
                          [] serving = "QUIT" -> "ended"
                          [] OTHER -> "nothing"
  /\ UNCHANGED <<config, conn, read, readerVars>>

\* on_hello rejects: the connection is closed without a reply.
HelloRejected ==
  /\ serving = "nothing" /\ read < Len(asked)
  /\ asked[read + 1] \in {"HELO", "EHLO"} /\ greeting = "Connected"
  /\ serving' = "ended"
  /\ UNCHANGED <<config, greeting, conn, rest, read, outgoing, readerVars>>

\* Fault, for a mutant of TlsHandshake: TLS starts before "ready" has got through.
TlsHandshakeUnflushed ==
  /\ serving = "handshake"
  /\ \/ serving' = "nothing" /\ conn' = "tls" /\ greeting' = "Connected"
     \/ serving' = "ended" /\ UNCHANGED <<conn, greeting>>
  /\ UNCHANGED <<config, rest, read, outgoing, readerVars>>

\* A handshake may fail at any time, and needs a client to succeed: that it begins
\* its part when it has read that the server is ready is assumed of the client.
TlsHandshake ==
  /\ serving = "handshake"
  /\ \/ got = read /\ serving' = "nothing" /\ conn' = "tls" /\ greeting' = "Connected"
     \/ serving' = "ended" /\ UNCHANGED <<conn, greeting>>
  /\ UNCHANGED <<config, rest, read, outgoing, readerVars>>

--------------------------------------------------------------------------------
(* The client *)

SendCommand ==
  /\ serving # "ended"
  /\ Len(asked) <= MaxCommands
  /\ Last(asked) = "STARTTLS" => got >= Len(asked) /\ serving # "handshake"
  /\ \E verb \in Verbs : asked' = Append(asked, verb)
  /\ UNCHANGED <<config, greeting, conn, serving, rest, read, outgoing, partial, got, known>>

\* A reply is over with the first line that is not marked as continued.
ReadReplyLine ==
  /\ outgoing # <<>>
  /\ outgoing' = Tail(outgoing)
  /\ LET next == Head(outgoing)
         lines == Append(partial, next)
         verb == IF got < Len(asked) THEN asked[got + 1] ELSE "none"
     IN IF next.dash THEN partial' = lines /\ UNCHANGED <<got, known>>
        ELSE /\ partial' = <<>> /\ got' = got + 1
             /\ known' = CASE verb = "EHLO" /\ next.code = 250 ->
                                {lines[i].text : i \in 2 .. Len(lines)}
                           [] verb = "STARTTLS" /\ next.code = 220 -> Unknown
                           [] OTHER -> known
  /\ UNCHANGED <<config, greeting, conn, serving, rest, read, asked>>

RepliesNext == ReadCommand \/ HelloRejected \/ Reply \/ TlsHandshake \/ SendCommand \/ ReadReplyLine

RepliesSpec == RepliesInit /\ [][RepliesNext]_repliesVars

--------------------------------------------------------------------------------
(* Properties *)

\* A client that reads replies line by line takes no line of one reply for another
\* one, and has seen the end of all that were sent to it, if the server's name is
\* not empty: that line would lose its mark with its text.
RepliesInStep ==
  config.name # NoText =>
    /\ \A i \in DOMAIN partial : partial[i].to = got + 1
    /\ outgoing # <<>> => Head(outgoing).to = got + 1
    /\ outgoing = <<>> /\ rest = <<>> => got = read /\ partial = <<>>

\* A client that was told the features of the server knows them all, and those of
\* the connection as it is now: STARTTLS is offered as long as it can be had, and
\* AUTH if there is a way to log in, maybe only once TLS is on.
FeaturesTrue ==
  config.name # NoText /\ known # Unknown =>
    /\ {"8BITMIME", "SIZE"} \subseteq known
    /\ "STARTTLS" \in known <=> conn = "plain" /\ config.acceptor
    /\ "AUTH PLAIN LOGIN" \in known <=> config.auth

\* The reply to the last command read is given with the last of its lines.
answered == IF rest = <<>> THEN read ELSE read - 1

Talk == INSTANCE Dialog WITH
  sent <- Len(asked), taken <- read, answered <- answered, seen <- got, secure <- conn = "tls"

\* Line by line, session and client have the dialog of whole replies (Dialog) that
\* SmtpSession takes for granted: no reply is seen before it is given, and no
\* handshake begins with a command or a line on its way.
ImplementsDialog ==
  /\ Talk!DialogInit
  /\ [][config.name # NoText => Talk!DialogNext]_<<Len(asked), read, answered, got, conn>>

--------------------------------------------------------------------------------
(* The inductive strengthening of the properties *)

Texts ==
  {"banner", "sequence", "supported", "commands", "unsupported", "ready", "OK", "goodbye",
   "syntax", "8BITMIME", "STARTTLS", "AUTH PLAIN LOGIN", "SIZE"} \cup ServerNames
Responses == [code : Nat, text : Texts, hasNext : BOOLEAN]
ReplyLines == [code : Nat, text : Texts, dash : BOOLEAN, to : Nat]

RepliesTypeOK ==
  /\ config \in [name : ServerNames, auth : BOOLEAN, acceptor : BOOLEAN]
  /\ greeting \in {"Connected", "Greeted"} /\ conn \in {"plain", "tls"}
  /\ serving \in Verbs \cup {"banner", "nothing", "handshake", "ended"}
  /\ rest \in Seq(Responses)
  /\ asked \in Seq(Verbs \cup {"banner"}) /\ \A k \in 2 .. Len(asked) : asked[k] \in Verbs
  /\ read \in 1 .. Len(asked) /\ got \in Nat
  /\ outgoing \in Seq(ReplyLines) /\ partial \in Seq(ReplyLines)

\* The command that the session is at, and what is left of its reply.
ServingFits ==
  /\ rest # <<>> <=> serving \in Verbs \cup {"banner"}
  /\ rest # <<>> => serving = asked[read]
  /\ \A i \in DOMAIN rest : rest[i].hasNext <=> i < Len(rest)
  /\ \A i \in DOMAIN rest : rest[i].text # NoText

\* Each line on its way answers the command of the one before it, or, after the
\* end of a reply, the next one.
Chained ==
  /\ \A i \in DOMAIN partial : partial[i].to = got + 1 /\ partial[i].dash
  /\ outgoing # <<>> => outgoing[1].to = got + 1
  /\ \A i \in 1 .. Len(outgoing) - 1 :
       outgoing[i + 1].to = outgoing[i].to + (IF outgoing[i].dash THEN 0 ELSE 1)

\* They end with what the session said last.
EndsAtSession ==
  /\ \A i \in DOMAIN outgoing : outgoing[i].to \in 1 .. read
  /\ rest # <<>> =>
       IF outgoing = <<>> THEN got + 1 = read
       ELSE read = outgoing[Len(outgoing)].to + (IF outgoing[Len(outgoing)].dash THEN 0 ELSE 1)
  /\ rest = <<>> =>
       IF outgoing = <<>> THEN got = read /\ partial = <<>>
       ELSE read = outgoing[Len(outgoing)].to /\ ~outgoing[Len(outgoing)].dash

StepInv == RepliesTypeOK /\ (config.name # NoText => ServingFits /\ Chained /\ EndsAtSession)

\* The line at position i of outgoing, or the next one to be sent, is the nth of
\* its reply.
IsNth(i, n) ==
  \/ n = Len(partial) + i /\ \A j \in 1 .. i - 1 : outgoing[j].dash
  \/ \E j \in 1 .. i - 1 :
       n = i - j /\ ~outgoing[j].dash /\ \A k \in j + 1 .. i - 1 : outgoing[k].dash

\* A line of an EHLO's reply is in its place: what was sent is about the connection
\* as it is now.
TellsFeature(l, n) ==
  asked[l.to] = "EHLO" =>
    \/ l.code # 250 /\ ~l.dash
    \/ /\ l.code = 250 /\ n \in DOMAIN EhloReplies
       /\ l.text = EhloReplies[n].text /\ (l.dash <=> n < Len(EhloReplies))

FeaturesInPlace ==
  /\ \A i \in DOMAIN partial : TellsFeature(partial[i], i)
  /\ \A i \in DOMAIN outgoing : \A n \in 1 .. Len(partial) + i :
       IsNth(i, n) => TellsFeature(outgoing[i], n)
  /\ \A n \in 1 .. Len(partial) + Len(outgoing) + 1 :
       rest # <<>> /\ asked[read] = "EHLO" /\ IsNth(Len(outgoing) + 1, n) =>
         \/ Len(rest) = 1 /\ rest[1].code # 250
         \/ /\ n + Len(rest) = Len(EhloReplies) + 1
            /\ \A i \in DOMAIN rest : rest[i] = EhloReplies[n + i - 1]

\* A client knows nothing of the connection that a handshake begins for.
HandshakeForgets ==
  serving = "handshake" =>
    /\ asked[read] = "STARTTLS"
    /\ IF outgoing = <<>> THEN known = Unknown ELSE outgoing[Len(outgoing)].code = 220

FeaturesInv ==
  config.name # NoText => FeaturesInPlace /\ HandshakeForgets /\ FeaturesTrue

\* A command that is sent after STARTTLS is sent when that one was answered.
WaitsAfterStarttls ==
  /\ \A k \in 1 .. Len(asked) - 1 : asked[k] = "STARTTLS" => k <= read
  /\ serving \in {"STARTTLS", "handshake"} => read = Len(asked)

DialogInv == config.name # NoText => WaitsAfterStarttls

RepliesInv == StepInv /\ FeaturesInv /\ DialogInv
================================================================================
