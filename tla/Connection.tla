------------------------------- MODULE Connection ------------------------------
(***************************************************************************)
(* lib/smtp/src/connection.rs and Session::read_line: how the bytes that a *)
(* client sends become lines, over a plain connection and, after STARTTLS, *)
(* over TLS.                                                               *)
(*                                                                         *)
(* TCP hands over bytes in whatever pieces they arrive; a BufReader reads  *)
(* as many as it can hold, past the end of a line.  What it holds when TLS *)
(* starts is put before the rest of the stream for the handshake.  A byte  *)
(* is a record with its kind: "plain"; "hello" and "key" for a handshake's *)
(* first message, in two pieces, and "finished" for the one that follows   *)
(* the server's; "sealed" for a byte under TLS and "opened" for the same   *)
(* byte after it.                                                          *)
(***************************************************************************)
EXTENDS Integers, Sequences

CONSTANTS
  Chars,          \* the bytes of a line but its newline; "S" is all of STARTTLS
  MaxLineLength,  \* MAX_LINE_LENGTH, and
  BufferSize,     \* the capacity of a BufReader, and of a read by TLS: positive
  HasAcceptor,    \* is TLS configured?
  MaxSent         \* bound of the model: the bytes a client sends

VARIABLES
  sent,      \* history: all that the client has sent
  wire,      \* what of it was not read from the socket yet
  closed,    \* has the client closed its side?
  layer,     \* "plain"; "hello", "key", "finished": what a handshake waits for; "tls"
  buffer,    \* of the BufReader
  prefix,    \* PrefixedTcpStream::prefix
  inTls,     \* read by the TLS stream and not opened yet
  phase,     \* of the session: "serving", "reading", "upgrading" or "ended"
  line,      \* of read_line: what it has so far, or has returned
  taken,     \* history: what lines were returned and the handshake has used
  end        \* history: how the session ended

vars == <<sent, wire, closed, layer, buffer, prefix, inTls, phase, line, taken, end>>
client == <<sent, closed>>

Bytes(kind) == [kind : {kind}, byte : Chars \cup {"\n"}]
HandshakePart(kind) == [kind |-> kind, byte |-> "h"]
AfterPart == [hello |-> "key", key |-> "finished", finished |-> "tls"]
Open(b) == IF b.kind = "sealed" THEN [b EXCEPT !.kind = "opened"] ELSE b

First(n, s) == SubSeq(s, 1, n)
Rest(n, s) == SubSeq(s, n + 1, Len(s))
\* How many of the bytes that are there a read may return.
Readable(s) == {n \in 1 .. Len(s) : n <= BufferSize}

Init ==
  /\ sent = <<>> /\ wire = <<>> /\ closed = FALSE
  /\ layer = "plain" /\ buffer = <<>> /\ prefix = <<>> /\ inTls = <<>>
  /\ phase = "serving" /\ line = <<>> /\ taken = <<>> /\ end = ""

--------------------------------------------------------------------------------
(* The client *)

\* It does not go back to plain text, and waits for the server's part of the
\* handshake; it does not wait for the answer to STARTTLS or to the handshake.
Sendable ==
  LET HasSent(kind) == \E i \in DOMAIN sent : sent[i].kind = kind IN
  IF HasSent("finished") THEN Bytes("sealed")
  ELSE IF ~HasSent("hello") THEN Bytes("plain") \cup {HandshakePart("hello")}
  ELSE IF ~HasSent("key") THEN {HandshakePart("key")}
  ELSE IF layer = "finished" THEN {HandshakePart("finished")} ELSE {}

Send ==
  /\ ~closed /\ phase # "ended" /\ Len(sent) < MaxSent
  /\ \E b \in Sendable : sent' = Append(sent, b) /\ wire' = Append(wire, b)
  /\ UNCHANGED <<closed, layer, buffer, prefix, inTls, phase, line, taken, end>>

Close ==
  /\ ~closed /\ phase # "ended" /\ closed' = TRUE
  /\ UNCHANGED <<sent, wire, layer, buffer, prefix, inTls, phase, line, taken, end>>

--------------------------------------------------------------------------------
(* The session *)

Ends(how) == phase' = "ended" /\ end' = how

\* read_line is called, unless the session ends for reasons of its own.
ReadLine ==
  /\ phase = "serving"
  /\ phase' = "reading" /\ line' = <<>>
  /\ UNCHANGED <<client, wire, layer, buffer, prefix, inTls, taken, end>>

\* fill_buf of a plain connection, when the buffer is empty.
FillPlain ==
  /\ phase = "reading" /\ layer = "plain" /\ buffer = <<>>
  /\ \E n \in Readable(wire) : buffer' = First(n, wire) /\ wire' = Rest(n, wire)
  /\ UNCHANGED <<client, layer, prefix, inTls, phase, line, taken, end>>

\* fill_buf of a TLS connection: what the TLS stream can open of what it has.
FillTls ==
  /\ phase = "reading" /\ layer = "tls" /\ buffer = <<>>
  /\ \E n \in Readable(inTls) :
       buffer' = [i \in 1 .. n |-> Open(inTls[i])] /\ inTls' = Rest(n, inTls)
  /\ UNCHANGED <<client, wire, layer, prefix, phase, line, taken, end>>

\* memchr: up to the first newline in the buffer, or all of it.
UpToNewline ==
  CHOOSE n \in DOMAIN buffer :
    /\ \A i \in 1 .. n - 1 : buffer[i].byte # "\n"
    /\ buffer[n].byte = "\n" \/ n = Len(buffer)

\* Fault, for a mutant of TooLong: the rest of the buffer counts as well.
TooLongInBuffer(n) == Len(line) + Len(buffer) > MaxLineLength

TooLong(n) == Len(line) + n > MaxLineLength

\* Bytes go from the buffer to the line, until it ends with a newline.
Take ==
  /\ phase = "reading" /\ buffer # <<>>
  /\ LET n == UpToNewline
         longer == line \o First(n, buffer)
     IN \/ /\ TooLong(n)
           /\ Ends("too long")
           /\ UNCHANGED <<buffer, line, taken>>
        \/ /\ ~TooLong(n)
           /\ line' = longer
           /\ buffer' = Rest(n, buffer)
           /\ IF buffer[n].byte = "\n"
              THEN phase' = "serving" /\ taken' = taken \o longer
              ELSE UNCHANGED <<phase, taken>>
           /\ UNCHANGED end
  /\ UNCHANGED <<client, wire, layer, prefix, inTls>>

\* Fault, for a mutant of FromExisting: the BufReader stays in use over TLS.
FromExistingKeepsBuffer == prefix' = <<>> /\ buffer' = buffer

\* PrefixedTcpStream::from_existing
FromExisting == prefix' = buffer /\ buffer' = <<>>

\* The session has answered to STARTTLS.
StartTls ==
  /\ phase = "serving" /\ layer = "plain" /\ HasAcceptor
  /\ Len(line) = 2 /\ line[1].byte = "S"
  /\ FromExisting
  /\ layer' = "hello" /\ phase' = "upgrading" /\ line' = <<>>
  /\ UNCHANGED <<client, wire, inTls, taken, end>>

\* Fault, for a mutant of PollRead: the prefix is not drained.
PollReadAgain ==
  IF prefix # <<>>
  THEN \E n \in Readable(prefix) :
         inTls' = First(n, prefix) /\ prefix' = (IF n = Len(prefix) THEN <<>> ELSE prefix) /\ UNCHANGED wire
  ELSE \E n \in Readable(wire) :
         inTls' = First(n, wire) /\ wire' = Rest(n, wire) /\ UNCHANGED prefix

\* Fault, for a mutant of PollRead: what is left of the prefix is not read.
PollReadStalls ==
  /\ prefix = <<>>
  /\ \E n \in Readable(wire) :
       inTls' = First(n, wire) /\ wire' = Rest(n, wire) /\ UNCHANGED prefix

\* PrefixedTcpStream::poll_read
PollRead ==
  IF prefix # <<>>
  THEN \E n \in Readable(prefix) :
         inTls' = First(n, prefix) /\ prefix' = Rest(n, prefix) /\ UNCHANGED wire
  ELSE \E n \in Readable(wire) :
         inTls' = First(n, wire) /\ wire' = Rest(n, wire) /\ UNCHANGED prefix

\* The TLS stream reads when it has nothing left to work on.
ReadTls ==
  /\ \/ phase = "upgrading"
     \/ phase = "reading" /\ layer = "tls" /\ buffer = <<>>
  /\ inTls = <<>>
  /\ PollRead
  /\ UNCHANGED <<client, layer, buffer, phase, line, taken, end>>

\* tls.accept works on what it has read, and fails on what is no handshake.
Handshake ==
  /\ phase = "upgrading" /\ inTls # <<>>
  /\ IF inTls[1].kind = layer
     THEN /\ taken' = Append(taken, inTls[1]) /\ inTls' = Rest(1, inTls)
          /\ layer' = AfterPart[layer]
          /\ phase' = (IF layer' = "tls" THEN "serving" ELSE "upgrading")
          /\ UNCHANGED end
     ELSE Ends("handshake") /\ UNCHANGED <<taken, inTls, layer>>
  /\ UNCHANGED <<client, wire, buffer, prefix, line>>

\* Nothing is left to be read, and nothing will come.
Eof ==
  /\ phase \in {"reading", "upgrading"}
  /\ closed /\ buffer \o inTls \o prefix \o wire = <<>>
  /\ Ends("eof")
  /\ UNCHANGED <<client, wire, layer, buffer, prefix, inTls, line, taken>>

\* A time limit, a failing connection, or the session's own decision.
Cut ==
  /\ phase # "ended"
  /\ Ends("cut")
  /\ UNCHANGED <<client, wire, layer, buffer, prefix, inTls, line, taken>>

ReadSteps == FillPlain \/ FillTls \/ Take \/ ReadTls \/ Handshake \/ Eof

Next == Send \/ Close \/ ReadLine \/ StartTls \/ ReadSteps \/ Cut

\* The runtime polls a task again when its socket has something for it.
Spec == Init /\ [][Next]_vars /\ WF_vars(ReadSteps)

--------------------------------------------------------------------------------
(* Properties *)

\* All that was sent and is in no returned line yet, in the order of its use.
Pending ==
  (IF phase \in {"reading", "ended"} THEN line ELSE <<>>) \o buffer \o inTls \o prefix \o wire

\* The bytes of every line, and those of the handshake, are the bytes that the
\* client sent, each of them once and in order, however TCP cuts the stream and
\* wherever in it TLS starts.
Follows(used) == Len(used) = Len(sent) /\ \A i \in DOMAIN sent : used[i] \in {sent[i], Open(sent[i])}
InOrderAndOnce == phase # "ended" => Follows(taken \o Pending)

\* A line after STARTTLS has only bytes that came under TLS: nothing that was
\* read ahead in plain text is left to be taken for a command.
NoPlainTextInTls == layer = "tls" => \A i \in DOMAIN line : line[i].kind = "opened"

\* The limit and the end of a line do not depend on how TCP cuts the stream: a
\* returned line ends at its only newline, within the limit, and is refused only
\* if the bytes sent have no newline within it.
LineLimitExact ==
  /\ phase = "serving" /\ line # <<>> =>
       /\ Len(line) <= MaxLineLength
       /\ \A i \in DOMAIN line : line[i].byte = "\n" <=> i = Len(line)
  /\ end = "too long" =>
       Len(Pending) > MaxLineLength /\ \A i \in 1 .. MaxLineLength : Pending[i].byte # "\n"

\* A session that waits for a line, or for the handshake, goes on once the client
\* has sent it: nothing that was read ahead stays where it is not looked for.
Waits ==
  \/ phase = "reading" /\ \E i \in DOMAIN Pending : Pending[i].byte = "\n"
  \/ phase = "upgrading" /\ Pending # <<>>
ReadsOn == Waits ~> ~Waits

--------------------------------------------------------------------------------
(* The inductive strengthening of the safety properties *)

Kinds == {"plain", "hello", "key", "finished", "sealed", "opened"}
AnyByte == [kind : Kinds, byte : Chars \cup {"\n", "h"}]
Handshaking == {"hello", "key", "finished"}

Streams ==
  /\ sent \in Seq(AnyByte) /\ wire \in Seq(AnyByte) /\ buffer \in Seq(AnyByte)
  /\ prefix \in Seq(AnyByte) /\ inTls \in Seq(AnyByte)
  /\ line \in Seq(AnyByte) /\ taken \in Seq(AnyByte)
  /\ layer \in Handshaking \cup {"plain", "tls"}
  /\ phase \in {"serving", "reading", "upgrading", "ended"}

\* Nothing is left behind in a layer that is not there.
NothingElsewhere ==
  /\ layer = "plain" => inTls = <<>> /\ prefix = <<>>
  /\ layer \in Handshaking => phase \in {"upgrading", "ended"} /\ buffer = <<>> /\ line = <<>>
  /\ phase = "upgrading" => layer \in Handshaking

\* After the last part of the handshake a client sends under TLS only; once the
\* server has used that part, what it reads was opened by TLS.
SealedLast ==
  /\ \A i, j \in DOMAIN sent : i < j /\ sent[i].kind = "finished" => sent[j].kind = "sealed"
  /\ layer = "tls" =>
       /\ \E i \in DOMAIN taken : taken[i].kind = "finished"
       /\ \A i \in DOMAIN buffer : buffer[i].kind = "opened"
       /\ NoPlainTextInTls

\* A line that is being read has no newline yet.
LineOpen ==
  /\ phase = "reading" => \A i \in DOMAIN line : line[i].byte # "\n"
  /\ phase # "ended" => end = ""

ConnectionInv ==
  /\ Streams /\ NothingElsewhere /\ SealedLast /\ LineOpen
  /\ InOrderAndOnce /\ LineLimitExact
================================================================================
