----------------------------- MODULE CommandParser -----------------------------
(***************************************************************************)
(* lib/smtp/src/command.rs: Command::parse, and what becomes of the        *)
(* addresses that it finds (Mail in lib/smtp/src/lib.rs).                  *)
(*                                                                         *)
(* A line is a sequence of tokens: blanks, one by one, and words, none of  *)
(* which is the beginning of another.  "FROM:" and "TO:" are words, with   *)
(* their colon, so what follows them needs no blank in between.            *)
(***************************************************************************)
EXTENDS Naturals, Sequences, FiniteSets, FiniteSetsExt

CONSTANTS
  Words, Upper,  \* the words, and to_ascii_uppercase of each
  Openers,       \* the tokens a client begins a line with
  Pieces,        \* and what it may go on with: sequences of tokens
  MaxTokens      \* bound of the model: a longer line is not continued

Blanks == {"SP", "TAB", "CR", "LF"}
Tokens == Words \cup Blanks

ASSUME TokensAssumption ==
  /\ Words \cap Blanks = {}
  /\ Upper \in [Words -> Words]
  /\ Openers \subseteq Tokens /\ Pieces \subseteq Seq(Tokens)

VARIABLE written  \* the line that the client writes

--------------------------------------------------------------------------------
(* Pieces of a line; an optional value is a sequence of one or none. *)

From(n, s) == SubSeq(s, n, Len(s))
Uppercase(s) == [i \in DOMAIN s |-> IF s[i] \in Words THEN Upper[s[i]] ELSE s[i]]
EndsWith(s, tail) == Len(s) >= Len(tail) /\ From(Len(s) - Len(tail) + 1, s) = tail

StripNewline(s) ==
  SubSeq(s, 1, Len(s) - (IF EndsWith(s, <<"CR", "LF">>) THEN 2
                         ELSE IF EndsWith(s, <<"LF">>) THEN 1 ELSE 0))

\* split_none_or_once, at a blank
SplitOnce(s) ==
  LET spaces == {i \in DOMAIN s : s[i] = "SP"} IN
  IF spaces = {} THEN [head |-> s, arg |-> <<>>]
  ELSE [head |-> SubSeq(s, 1, Min(spaces) - 1), arg |-> <<From(Min(spaces) + 1, s)>>]

\* Fault, for a mutant of StripPrefix: the case counts.
StripPrefixExactly(s, prefix) ==
  IF s # <<>> /\ s[1] = prefix THEN <<Tail(s)>> ELSE <<>>

\* strip_prefix_case_insensitive
StripPrefix(s, prefix) ==
  IF s # <<>> /\ Uppercase(s)[1] = prefix THEN <<Tail(s)>> ELSE <<>>

Trim(s) ==
  LET solid == {i \in DOMAIN s : s[i] \notin Blanks} IN
  IF solid = {} THEN <<>> ELSE SubSeq(s, Min(solid), Max(solid))

\* String::from_utf8_lossy
Decoded(s) == [i \in DOMAIN s |-> IF s[i] = "invalid" THEN "replacement" ELSE s[i]]

--------------------------------------------------------------------------------
(* Command::parse *)

Command(name, data) == [name |-> name, data |-> data]
Error == Command("error", <<>>)

ParseHello(name, arg) ==
  IF arg = <<>> THEN Error ELSE Command(name, Trim(Decoded(arg[1])))

NoArgument(name, arg) == IF arg = <<>> THEN Command(name, <<>>) ELSE Error

ParseAuth(arg) ==
  IF arg = <<>> THEN Error
  ELSE LET split == SplitOnce(arg[1])
           mechanism == Uppercase(split.head)
       IN IF mechanism \in {<<"PLAIN">>, <<"LOGIN">>}
          THEN Command("AUTH", mechanism \o split.arg) ELSE Error

\* MAIL and RCPT
ParsePath(name, prefix, arg) ==
  LET path == IF arg = <<>> THEN <<>> ELSE StripPrefix(arg[1], prefix) IN
  IF path = <<>> THEN Error ELSE Command(name, Trim(Decoded(path[1])))

Parse(input) ==
  LET split == SplitOnce(StripNewline(input))
      verb == Uppercase(split.head)
      Is(name) == verb = <<name>>
  IN CASE Is("HELO") -> ParseHello("HELO", split.arg)
       [] Is("EHLO") -> ParseHello("EHLO", split.arg)
       [] Is("HELP") -> Command("HELP", <<>>)
       [] Is("STARTTLS") -> NoArgument("STARTTLS", split.arg)
       [] Is("AUTH") -> ParseAuth(split.arg)
       [] Is("MAIL") -> ParsePath("MAIL", "FROM:", split.arg)
       [] Is("RCPT") -> ParsePath("RCPT", "TO:", split.arg)
       [] Is("DATA") -> NoArgument("DATA", split.arg)
       [] Is("RSET") -> NoArgument("RSET", split.arg)
       [] Is("NOOP") -> NoArgument("NOOP", split.arg)
       [] Is("QUIT") -> NoArgument("QUIT", split.arg)
       [] OTHER -> Error

\* Fault, for a mutant of NormalizeAddress: blanks within the brackets stay.
NormalizeAddressOnce(address) ==
  LET bare == Trim(address)
      opened == IF bare # <<>> /\ bare[1] = "<" THEN Tail(bare) ELSE bare
  IN IF EndsWith(opened, <<">">>) THEN SubSeq(opened, 1, Len(opened) - 1) ELSE opened

\* Mail::normalize_address
NormalizeAddress(address) ==
  LET bare == Trim(address)
      opened == IF bare # <<>> /\ bare[1] = "<" THEN Tail(bare) ELSE bare
  IN Trim(IF EndsWith(opened, <<">">>) THEN SubSeq(opened, 1, Len(opened) - 1) ELSE opened)

--------------------------------------------------------------------------------
Ended == written[Len(written)] = "LF"

LineInit == \E token \in Openers : written = <<token>>

Write == ~Ended /\ Len(written) < MaxTokens /\ \E piece \in Pieces : written' = written \o piece

\* The line is long enough, or complete, and the next one begins.
NextLine == (Ended \/ Len(written) >= MaxTokens) /\ \E token \in Openers : written' = <<token>>

LineNext == Write \/ NextLine

LineSpec == LineInit /\ [][LineNext]_written

--------------------------------------------------------------------------------
(* Properties *)

Names == {"HELO", "EHLO", "HELP", "STARTTLS", "AUTH", "MAIL", "RCPT", "DATA", "RSET", "NOOP", "QUIT"}

\* The grammar, by the places of the words in a line without its end: the verb,
\* and for the commands that take one a blank and an argument.
Word(body, i, word) == i \in DOMAIN body /\ Uppercase(body)[i] = word
Blank(body, i) == i \in DOMAIN body /\ body[i] = "SP"

Says(body, name) ==
  /\ Word(body, 1, name)
  /\ CASE name \in {"STARTTLS", "DATA", "RSET", "NOOP", "QUIT"} -> Len(body) = 1
       [] name = "HELP" -> Len(body) = 1 \/ Blank(body, 2)
       [] name \in {"HELO", "EHLO"} -> Blank(body, 2)
       [] name = "MAIL" -> Blank(body, 2) /\ Word(body, 3, "FROM:")
       [] name = "RCPT" -> Blank(body, 2) /\ Word(body, 3, "TO:")
       [] name = "AUTH" ->
            /\ Blank(body, 2) /\ (Word(body, 3, "PLAIN") \/ Word(body, 3, "LOGIN"))
            /\ Len(body) = 3 \/ Blank(body, 4)

\* A line, in whatever case its verb and keywords are, with either line end, is
\* the command that the grammar says, or none, and what it carries is exactly
\* what follows: a path or a domain without the blanks around it, the initial
\* response of AUTH as it is.
ParsesAsWritten ==
  LET body == StripNewline(written)
      command == Parse(written)
  IN Ended =>
       /\ \A name \in Names : Says(body, name) <=> command.name = name
       /\ command.name \in {"MAIL", "RCPT"} => command.data = Decoded(Trim(From(4, body)))
       /\ command.name \in {"HELO", "EHLO"} => command.data = Decoded(Trim(From(3, body)))
       /\ command.name = "AUTH" =>
            command.data = <<Upper[body[3]]>> \o (IF Len(body) = 3 THEN <<>> ELSE <<From(5, body)>>)

\* However an address is written, with or without brackets, and with blanks
\* inside or outside of them, the mail has the bare address, which is what the
\* rights of a user are compared with.
AddressIsBare ==
  LET command == Parse(written)
      data == command.data
      Dressed(word) ==
        /\ Cardinality({i \in DOMAIN data : data[i] = word}) = 1
        /\ \A i \in DOMAIN data :
             \/ data[i] \in Blanks \cup {word}
             \/ data[i] = "<" /\ i = 1
             \/ data[i] = ">" /\ i = Len(data)
  IN Ended /\ command.name \in {"MAIL", "RCPT"} =>
       \A word \in Words \ {"<", ">"} :
         Dressed(word) => NormalizeAddress(data) = <<word>>

\* "mail sender, as per envelope (MAIL FROM:<from>)." (lib.rs:35), of a client
\* that uses the SIZE parameter EHLO offers (session.rs:210).
SenderAsPerEnvelope ==
  LET body == StripNewline(written) IN
  Ended /\ Len(body) = 8 /\ Says(body, "MAIL") /\ SubSeq(body, 4, 8) = <<"<", "a", ">", "SP", "SIZE=1">>
    => NormalizeAddress(Parse(written).data) = <<"a">>
================================================================================
