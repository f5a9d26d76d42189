---------------------------- MODULE ConnectionProofs ---------------------------
(* The theorems about Connection, for every set of bytes, line limit, size of *)
(* a buffer and number of bytes sent.                                         *)
EXTENDS Connection, SequenceTheorems, WellFoundedInduction, TLAPS

\* The limit of a line is a number.
LimitIsNumber == MaxLineLength \in Nat

--------------------------------------------------------------------------------
(* Sequences in two pieces *)

\* A sequence is its first n elements and the rest.
LEMMA TwoPieces ==
  ASSUME NEW T, NEW s \in Seq(T), NEW n \in 0 .. Len(s)
  PROVE  /\ First(n, s) \in Seq(T) /\ Rest(n, s) \in Seq(T)
         /\ Len(First(n, s)) = n /\ Len(Rest(n, s)) = Len(s) - n
         /\ \A i \in 1 .. n : First(n, s)[i] = s[i]
         /\ \A i \in 1 .. Len(s) - n : Rest(n, s)[i] = s[i + n]
         /\ First(n, s) \o Rest(n, s) = s
<1>1. Len(s) \in Nat /\ \A i \in 1 .. Len(s) : s[i] \in T
  BY LenProperties
<1>2. /\ First(n, s) \in Seq(T) /\ Len(First(n, s)) = n
      /\ \A i \in 1 .. n : First(n, s)[i] = s[i]
  <2>1. \A i \in 1 .. n : s[i] \in T
    BY <1>1
  <2> QED
    BY <1>1, <2>1, SubSeqProperties DEF First
<1>3. /\ Rest(n, s) \in Seq(T) /\ Len(Rest(n, s)) = Len(s) - n
      /\ \A i \in 1 .. Len(s) - n : Rest(n, s)[i] = s[i + n]
  <2>1. \A i \in n + 1 .. Len(s) : s[i] \in T
    BY <1>1
  <2>2. n + 1 \in Int /\ Len(s) \in Int
    BY <1>1
  <2>3. /\ SubSeq(s, n + 1, Len(s)) \in Seq(T)
        /\ Len(SubSeq(s, n + 1, Len(s))) = IF n + 1 <= Len(s) THEN Len(s) - (n + 1) + 1 ELSE 0
        /\ \A i \in 1 .. Len(s) - (n + 1) + 1 : SubSeq(s, n + 1, Len(s))[i] = s[n + 1 + i - 1]
    BY <2>1, <2>2, SubSeqProperties
  <2> QED
    BY <1>1, <2>3 DEF Rest
<1>4. First(n, s) \o Rest(n, s) = s
  <2>1. /\ First(n, s) \o Rest(n, s) \in Seq(T)
        /\ Len(First(n, s) \o Rest(n, s)) = Len(s)
        /\ \A i \in 1 .. Len(s) : (First(n, s) \o Rest(n, s))[i] =
             IF i <= n THEN First(n, s)[i] ELSE Rest(n, s)[i - n]
    BY <1>1, <1>2, <1>3, ConcatProperties
  <2>2. \A i \in 1 .. Len(s) : (First(n, s) \o Rest(n, s))[i] = s[i]
    <3> SUFFICES ASSUME NEW i \in 1 .. Len(s)
                 PROVE  (First(n, s) \o Rest(n, s))[i] = s[i]
      OBVIOUS
    <3>1. CASE i <= n
      BY <1>2, <2>1, <3>1
    <3>2. CASE ~(i <= n)
      <4>1. i - n \in 1 .. Len(s) - n /\ (i - n) + n = i
        BY <1>1, <3>2
      <4> QED
        BY <1>3, <2>1, <3>2, <4>1
    <3> QED
      BY <3>1, <3>2
  <2> QED
    BY <2>1, <2>2, SeqEqual
<1> QED
  BY <1>2, <1>3, <1>4

\* One more element is added at the far end of two pieces.
LEMMA AppendToSecond ==
  ASSUME NEW T, NEW s \in Seq(T), NEW t \in Seq(T), NEW e \in T
  PROVE  s \o Append(t, e) = Append(s \o t, e)
<1>1. /\ s \o t \in Seq(T)
      /\ Append(t, e) = t \o <<e>> /\ Append(s \o t, e) = (s \o t) \o <<e>>
  BY ConcatProperties, AppendIsConcat
<1>2. <<e>> \in Seq(T)
  OBVIOUS
<1> QED
  BY <1>1, <1>2, ConcatAssociative

\* The least n at which a sequence has an element, or its end.
LEMMA LeastNumber ==
  ASSUME NEW S, S \subseteq Nat, S # {}
  PROVE  \E n \in S : \A m \in S : n <= m
<1>1. PICK n \in S : \A m \in S : ~(<<m, n>> \in OpToRel(<, Nat))
  BY WFMin, NatLessThanWellFounded, Zenon
<1>2. \A m \in S : ~(m < n)
  BY <1>1, Zenon DEF OpToRel
<1> QED
  BY <1>2

\* What memchr finds: the first newline in the buffer, or the buffer's end.
LEMMA NewlineFound ==
  ASSUME NEW T, buffer \in Seq(T), buffer # <<>>
  PROVE  /\ UpToNewline \in 1 .. Len(buffer)
         /\ \A i \in 1 .. UpToNewline - 1 : buffer[i].byte # "\n"
         /\ buffer[UpToNewline].byte = "\n" \/ UpToNewline = Len(buffer)
<1> DEFINE Stops == {n \in DOMAIN buffer : buffer[n].byte = "\n" \/ n = Len(buffer)}
           IsIt(n) == /\ \A i \in 1 .. n - 1 : buffer[i].byte # "\n"
                      /\ buffer[n].byte = "\n" \/ n = Len(buffer)
<1>1. DOMAIN buffer = 1 .. Len(buffer) /\ Len(buffer) \in Nat /\ Len(buffer) # 0
  BY EmptySeq, LenProperties
<1>2. Len(buffer) \in Stops /\ Stops \subseteq Nat
  BY <1>1
<1>3. PICK n \in Stops : \A m \in Stops : n <= m
  BY <1>2, LeastNumber
<1>4. \A i \in 1 .. n - 1 : i \in DOMAIN buffer /\ ~(n <= i)
  BY <1>1, <1>3
<1>5. n \in DOMAIN buffer /\ IsIt(n)
  BY <1>3, <1>4
<1>6. UpToNewline = CHOOSE m \in DOMAIN buffer : IsIt(m)
  BY DEF UpToNewline
<1>7. UpToNewline \in DOMAIN buffer /\ IsIt(UpToNewline)
  BY <1>5, <1>6, Zenon
<1> QED
  BY <1>1, <1>7

--------------------------------------------------------------------------------
(* Where the bytes that were sent are *)

\* The part of a line that is not in a returned line.
Held == IF phase \in {"reading", "ended"} THEN line ELSE <<>>

\* Concatenation, of which only these facts are used.
Cat(s, t) == s \o t

LEMMA CatFacts ==
  ASSUME NEW T
  PROVE  /\ \A s, t \in Seq(T) : Cat(s, t) \in Seq(T)
         /\ \A s, t, u \in Seq(T) : Cat(Cat(s, t), u) = Cat(s, Cat(t, u))
         /\ \A s \in Seq(T) : Cat(s, <<>>) = s /\ Cat(<<>>, s) = s
<1>1. \A s, t \in Seq(T) : Cat(s, t) \in Seq(T)
  BY ConcatProperties DEF Cat
<1>2. \A s, t, u \in Seq(T) : Cat(Cat(s, t), u) = Cat(s, Cat(t, u))
  BY ConcatAssociative DEF Cat
<1>3. \A s \in Seq(T) : Cat(s, <<>>) = s /\ Cat(<<>>, s) = s
  BY ConcatEmptySeq DEF Cat
<1> QED
  BY <1>1, <1>2, <1>3

\* The six places, in the order in which their bytes were sent.
Places(t, l, b, i, p, w) == Cat(t, Cat(l, Cat(b, Cat(i, Cat(p, w)))))

LEMMA InPlaces ==
  ASSUME NEW T, NEW t \in Seq(T), NEW l \in Seq(T), NEW b \in Seq(T),
         NEW i \in Seq(T), NEW p \in Seq(T), NEW w \in Seq(T)
  PROVE  /\ Cat(t, Cat(Cat(Cat(Cat(l, b), i), p), w)) = Places(t, l, b, i, p, w)
         /\ Places(t, l, b, i, p, w) \in Seq(T)
<1>1. Cat(Cat(Cat(Cat(l, b), i), p), w) = Cat(Cat(Cat(l, b), i), Cat(p, w))
  <2>1. Cat(l, b) \in Seq(T)
    BY CatFacts
  <2>2. Cat(Cat(l, b), i) \in Seq(T)
    BY <2>1, CatFacts
  <2> QED
    BY <2>2, CatFacts
<1>2. Cat(Cat(Cat(l, b), i), Cat(p, w)) = Cat(Cat(l, b), Cat(i, Cat(p, w)))
  <2>1. Cat(l, b) \in Seq(T) /\ Cat(p, w) \in Seq(T)
    BY CatFacts
  <2> QED
    BY <2>1, CatFacts
<1>3. Cat(Cat(l, b), Cat(i, Cat(p, w))) = Cat(l, Cat(b, Cat(i, Cat(p, w))))
  BY CatFacts
<1>4. Cat(t, Cat(l, Cat(b, Cat(i, Cat(p, w))))) \in Seq(T)
  BY CatFacts
<1> QED
  BY <1>1, <1>2, <1>3, <1>4 DEF Places

LEMMA UsedInPlaces ==
  ASSUME Streams
  PROVE  /\ (taken \o Pending) = Places(taken, Held, buffer, inTls, prefix, wire)
         /\ Held \in Seq(AnyByte) /\ (taken \o Pending) \in Seq(AnyByte)
<1>1. Held \in Seq(AnyByte)
  BY DEF Held, Streams
<1>2. (taken \o Pending) = Cat(taken, Cat(Cat(Cat(Cat(Held, buffer), inTls), prefix), wire))
  BY Zenon DEF Pending, Held, Cat
<1>3. /\ taken \in Seq(AnyByte) /\ buffer \in Seq(AnyByte) /\ inTls \in Seq(AnyByte)
      /\ prefix \in Seq(AnyByte) /\ wire \in Seq(AnyByte)
  BY DEF Streams
<1> QED
  BY <1>1, <1>2, <1>3, InPlaces

LEMMA UsedInPlacesNext ==
  ASSUME Streams'
  PROVE  /\ (taken \o Pending)' = Places(taken', Held', buffer', inTls', prefix', wire')
         /\ Held' \in Seq(AnyByte) /\ (taken \o Pending)' \in Seq(AnyByte)
<1>1. Held' \in Seq(AnyByte)
  BY DEF Held, Streams
<1>2. (taken \o Pending)' = Cat(taken', Cat(Cat(Cat(Cat(Held', buffer'), inTls'), prefix'), wire'))
  BY Zenon DEF Pending, Held, Cat
<1>3. /\ taken' \in Seq(AnyByte) /\ buffer' \in Seq(AnyByte) /\ inTls' \in Seq(AnyByte)
      /\ prefix' \in Seq(AnyByte) /\ wire' \in Seq(AnyByte)
  BY DEF Streams
<1> QED
  BY <1>1, <1>2, <1>3, InPlaces

\* A step moves bytes from one place to another and loses or adds none.
Moved == Streams' /\ sent' = sent /\ (phase' # "ended" => (taken \o Pending)' = taken \o Pending)

--------------------------------------------------------------------------------
(* What each step moves *)

LEMMA OpenType == ASSUME NEW b \in AnyByte PROVE Open(b) \in AnyByte
BY DEF Open, AnyByte, Kinds

LEMMA SendableType == ASSUME NEW b \in Sendable PROVE b \in AnyByte
BY DEF Sendable, Bytes, HandshakePart, AnyByte, Kinds

LEMMA ReadLineMoves == ASSUME ConnectionInv, ReadLine PROVE Moved
<1>1. Streams' /\ Held = <<>> /\ Held' = <<>>
  BY EmptySeq DEF ConnectionInv, Streams, ReadLine, client, Held
<1>2. Pending' = Pending
  BY <1>1 DEF ReadLine, Pending, Held
<1> QED
  BY <1>1, <1>2 DEF ReadLine, client, Moved

LEMMA FillPlainMoves == ASSUME ConnectionInv, FillPlain PROVE Moved
<1>1. Streams /\ buffer = <<>> /\ inTls = <<>> /\ prefix = <<>> /\ wire \in Seq(AnyByte)
  BY DEF ConnectionInv, FillPlain, NothingElsewhere, Streams
<1>2. PICK n \in Readable(wire) : buffer' = First(n, wire) /\ wire' = Rest(n, wire)
  BY DEF FillPlain
<1>3. n \in 0 .. Len(wire)
  BY DEF Readable
<1>4. buffer' \in Seq(AnyByte) /\ wire' \in Seq(AnyByte) /\ Cat(buffer', wire') = wire
  BY <1>1, <1>2, <1>3, TwoPieces DEF Cat
<1>5. Streams' /\ Held' = Held /\ inTls' = <<>> /\ prefix' = <<>> /\ taken' = taken /\ sent' = sent
  BY <1>1, <1>4 DEF FillPlain, Streams, client, Held
<1>6. Cat(buffer, Cat(inTls, Cat(prefix, wire))) = wire
  BY <1>1, CatFacts
<1>7. Cat(buffer', Cat(inTls', Cat(prefix', wire'))) = wire
  BY <1>4, <1>5, CatFacts
<1> QED
  BY <1>1, <1>5, <1>6, <1>7, UsedInPlaces, UsedInPlacesNext DEF Places, Moved

LEMMA TakeMoves == ASSUME ConnectionInv, Take PROVE Moved
<1> DEFINE n == UpToNewline
           f == First(n, buffer)
           s == Rest(n, buffer)
           r == Cat(inTls, Cat(prefix, wire))
<1>1. /\ Streams /\ phase = "reading" /\ buffer # <<>> /\ sent' = sent
      /\ UNCHANGED <<inTls, prefix, wire, layer>>
  BY DEF ConnectionInv, Take, client
<1>2. n \in 0 .. Len(buffer)
  BY <1>1, NewlineFound DEF Streams
<1>3. f \in Seq(AnyByte) /\ s \in Seq(AnyByte) /\ Cat(f, s) = buffer
  BY <1>1, <1>2, TwoPieces DEF Streams, Cat
<1>4. line \in Seq(AnyByte) /\ taken \in Seq(AnyByte)
  BY <1>1 DEF Streams
<1>5. r \in Seq(AnyByte)
  BY <1>1, CatFacts DEF Streams
<1>6. Cat(line, f) \in Seq(AnyByte) /\ Cat(taken, Cat(line, f)) \in Seq(AnyByte) /\ Cat(s, r) \in Seq(AnyByte)
  <2> HIDE DEF n, f, s, r
  <2> QED
    BY <1>3, <1>4, <1>5, CatFacts
<1>7. Cat(line, Cat(buffer, r)) = Cat(Cat(line, f), Cat(s, r))
  <2> HIDE DEF n, f, s, r
  <2> QED
    BY <1>3, <1>4, <1>5, <1>6, CatFacts
<1>8. taken \o Pending = Cat(taken, Cat(Cat(line, f), Cat(s, r)))
  BY <1>1, <1>7, UsedInPlaces DEF Places, Held
<1>9. CASE TooLong(n) /\ Ends("too long") /\ UNCHANGED <<buffer, line, taken>>
  BY <1>1, <1>9 DEF Moved, Streams, Ends
<1>10. CASE /\ line' = line \o f /\ buffer' = s
            /\ phase' = "serving" /\ taken' = taken \o (line \o f)
  <2>1. line' = Cat(line, f) /\ taken' = Cat(taken, Cat(line, f)) /\ Held' = <<>>
    BY <1>10 DEF Cat, Held
  <2>2. Streams'
    BY <1>1, <1>3, <1>6, <1>10, <2>1 DEF Streams
  <2>3. (taken \o Pending)' = Cat(Cat(taken, Cat(line, f)), Cat(<<>>, Cat(s, r)))
    BY <1>1, <1>10, <2>1, <2>2, UsedInPlacesNext DEF Places
  <2>4. Cat(Cat(taken, Cat(line, f)), Cat(<<>>, Cat(s, r))) = Cat(taken, Cat(Cat(line, f), Cat(s, r)))
    <3> HIDE DEF n, f, s, r
    <3> QED
      BY <1>4, <1>6, CatFacts
  <2> QED
    BY <1>1, <1>8, <2>2, <2>3, <2>4 DEF Moved
<1>11. CASE line' = line \o f /\ buffer' = s /\ UNCHANGED <<phase, taken>>
  <2>1. line' = Cat(line, f) /\ Held' = Cat(line, f)
    BY <1>1, <1>11 DEF Cat, Held
  <2>2. Streams'
    BY <1>1, <1>3, <1>6, <1>11, <2>1 DEF Streams
  <2>3. (taken \o Pending)' = Cat(taken, Cat(Cat(line, f), Cat(s, r)))
    BY <1>1, <1>11, <2>1, <2>2, UsedInPlacesNext DEF Places
  <2> QED
    BY <1>1, <1>8, <2>2, <2>3 DEF Moved
<1> QED
  BY <1>9, <1>10, <1>11 DEF Take

LEMMA StartTlsMoves == ASSUME ConnectionInv, StartTls PROVE Moved
<1>1. /\ Streams /\ inTls = <<>> /\ prefix = <<>> /\ phase = "serving"
      /\ wire \in Seq(AnyByte) /\ buffer \in Seq(AnyByte)
  BY DEF ConnectionInv, StartTls, NothingElsewhere, Streams
<1>2. /\ prefix' = buffer /\ buffer' = <<>> /\ phase' = "upgrading" /\ line' = <<>>
      /\ UNCHANGED <<sent, wire, inTls, taken>> /\ layer' = "hello"
  BY DEF StartTls, FromExisting, client
<1>3. <<>> \in Seq(AnyByte)
  BY EmptySeq
<1>4. Streams'
  BY <1>1, <1>2, <1>3 DEF Streams, Handshaking
<1>5. Held = <<>> /\ Held' = <<>>
  BY <1>1, <1>2 DEF Held
<1>6. Cat(buffer, Cat(inTls, Cat(prefix, wire))) = Cat(buffer, wire)
  BY <1>1, CatFacts
<1>7. Cat(buffer', Cat(inTls', Cat(prefix', wire'))) = Cat(buffer, wire)
  BY <1>1, <1>2, CatFacts
<1> QED
  BY <1>1, <1>2, <1>4, <1>5, <1>6, <1>7, UsedInPlaces, UsedInPlacesNext DEF Places, Moved

LEMMA ReadTlsMoves == ASSUME ConnectionInv, ReadTls PROVE Moved
<1>1. /\ Streams /\ inTls = <<>> /\ prefix \in Seq(AnyByte) /\ wire \in Seq(AnyByte)
      /\ UNCHANGED <<sent, layer, buffer, phase, line, taken>>
  BY DEF ConnectionInv, ReadTls, Streams, client
<1>2. Held' = Held
  BY <1>1 DEF Held
<1>3. /\ inTls' \in Seq(AnyByte) /\ prefix' \in Seq(AnyByte) /\ wire' \in Seq(AnyByte)
      /\ Cat(inTls', Cat(prefix', wire')) = Cat(prefix, wire)
  <2>1. CASE prefix # <<>>
    <3>1. PICK n \in Readable(prefix) :
            inTls' = First(n, prefix) /\ prefix' = Rest(n, prefix) /\ wire' = wire
      BY <2>1 DEF ReadTls, PollRead
    <3>2. n \in 0 .. Len(prefix)
      BY DEF Readable
    <3>3. inTls' \in Seq(AnyByte) /\ prefix' \in Seq(AnyByte) /\ Cat(inTls', prefix') = prefix
      BY <1>1, <3>1, <3>2, TwoPieces DEF Cat
    <3> QED
      BY <1>1, <3>1, <3>3, CatFacts
  <2>2. CASE prefix = <<>>
    <3>1. PICK n \in Readable(wire) :
            inTls' = First(n, wire) /\ wire' = Rest(n, wire) /\ prefix' = prefix
      BY <2>2 DEF ReadTls, PollRead
    <3>2. n \in 0 .. Len(wire)
      BY DEF Readable
    <3>3. inTls' \in Seq(AnyByte) /\ wire' \in Seq(AnyByte) /\ Cat(inTls', wire') = wire
      BY <1>1, <3>1, <3>2, TwoPieces DEF Cat
    <3> QED
      BY <1>1, <2>2, <3>1, <3>3, CatFacts
  <2> QED
    BY <2>1, <2>2
<1>4. Streams'
  BY <1>1, <1>3 DEF Streams
<1>5. Cat(inTls, Cat(prefix, wire)) = Cat(prefix, wire)
  BY <1>1, CatFacts
<1> QED
  BY <1>1, <1>2, <1>3, <1>4, <1>5, UsedInPlaces, UsedInPlacesNext DEF Places, Moved

LEMMA HandshakeMoves == ASSUME ConnectionInv, Handshake PROVE Moved
<1>1. /\ Streams /\ phase = "upgrading" /\ inTls # <<>> /\ buffer = <<>> /\ layer \in Handshaking
      /\ inTls \in Seq(AnyByte) /\ taken \in Seq(AnyByte)
      /\ UNCHANGED <<sent, wire, buffer, prefix, line>>
  BY DEF ConnectionInv, Handshake, NothingElsewhere, Streams, client
<1>2. CASE Ends("handshake") /\ UNCHANGED <<taken, inTls, layer>>
  BY <1>1, <1>2 DEF Moved, Streams, Ends
<1>3. CASE /\ taken' = Append(taken, inTls[1]) /\ inTls' = Rest(1, inTls)
           /\ layer' = AfterPart[layer]
           /\ phase' = (IF layer' = "tls" THEN "serving" ELSE "upgrading")
  <2>1. 1 \in 0 .. Len(inTls) /\ inTls[1] \in AnyByte
    BY <1>1, EmptySeq, LenProperties
  <2>2. /\ First(1, inTls) \in Seq(AnyByte) /\ Rest(1, inTls) \in Seq(AnyByte)
        /\ Cat(First(1, inTls), Rest(1, inTls)) = inTls
    BY <1>1, <2>1, TwoPieces DEF Cat
  <2>3. First(1, inTls) = <<inTls[1]>>
    <3>1. Len(First(1, inTls)) = 1 /\ \A i \in 1 .. 1 : First(1, inTls)[i] = inTls[i]
      BY <1>1, <2>1, TwoPieces
    <3>2. <<inTls[1]>> \in Seq(AnyByte) /\ Len(<<inTls[1]>>) = 1
      BY <2>1
    <3> QED
      BY <2>2, <3>1, <3>2, SeqEqual
  <2>4. taken' = Cat(taken, First(1, inTls))
    BY <1>1, <1>3, <2>1, <2>3, AppendIsConcat DEF Cat
  <2>5. layer' \in {"key", "finished", "tls"}
    BY <1>1, <1>3 DEF AfterPart, Handshaking
  <2>6. Streams'
    <3>1. taken' \in Seq(AnyByte)
      BY <1>1, <2>2, <2>4, CatFacts
    <3> QED
      BY <1>1, <1>3, <2>2, <2>5, <3>1 DEF Streams, Handshaking
  <2>7. Held = <<>> /\ Held' = <<>>
    BY <1>1, <1>3 DEF Held
  <2> DEFINE r == Cat(prefix, wire)
             f == First(1, inTls)
             s == Rest(1, inTls)
  <2>8. r \in Seq(AnyByte)
    BY <1>1, CatFacts DEF Streams
  <2>9. taken \o Pending = Cat(taken, Cat(<<>>, Cat(<<>>, Cat(inTls, r))))
    BY <1>1, <2>7, UsedInPlaces DEF Places
  <2>10. (taken \o Pending)' = Cat(Cat(taken, f), Cat(<<>>, Cat(<<>>, Cat(s, r))))
    BY <1>1, <1>3, <2>4, <2>6, <2>7, UsedInPlacesNext DEF Places
  <2> HIDE DEF r, f, s
  <2>11. Cat(inTls, r) = Cat(f, Cat(s, r)) /\ Cat(s, r) \in Seq(AnyByte) /\ Cat(f, Cat(s, r)) \in Seq(AnyByte)
    BY <2>2, <2>8, CatFacts DEF f, s
  <2>12. Cat(taken, Cat(f, Cat(s, r))) = Cat(Cat(taken, f), Cat(s, r))
    BY <1>1, <2>2, <2>11, CatFacts DEF f
  <2>13. taken \o Pending = Cat(taken, Cat(f, Cat(s, r)))
    BY <2>9, <2>11, CatFacts
  <2>14. (taken \o Pending)' = Cat(Cat(taken, f), Cat(s, r))
    BY <2>10, <2>11, CatFacts
  <2> QED
    BY <1>1, <2>6, <2>12, <2>13, <2>14 DEF Moved
<1> QED
  BY <1>2, <1>3 DEF Handshake

LEMMA OthersMove ==
  ASSUME ConnectionInv, Close \/ Eof \/ Cut \/ UNCHANGED vars
  PROVE  Moved
<1>1. UNCHANGED <<sent, wire, layer, buffer, prefix, inTls, line, taken>> /\ Streams
  BY DEF Close, Eof, Cut, vars, client, ConnectionInv
<1>2. phase' = phase \/ phase' = "ended"
  BY DEF Close, Eof, Cut, Ends, vars
<1>3. Streams'
  BY <1>1, <1>2 DEF Streams
<1>4. phase' = phase => Pending' = Pending
  BY <1>1 DEF Pending
<1> QED
  BY <1>1, <1>2, <1>3, <1>4 DEF Moved

\* Opening a byte twice is opening it once.
LEMMA OpenTwice == ASSUME NEW b \in AnyByte PROVE Open(Open(b)) = Open(b)
BY DEF Open, AnyByte

\* Only a byte under TLS is changed by opening it.
LEMMA OpenKind ==
  ASSUME NEW b \in AnyByte
  PROVE  /\ b.kind # "sealed" => Open(b) = b
         /\ b.kind = "sealed" => Open(b).kind = "opened"
BY DEF Open, AnyByte

\* The bytes in one place are opened.
LEMMA FillTlsOpens ==
  ASSUME ConnectionInv, FillTls
  PROVE  /\ Streams' /\ sent' = sent /\ phase' = phase
         /\ Len((taken \o Pending)') = Len(taken \o Pending)
         /\ \A j \in 1 .. Len(taken \o Pending) :
              (taken \o Pending)'[j] \in {(taken \o Pending)[j], Open((taken \o Pending)[j])}
<1>1. /\ Streams /\ buffer = <<>> /\ inTls \in Seq(AnyByte)
      /\ UNCHANGED <<sent, wire, layer, prefix, phase, line, taken>>
  BY DEF ConnectionInv, FillTls, Streams, client
<1>2. PICK n \in Readable(inTls) :
        buffer' = [i \in 1 .. n |-> Open(inTls[i])] /\ inTls' = Rest(n, inTls)
  BY DEF FillTls
<1>3. n \in 0 .. Len(inTls) /\ n \in Nat
  BY DEF Readable
<1> DEFINE f == First(n, inTls)
           s == Rest(n, inTls)
           r == Cat(prefix, wire)
           h == Cat(taken, Held)
<1>4. /\ f \in Seq(AnyByte) /\ s \in Seq(AnyByte) /\ Cat(f, s) = inTls
      /\ Len(f) = n /\ \A i \in 1 .. n : f[i] = inTls[i]
  BY <1>1, <1>3, TwoPieces DEF Cat
<1>5. \A i \in 1 .. n : inTls[i] \in AnyByte /\ Open(inTls[i]) \in AnyByte
  BY <1>1, <1>3, OpenType, LenProperties
<1>6. buffer' \in Seq(AnyByte) /\ Len(buffer') = n /\ \A i \in 1 .. n : buffer'[i] = Open(f[i])
  BY <1>2, <1>3, <1>4, <1>5, SeqDef
<1>7. Streams'
  BY <1>1, <1>2, <1>4, <1>6 DEF Streams
<1>8. Held' = Held /\ Held \in Seq(AnyByte) /\ taken \in Seq(AnyByte)
  BY <1>1 DEF Held, Streams
<1>9. r \in Seq(AnyByte)
  BY <1>1, CatFacts DEF Streams
<1> HIDE DEF f, s, r
<1>10. h \in Seq(AnyByte) /\ Cat(s, r) \in Seq(AnyByte)
  BY <1>4, <1>8, <1>9, CatFacts
<1>11. taken \o Pending = Cat(h, Cat(f, Cat(s, r)))
  <2>1. taken \o Pending = Cat(taken, Cat(Held, Cat(<<>>, Cat(inTls, r))))
    BY <1>1, UsedInPlaces DEF Places, r
  <2>2. Cat(inTls, r) = Cat(f, Cat(s, r)) /\ Cat(inTls, r) \in Seq(AnyByte)
    BY <1>1, <1>4, <1>9, CatFacts
  <2>3. Cat(<<>>, Cat(inTls, r)) = Cat(inTls, r)
    BY <2>2, CatFacts
  <2>4. Cat(taken, Cat(Held, Cat(inTls, r))) = Cat(h, Cat(inTls, r))
    BY <1>8, <2>2, CatFacts
  <2> QED
    BY <2>1, <2>2, <2>3, <2>4
<1>12. (taken \o Pending)' = Cat(h, Cat(buffer', Cat(s, r)))
  <2>1. (taken \o Pending)' = Cat(taken, Cat(Held, Cat(buffer', Cat(s, r))))
    BY <1>1, <1>2, <1>7, <1>8, UsedInPlacesNext DEF Places, s, r
  <2>2. Cat(buffer', Cat(s, r)) \in Seq(AnyByte)
    BY <1>6, <1>10, CatFacts
  <2> QED
    BY <1>8, <2>1, <2>2, CatFacts
<1> DEFINE q == Cat(s, r)
<1>13. q \in Seq(AnyByte)
  BY <1>10
<1> HIDE DEF q, h
<1>14. /\ Cat(f, q) \in Seq(AnyByte) /\ Len(Cat(f, q)) = n + Len(q)
       /\ \A j \in 1 .. n + Len(q) : Cat(f, q)[j] = IF j <= n THEN f[j] ELSE q[j - n]
  BY <1>4, <1>13, ConcatProperties DEF Cat
<1>15. /\ Cat(buffer', q) \in Seq(AnyByte) /\ Len(Cat(buffer', q)) = n + Len(q)
       /\ \A j \in 1 .. n + Len(q) : Cat(buffer', q)[j] = IF j <= n THEN buffer'[j] ELSE q[j - n]
  BY <1>6, <1>13, ConcatProperties DEF Cat
<1>16. \A j \in 1 .. n + Len(q) : Cat(buffer', q)[j] \in {Cat(f, q)[j], Open(Cat(f, q)[j])}
  BY <1>3, <1>6, <1>14, <1>15
<1> DEFINE u == Cat(f, q)
           v == Cat(buffer', q)
<1>17. u \in Seq(AnyByte) /\ v \in Seq(AnyByte) /\ Len(u) = Len(v) /\ \A j \in 1 .. Len(u) : v[j] \in {u[j], Open(u[j])}
  BY <1>14, <1>15, <1>16
<1> HIDE DEF u, v
<1>18. /\ Len(Cat(h, u)) = Len(h) + Len(u)
       /\ \A j \in 1 .. Len(h) + Len(u) : Cat(h, u)[j] = IF j <= Len(h) THEN h[j] ELSE u[j - Len(h)]
  BY <1>10, <1>17, ConcatProperties DEF Cat
<1>19. /\ Len(Cat(h, v)) = Len(h) + Len(v)
       /\ \A j \in 1 .. Len(h) + Len(v) : Cat(h, v)[j] = IF j <= Len(h) THEN h[j] ELSE v[j - Len(h)]
  BY <1>10, <1>17, ConcatProperties DEF Cat
<1>20. Len(h) \in Nat /\ Len(u) \in Nat
  BY <1>10, <1>17, LenProperties
<1>21. \A j \in 1 .. Len(h) + Len(u) : Cat(h, v)[j] \in {Cat(h, u)[j], Open(Cat(h, u)[j])}
  <2> SUFFICES ASSUME NEW j \in 1 .. Len(h) + Len(u)
               PROVE  Cat(h, v)[j] \in {Cat(h, u)[j], Open(Cat(h, u)[j])}
    OBVIOUS
  <2>1. CASE j <= Len(h)
    BY <1>17, <1>18, <1>19, <2>1
  <2>2. CASE ~(j <= Len(h))
    <3>1. j - Len(h) \in 1 .. Len(u)
      BY <1>20, <2>2
    <3>2. Cat(h, v)[j] = v[j - Len(h)] /\ Cat(h, u)[j] = u[j - Len(h)]
      BY <1>17, <1>18, <1>19, <2>2
    <3> QED
      BY <1>17, <3>1, <3>2
  <2> QED
    BY <2>1, <2>2
<1>22. taken \o Pending = Cat(h, u) /\ (taken \o Pending)' = Cat(h, v)
  BY <1>11, <1>12 DEF u, v, q
<1> QED
  BY <1>1, <1>7, <1>17, <1>18, <1>19, <1>21, <1>22

\* A client adds one byte at the far end.
LEMMA SendAdds ==
  ASSUME ConnectionInv, Send
  PROVE  /\ Streams' /\ phase' = phase /\ phase # "ended"
         /\ \E b \in Sendable :
              sent' = Append(sent, b) /\ (taken \o Pending)' = Append(taken \o Pending, b)
<1>1. /\ Streams /\ phase # "ended"
      /\ UNCHANGED <<layer, buffer, prefix, inTls, phase, line, taken>>
  BY DEF ConnectionInv, Send
<1>2. PICK b \in Sendable : sent' = Append(sent, b) /\ wire' = Append(wire, b)
  BY DEF Send
<1>3. b \in AnyByte /\ sent \in Seq(AnyByte) /\ wire \in Seq(AnyByte)
  BY <1>1, SendableType DEF Streams
<1>4. sent' \in Seq(AnyByte) /\ wire' \in Seq(AnyByte)
  BY <1>2, <1>3, AppendProperties
<1>5. Streams'
  BY <1>1, <1>4 DEF Streams
<1>6. \A s, t \in Seq(AnyByte) : Cat(s, Append(t, b)) = Append(Cat(s, t), b) /\ Cat(s, t) \in Seq(AnyByte)
  BY <1>3, AppendToSecond, ConcatProperties DEF Cat
<1>7. /\ Held' = Held /\ Held \in Seq(AnyByte) /\ taken \in Seq(AnyByte) /\ buffer \in Seq(AnyByte)
      /\ inTls \in Seq(AnyByte) /\ prefix \in Seq(AnyByte)
  BY <1>1 DEF Held, Streams
<1> DEFINE p == Cat(prefix, wire)
           i == Cat(inTls, p)
           f == Cat(buffer, i)
           l == Cat(Held, f)
<1>8. p \in Seq(AnyByte) /\ Cat(prefix, wire') = Append(p, b)
  BY <1>2, <1>3, <1>6, <1>7
<1> HIDE DEF p
<1>9. i \in Seq(AnyByte) /\ Cat(inTls, Append(p, b)) = Append(i, b)
  BY <1>6, <1>7, <1>8
<1> HIDE DEF i
<1>10. f \in Seq(AnyByte) /\ Cat(buffer, Append(i, b)) = Append(f, b)
  BY <1>6, <1>7, <1>9
<1> HIDE DEF f
<1>11. l \in Seq(AnyByte) /\ Cat(Held, Append(f, b)) = Append(l, b)
  BY <1>6, <1>7, <1>10
<1> HIDE DEF l
<1>12. Cat(taken, Append(l, b)) = Append(Cat(taken, l), b)
  BY <1>6, <1>7, <1>11
<1>13. taken \o Pending = Cat(taken, l)
  BY <1>1, UsedInPlaces DEF Places, p, i, f, l
<1>14. (taken \o Pending)' = Cat(taken, Append(l, b))
  BY <1>1, <1>5, <1>7, <1>8, <1>9, <1>10, <1>11, UsedInPlacesNext DEF Places
<1> QED
  BY <1>1, <1>2, <1>5, <1>12, <1>13, <1>14

\* A session that has ended does nothing more.
LEMMA EndedStays == ASSUME [Next]_vars, phase' # "ended" PROVE phase # "ended"
BY DEF Next, Send, Close, ReadLine, StartTls, ReadSteps, FillPlain, FillTls, Take, ReadTls,
       Handshake, Eof, Cut, vars

\* Which steps move bytes and do nothing else to them.
LEMMA StepsMove ==
  ASSUME ConnectionInv, [Next]_vars
  PROVE  Moved \/ FillTls \/ Send
<1>1. CASE Close \/ Eof \/ Cut \/ UNCHANGED vars
  BY <1>1, OthersMove
<1>2. CASE ReadLine
  BY <1>2, ReadLineMoves
<1>3. CASE FillPlain
  BY <1>3, FillPlainMoves
<1>4. CASE Take
  BY <1>4, TakeMoves
<1>5. CASE StartTls
  BY <1>5, StartTlsMoves
<1>6. CASE ReadTls
  BY <1>6, ReadTlsMoves
<1>7. CASE Handshake
  BY <1>7, HandshakeMoves
<1> QED
  BY <1>1, <1>2, <1>3, <1>4, <1>5, <1>6, <1>7 DEF Next, ReadSteps

LEMMA StreamsStep == ASSUME ConnectionInv, [Next]_vars PROVE Streams'
BY StepsMove, FillTlsOpens, SendAdds DEF Moved

LEMMA InOrderStep == ASSUME ConnectionInv, [Next]_vars PROVE InOrderAndOnce'
<1> SUFFICES ASSUME phase' # "ended"
             PROVE  /\ Len((taken \o Pending)') = Len(sent')
                    /\ \A i \in DOMAIN sent' : (taken \o Pending)'[i] \in {sent'[i], Open(sent'[i])}
  BY DEF InOrderAndOnce, Follows
<1> DEFINE u == taken \o Pending
<1>1. phase # "ended" /\ Streams
  BY EndedStays DEF ConnectionInv
<1>2. /\ Len(u) = Len(sent) /\ \A i \in DOMAIN sent : u[i] \in {sent[i], Open(sent[i])}
      /\ sent \in Seq(AnyByte)
  BY <1>1 DEF ConnectionInv, InOrderAndOnce, Follows, Streams
<1>3. u \in Seq(AnyByte)
  BY <1>1, UsedInPlaces
<1>4. CASE Moved
  BY <1>2, <1>4 DEF Moved
<1>5. CASE FillTls
  <2>1. /\ sent' = sent /\ Len(u') = Len(u)
        /\ \A j \in 1 .. Len(u) : u'[j] \in {u[j], Open(u[j])}
    BY <1>5, FillTlsOpens
  <2> HIDE DEF u
  <2>2. DOMAIN sent = 1 .. Len(u) /\ \A i \in DOMAIN sent : sent[i] \in AnyByte
    BY <1>2, LenProperties
  <2>3. \A i \in DOMAIN sent : u'[i] \in {sent[i], Open(sent[i])}
    BY <1>2, <2>1, <2>2, OpenTwice
  <2> QED
    BY <1>2, <2>1, <2>3 DEF u
<1>6. CASE Send
  <2>1. PICK b \in Sendable : sent' = Append(sent, b) /\ u' = Append(u, b)
    BY <1>6, SendAdds
  <2> HIDE DEF u
  <2>2. b \in AnyByte /\ Len(sent) \in Nat
    BY <1>2, SendableType, LenProperties
  <2>3. /\ sent' \in Seq(AnyByte) /\ Len(sent') = Len(sent) + 1
        /\ \A i \in 1 .. Len(sent) : sent'[i] = sent[i]
        /\ sent'[Len(sent) + 1] = b
    BY <1>2, <2>1, <2>2, AppendProperties
  <2>4. /\ Len(u') = Len(u) + 1
        /\ \A i \in 1 .. Len(u) : u'[i] = u[i]
        /\ u'[Len(u) + 1] = b
    BY <1>3, <2>1, <2>2, AppendProperties
  <2>5. DOMAIN sent = 1 .. Len(sent) /\ DOMAIN sent' = 1 .. Len(sent) + 1
    BY <1>2, <2>3, LenProperties
  <2>6. \A i \in DOMAIN sent' : u'[i] \in {sent'[i], Open(sent'[i])}
    <3> SUFFICES ASSUME NEW i \in DOMAIN sent' PROVE u'[i] \in {sent'[i], Open(sent'[i])}
      OBVIOUS
    <3>1. CASE i \in 1 .. Len(sent)
      BY <1>2, <2>3, <2>4, <2>5, <3>1
    <3>2. CASE i = Len(sent) + 1
      BY <1>2, <2>3, <2>4, <3>2
    <3> QED
      BY <2>2, <2>5, <3>1, <3>2
  <2> QED
    BY <1>2, <2>3, <2>4, <2>6 DEF u
<1> QED
  BY <1>4, <1>5, <1>6, StepsMove

LEMMA NothingElsewhereStep ==
  ASSUME ConnectionInv, [Next]_vars
  PROVE  NothingElsewhere'
<1> USE DEF NothingElsewhere, Handshaking
<1>0. /\ NothingElsewhere
      /\ layer \in {"plain", "hello", "key", "finished", "tls"}
      /\ phase \in {"serving", "reading", "upgrading", "ended"}
  BY DEF ConnectionInv, Streams
<1>1. CASE Close \/ Eof \/ Cut \/ Send \/ UNCHANGED vars
  BY <1>0, <1>1 DEF Close, Eof, Cut, Send, vars, client, Ends
<1>2. CASE ReadLine
  BY <1>0, <1>2 DEF ReadLine
<1>3. CASE FillPlain
  BY <1>0, <1>3 DEF FillPlain
<1>4. CASE FillTls
  BY <1>0, <1>4 DEF FillTls
<1>5. CASE Take
  <2>1. layer' = layer /\ inTls' = inTls /\ prefix' = prefix /\ layer \notin Handshaking
    BY <1>0, <1>5 DEF Take
  <2>2. phase' # "upgrading"
    BY <1>5 DEF Take, Ends
  <2> QED
    BY <1>0, <2>1, <2>2
<1>6. CASE StartTls
  BY <1>0, <1>6 DEF StartTls, FromExisting
<1>7. CASE ReadTls
  BY <1>0, <1>7 DEF ReadTls
<1>8. CASE Handshake
  <2>1. /\ layer \in Handshaking /\ phase = "upgrading" /\ buffer' = <<>> /\ line' = <<>>
    BY <1>0, <1>8 DEF Handshake
  <2>2. CASE Ends("handshake") /\ UNCHANGED <<taken, inTls, layer>>
    BY <1>0, <2>1, <2>2 DEF Ends
  <2>3. CASE layer' = AfterPart[layer] /\ phase' = (IF layer' = "tls" THEN "serving" ELSE "upgrading")
    <3>1. layer' \in {"key", "finished", "tls"}
      BY <2>1, <2>3 DEF AfterPart
    <3> QED
      BY <2>1, <2>3, <3>1
  <2> QED
    BY <1>8, <2>2, <2>3 DEF Handshake
<1> QED
  BY <1>1, <1>2, <1>3, <1>4, <1>5, <1>6, <1>7, <1>8 DEF Next, ReadSteps

\* After the last part of the handshake every byte was sent under TLS.
LEMMA SentSealedStep ==
  ASSUME ConnectionInv, [Next]_vars
  PROVE  \A i, j \in DOMAIN sent' : i < j /\ sent'[i].kind = "finished" => sent'[j].kind = "sealed"
<1>1. /\ sent \in Seq(AnyByte)
      /\ \A i, j \in DOMAIN sent : i < j /\ sent[i].kind = "finished" => sent[j].kind = "sealed"
  BY DEF ConnectionInv, SealedLast, Streams
<1>2. CASE Send
  <2>1. PICK b \in Sendable : sent' = Append(sent, b)
    BY <1>2 DEF Send
  <2>2. b \in AnyByte /\ Len(sent) \in Nat /\ DOMAIN sent = 1 .. Len(sent)
    BY <1>1, SendableType, LenProperties
  <2>3. /\ sent' \in Seq(AnyByte) /\ Len(sent') = Len(sent) + 1
        /\ \A i \in 1 .. Len(sent) : sent'[i] = sent[i]
        /\ sent'[Len(sent) + 1] = b
    BY <1>1, <2>1, <2>2, AppendProperties
  <2>4. DOMAIN sent' = 1 .. Len(sent) + 1
    BY <2>3, LenProperties
  <2> SUFFICES ASSUME NEW i \in DOMAIN sent', NEW j \in DOMAIN sent',
                      i < j, sent'[i].kind = "finished"
               PROVE  sent'[j].kind = "sealed"
    OBVIOUS
  <2>5. i \in DOMAIN sent /\ sent[i].kind = "finished"
    BY <2>2, <2>3, <2>4
  <2>6. CASE j \in DOMAIN sent
    BY <1>1, <2>2, <2>3, <2>5, <2>6
  <2>7. CASE j = Len(sent) + 1
    <3>1. Sendable = Bytes("sealed")
      BY <2>5 DEF Sendable
    <3> QED
      BY <2>3, <2>7, <3>1 DEF Bytes
  <2> QED
    BY <2>2, <2>4, <2>6, <2>7
<1>3. CASE ~Send
  BY <1>1, <1>3, StepsMove, FillTlsOpens DEF Moved
<1> QED
  BY <1>2, <1>3

\* Under TLS, with nothing in the buffer, the next bytes came under TLS.
LEMMA SealedAhead ==
  ASSUME ConnectionInv, layer = "tls", phase # "ended", buffer = <<>>
  PROVE  \A j \in 1 .. Len(inTls) : inTls[j] \in AnyByte /\ inTls[j].kind \in {"sealed", "opened"}
<1> DEFINE u == taken \o Pending
           r == Cat(prefix, wire)
           h == Cat(taken, Held)
           v == Cat(inTls, r)
<1>1. /\ Streams /\ Len(u) = Len(sent) /\ \A i \in DOMAIN sent : u[i] \in {sent[i], Open(sent[i])}
      /\ \A i, j \in DOMAIN sent : i < j /\ sent[i].kind = "finished" => sent[j].kind = "sealed"
  BY DEF ConnectionInv, InOrderAndOnce, Follows, SealedLast
<1>2. PICK i \in DOMAIN taken : taken[i].kind = "finished"
  BY DEF ConnectionInv, SealedLast
<1>3. /\ taken \in Seq(AnyByte) /\ inTls \in Seq(AnyByte) /\ Held \in Seq(AnyByte)
      /\ sent \in Seq(AnyByte) /\ r \in Seq(AnyByte)
  BY <1>1, UsedInPlaces, CatFacts DEF Streams
<1>4. u = Cat(h, v)
  <2>1. u = Cat(taken, Cat(Held, Cat(<<>>, v)))
    BY <1>1, UsedInPlaces DEF Places
  <2> HIDE DEF r
  <2>2. v \in Seq(AnyByte)
    BY <1>3, CatFacts
  <2> HIDE DEF v, u
  <2> QED
    BY <1>3, <2>1, <2>2, CatFacts
<1> HIDE DEF u, r
<1>5. /\ h \in Seq(AnyByte) /\ Len(h) = Len(taken) + Len(Held)
      /\ \A k \in 1 .. Len(taken) + Len(Held) :
           h[k] = IF k <= Len(taken) THEN taken[k] ELSE Held[k - Len(taken)]
  BY <1>3, ConcatProperties DEF Cat
<1>6. /\ v \in Seq(AnyByte) /\ Len(v) = Len(inTls) + Len(r)
      /\ \A k \in 1 .. Len(inTls) + Len(r) :
           v[k] = IF k <= Len(inTls) THEN inTls[k] ELSE r[k - Len(inTls)]
  BY <1>3, ConcatProperties DEF Cat
<1> HIDE DEF h, v
<1>7. /\ Len(u) = Len(h) + Len(v)
      /\ \A k \in 1 .. Len(h) + Len(v) : u[k] = IF k <= Len(h) THEN h[k] ELSE v[k - Len(h)]
  <2>1. h \in Seq(AnyByte) /\ v \in Seq(AnyByte)
    BY <1>5, <1>6
  <2>2. u = h \o v
    BY <1>4 DEF Cat
  <2> QED
    BY <2>1, <2>2, ConcatProperties
<1>8. /\ Len(taken) \in Nat /\ Len(Held) \in Nat /\ Len(inTls) \in Nat /\ Len(r) \in Nat
      /\ DOMAIN taken = 1 .. Len(taken) /\ DOMAIN sent = 1 .. Len(u)
      /\ \A k \in DOMAIN sent : sent[k] \in AnyByte
      /\ \A k \in 1 .. Len(inTls) : inTls[k] \in AnyByte
  BY <1>1, <1>3, LenProperties
<1>9. i \in DOMAIN sent /\ u[i] = taken[i] /\ i <= Len(h)
  BY <1>5, <1>6, <1>7, <1>8
<1>10. sent[i].kind = "finished"
  <2>1. sent[i] \in AnyByte /\ u[i] \in {sent[i], Open(sent[i])} /\ u[i].kind = "finished"
    BY <1>1, <1>2, <1>8, <1>9
  <2> QED
    BY <2>1, OpenKind
<1> SUFFICES ASSUME NEW j \in 1 .. Len(inTls)
             PROVE  inTls[j] \in AnyByte /\ inTls[j].kind \in {"sealed", "opened"}
  OBVIOUS
<1> DEFINE k == Len(h) + j
<1>11. k \in DOMAIN sent /\ i < k /\ u[k] = inTls[j]
  <2>1. k \in 1 .. Len(h) + Len(v) /\ ~(k <= Len(h)) /\ k - Len(h) = j /\ i < k
    BY <1>5, <1>6, <1>8, <1>9
  <2>2. v[j] = inTls[j]
    BY <1>6, <1>8
  <2> QED
    BY <1>7, <1>8, <2>1, <2>2
<1> HIDE DEF k
<1>12. sent[k].kind = "sealed" /\ u[k] \in {sent[k], Open(sent[k])} /\ sent[k] \in AnyByte
  BY <1>1, <1>8, <1>9, <1>10, <1>11
<1>13. inTls[j] \in {sent[k], Open(sent[k])}
  BY <1>11, <1>12
<1>14. inTls[j].kind \in {"sealed", "opened"}
  BY <1>12, <1>13, OpenKind
<1> QED
  BY <1>8, <1>14

\* A byte that came under TLS is opened by what the TLS stream returns.
LEMMA OpenedInTls ==
  ASSUME NEW b \in AnyByte, b.kind \in {"sealed", "opened"}
  PROVE  Open(b).kind = "opened"
BY OpenKind

LEMMA SealedLastStep ==
  ASSUME ConnectionInv, [Next]_vars, phase # "ended"
  PROVE  SealedLast'
<1>0. /\ Streams /\ NothingElsewhere /\ SealedLast /\ taken \in Seq(AnyByte)
      /\ buffer \in Seq(AnyByte) /\ line \in Seq(AnyByte) /\ inTls \in Seq(AnyByte)
  BY DEF ConnectionInv, Streams
<1> SUFFICES ASSUME layer' = "tls"
             PROVE  /\ \E i \in DOMAIN taken' : taken'[i].kind = "finished"
                    /\ \A i \in DOMAIN buffer' : buffer'[i].kind = "opened"
                    /\ \A i \in DOMAIN line' : line'[i].kind = "opened"
  BY SentSealedStep DEF SealedLast, NoPlainTextInTls
<1>1. CASE Close \/ Eof \/ Cut \/ Send \/ ReadTls \/ UNCHANGED vars
  <2>1. UNCHANGED <<layer, taken, buffer, line>>
    BY <1>1 DEF Close, Eof, Cut, Send, ReadTls, vars
  <2> QED
    BY <1>0, <2>1 DEF SealedLast, NoPlainTextInTls
<1>2. CASE ReadLine
  <2>1. UNCHANGED <<layer, taken, buffer>> /\ line' = <<>>
    BY <1>2 DEF ReadLine
  <2> QED
    BY <1>0, <2>1 DEF SealedLast
<1>3. CASE FillTls
  <2>1. PICK n \in Readable(inTls) : buffer' = [i \in 1 .. n |-> Open(inTls[i])]
    BY <1>3 DEF FillTls
  <2>2. UNCHANGED <<layer, taken, line>> /\ layer = "tls" /\ buffer = <<>>
    BY <1>3 DEF FillTls
  <2>3. \A i \in 1 .. n : i \in 1 .. Len(inTls)
    BY <1>0, LenProperties DEF Readable
  <2>4. \A i \in 1 .. n : Open(inTls[i]).kind = "opened"
    BY <2>2, <2>3, SealedAhead, OpenedInTls
  <2>5. \A i \in DOMAIN buffer' : buffer'[i].kind = "opened"
    BY <2>1, <2>4
  <2> QED
    BY <1>0, <2>2, <2>5 DEF SealedLast, NoPlainTextInTls
<1>4. CASE Take
  <2> DEFINE n == UpToNewline
             f == First(n, buffer)
             s == Rest(n, buffer)
  <2>1. layer = "tls" /\ buffer # <<>>
    BY <1>4 DEF Take
  <2>2. n \in 0 .. Len(buffer) /\ Len(buffer) \in Nat /\ DOMAIN buffer = 1 .. Len(buffer)
    BY <1>0, <2>1, NewlineFound, LenProperties
  <2>3. /\ f \in Seq(AnyByte) /\ s \in Seq(AnyByte)
        /\ Len(f) = n /\ Len(s) = Len(buffer) - n
        /\ \A i \in 1 .. n : f[i] = buffer[i]
        /\ \A i \in 1 .. Len(buffer) - n : s[i] = buffer[i + n]
    BY <1>0, <2>2, TwoPieces
  <2>4. /\ \A i \in DOMAIN buffer : buffer[i].kind = "opened"
        /\ \A i \in DOMAIN line : line[i].kind = "opened"
        /\ \E i \in DOMAIN taken : taken[i].kind = "finished"
    BY <1>0, <2>1 DEF SealedLast, NoPlainTextInTls
  <2>5. DOMAIN f = 1 .. n /\ DOMAIN s = 1 .. Len(buffer) - n
    BY <2>3, LenProperties
  <2>6. /\ \A i \in DOMAIN f : f[i].kind = "opened"
        /\ \A i \in DOMAIN s : s[i].kind = "opened"
    <3>1. \A i \in 1 .. Len(buffer) - n : i + n \in 1 .. Len(buffer)
      BY <2>2
    <3>2. \A i \in 1 .. n : i \in 1 .. Len(buffer)
      BY <2>2
    <3> HIDE DEF n, f, s
    <3> QED
      BY <2>2, <2>3, <2>4, <2>5, <3>1, <3>2
  <2> HIDE DEF f, s
  <2> DEFINE longer == line \o f
  <2>7. /\ longer \in Seq(AnyByte) /\ Len(longer) = Len(line) + Len(f)
        /\ \A i \in 1 .. Len(line) + Len(f) :
             longer[i] = IF i <= Len(line) THEN line[i] ELSE f[i - Len(line)]
    BY <1>0, <2>3, ConcatProperties
  <2>8. /\ Len(line) \in Nat /\ Len(f) \in Nat /\ DOMAIN line = 1 .. Len(line)
        /\ DOMAIN f = 1 .. Len(f) /\ DOMAIN longer = 1 .. Len(line) + Len(f)
    <3> HIDE DEF longer
    <3> QED
      BY <1>0, <2>3, <2>7, LenProperties
  <2> HIDE DEF longer
  <2>9. \A i \in DOMAIN longer : longer[i].kind = "opened"
    <3> SUFFICES ASSUME NEW i \in DOMAIN longer PROVE longer[i].kind = "opened"
      OBVIOUS
    <3>1. CASE i <= Len(line)
      BY <2>4, <2>7, <2>8, <3>1
    <3>2. CASE ~(i <= Len(line))
      <4>1. i - Len(line) \in DOMAIN f
        BY <2>8, <3>2
      <4> QED
        BY <2>6, <2>7, <2>8, <3>2, <4>1
    <3> QED
      BY <3>1, <3>2
  <2>10. CASE UNCHANGED <<buffer, line, taken>>
    BY <2>4, <2>10
  <2>11. CASE line' = longer /\ buffer' = s /\ taken' = taken
    BY <2>4, <2>6, <2>9, <2>11
  <2>12. CASE line' = longer /\ buffer' = s /\ taken' = taken \o longer
    <3>1. \E i \in DOMAIN taken' : taken'[i].kind = "finished"
      <4>1. PICK i \in DOMAIN taken : taken[i].kind = "finished"
        BY <2>4
      <4>2. /\ taken' \in Seq(AnyByte) /\ Len(taken') = Len(taken) + Len(longer)
            /\ \A k \in 1 .. Len(taken) + Len(longer) :
                 taken'[k] = IF k <= Len(taken) THEN taken[k] ELSE longer[k - Len(taken)]
        <5>1. taken \in Seq(AnyByte) /\ longer \in Seq(AnyByte)
          BY <1>0, <2>7
        <5> QED
          BY <2>12, <5>1, ConcatProperties
      <4>3. /\ Len(taken) \in Nat /\ Len(longer) \in Nat /\ DOMAIN taken = 1 .. Len(taken)
            /\ DOMAIN taken' = 1 .. Len(taken')
        BY <1>0, <2>7, <4>2, LenProperties
      <4>4. i \in DOMAIN taken' /\ taken'[i] = taken[i]
        BY <4>2, <4>3
      <4> QED
        BY <4>1, <4>4
    <3> QED
      BY <2>6, <2>9, <2>12, <3>1
  <2>13. \/ UNCHANGED <<buffer, line, taken>>
         \/ line' = longer /\ buffer' = s /\ taken' = taken
         \/ line' = longer /\ buffer' = s /\ taken' = taken \o longer
    BY <1>4 DEF Take, longer, f, s
  <2> QED
    BY <2>10, <2>11, <2>12, <2>13
<1>5. CASE Handshake
  <2>1. /\ inTls # <<>> /\ buffer' = <<>> /\ line' = <<>> /\ layer \in Handshaking
    BY <1>0, <1>5 DEF Handshake, NothingElsewhere
  <2>2. /\ taken' = Append(taken, inTls[1]) /\ inTls[1].kind = layer /\ AfterPart[layer] = "tls"
    BY <1>5, <2>1 DEF Handshake, Handshaking
  <2>3. layer = "finished"
    BY <2>1, <2>2 DEF AfterPart, Handshaking
  <2>4. inTls[1] \in AnyByte
    BY <1>0, <2>1, EmptySeq, LenProperties
  <2>5. /\ taken' \in Seq(AnyByte) /\ Len(taken') = Len(taken) + 1
        /\ taken'[Len(taken) + 1] = inTls[1]
    BY <1>0, <2>2, <2>4, AppendProperties
  <2>6. Len(taken) + 1 \in DOMAIN taken'
    BY <1>0, <2>5, LenProperties
  <2> QED
    BY <2>1, <2>2, <2>3, <2>5, <2>6
<1>6. CASE FillPlain \/ StartTls
  BY <1>6 DEF FillPlain, StartTls
<1> QED
  BY <1>1, <1>2, <1>3, <1>4, <1>5, <1>6 DEF Next, ReadSteps

\* What Take does to the line, in terms of positions.
LEMMA TakeLine ==
  ASSUME ConnectionInv, Take, ~TooLong(UpToNewline)
  PROVE  /\ line' \in Seq(AnyByte) /\ Len(line') = Len(line) + UpToNewline
         /\ \A i \in 1 .. Len(line) : line'[i] = line[i]
         /\ \A i \in 1 .. UpToNewline : line'[Len(line) + i] = buffer[i]
         /\ Len(line) \in Nat /\ UpToNewline \in 1 .. Len(buffer)
<1> DEFINE n == UpToNewline
           f == First(n, buffer)
<1>1. line \in Seq(AnyByte) /\ buffer \in Seq(AnyByte) /\ buffer # <<>>
  BY DEF ConnectionInv, Streams, Take
<1>2. n \in 1 .. Len(buffer) /\ n \in 0 .. Len(buffer)
  BY <1>1, NewlineFound
<1>3. f \in Seq(AnyByte) /\ Len(f) = n /\ \A i \in 1 .. n : f[i] = buffer[i]
  BY <1>1, <1>2, TwoPieces
<1>4. line' = line \o f
  BY DEF Take, TooLong
<1>5. Len(line) \in Nat /\ n \in Nat
  BY <1>1, <1>2, LenProperties
<1> HIDE DEF n, f
<1>6. f \in Seq(AnyByte)
  BY <1>3
<1>7. /\ line' \in Seq(AnyByte) /\ Len(line') = Len(line) + Len(f)
      /\ \A i \in 1 .. Len(line) + Len(f) :
           line'[i] = IF i <= Len(line) THEN line[i] ELSE f[i - Len(line)]
  BY <1>1, <1>4, <1>6, ConcatProperties
<1>8. \A i \in 1 .. Len(line) : line'[i] = line[i]
  BY <1>3, <1>5, <1>7
<1>9. \A i \in 1 .. n : line'[Len(line) + i] = buffer[i]
  <2> SUFFICES ASSUME NEW i \in 1 .. n PROVE line'[Len(line) + i] = buffer[i]
    OBVIOUS
  <2>1. /\ Len(line) + i \in 1 .. Len(line) + n /\ ~(Len(line) + i <= Len(line))
        /\ (Len(line) + i) - Len(line) = i
    BY <1>5
  <2> QED
    BY <1>3, <1>7, <2>1
<1> QED
  BY <1>2, <1>3, <1>5, <1>7, <1>8, <1>9 DEF n

LEMMA LineOpenStep ==
  ASSUME ConnectionInv, [Next]_vars
  PROVE  LineOpen'
<1>0. /\ LineOpen /\ line \in Seq(AnyByte) /\ buffer \in Seq(AnyByte)
  BY DEF ConnectionInv, Streams
<1>1. phase' # "ended" => end' = ""
  BY <1>0, EndedStays DEF LineOpen, Next, Send, Close, ReadLine, StartTls, ReadSteps, FillPlain,
       FillTls, Take, ReadTls, Handshake, Eof, Cut, Ends, vars
<1> SUFFICES ASSUME phase' = "reading"
             PROVE  \A i \in DOMAIN line' : line'[i].byte # "\n"
  BY <1>1 DEF LineOpen
<1>2. CASE ReadLine
  <2>1. line' = <<>>
    BY <1>2 DEF ReadLine
  <2> QED
    BY <2>1
<1>3. CASE Take
  <2>1. ~TooLong(UpToNewline) /\ buffer[UpToNewline].byte # "\n" /\ phase = "reading"
    BY <1>3 DEF Take, Ends
  <2>2. /\ line' \in Seq(AnyByte) /\ Len(line') = Len(line) + UpToNewline
        /\ \A i \in 1 .. Len(line) : line'[i] = line[i]
        /\ \A i \in 1 .. UpToNewline : line'[Len(line) + i] = buffer[i]
        /\ Len(line) \in Nat /\ UpToNewline \in 1 .. Len(buffer)
    BY <1>3, <2>1, TakeLine
  <2>3. \A i \in 1 .. UpToNewline - 1 : buffer[i].byte # "\n"
    BY <1>0, <1>3, NewlineFound DEF Take
  <2>4. \A i \in DOMAIN line : line[i].byte # "\n"
    BY <1>0, <2>1 DEF LineOpen
  <2>5. DOMAIN line' = 1 .. Len(line) + UpToNewline /\ DOMAIN line = 1 .. Len(line)
    BY <1>0, <2>2, LenProperties
  <2>6. UpToNewline \in Nat
    BY <2>2
  <2> SUFFICES ASSUME NEW i \in DOMAIN line' PROVE line'[i].byte # "\n"
    OBVIOUS
  <2>7. CASE i <= Len(line)
    BY <2>2, <2>4, <2>5, <2>7
  <2>8. CASE ~(i <= Len(line))
    <3>1. /\ i - Len(line) \in 1 .. UpToNewline /\ Len(line) + (i - Len(line)) = i
          /\ i - Len(line) = UpToNewline \/ i - Len(line) \in 1 .. UpToNewline - 1
      BY <2>2, <2>5, <2>6, <2>8
    <3>2. line'[i] = buffer[i - Len(line)]
      BY <2>2, <3>1
    <3> QED
      BY <2>1, <2>3, <3>1, <3>2
  <2> QED
    BY <2>7, <2>8
<1>4. CASE ~ReadLine /\ ~Take
  <2>1. phase = "reading" /\ line' = line
    BY <1>4 DEF Next, Send, Close, StartTls, ReadSteps, FillPlain, FillTls, ReadTls,
         Handshake, Eof, Cut, Ends, vars
  <2> QED
    BY <1>0, <2>1 DEF LineOpen
<1> QED
  BY <1>2, <1>3, <1>4

\* Where the bytes of a line that is too long are.
LEMMA PendingStart ==
  ASSUME ConnectionInv, Take
  PROVE  /\ Len(Pending) >= Len(line) + UpToNewline
         /\ \A i \in 1 .. Len(line) : Pending[i] = line[i]
         /\ \A i \in 1 .. UpToNewline : Pending[Len(line) + i] = buffer[i]
         /\ Len(line) \in Nat /\ UpToNewline \in 1 .. Len(buffer) /\ Len(Pending) \in Nat
<1>1. /\ Streams /\ phase = "reading" /\ buffer # <<>>
      /\ line \in Seq(AnyByte) /\ buffer \in Seq(AnyByte)
  BY DEF ConnectionInv, Take, Streams
<1> DEFINE r == Cat(inTls, Cat(prefix, wire))
           v == Cat(buffer, r)
<1>2. r \in Seq(AnyByte)
  BY <1>1, CatFacts DEF Streams
<1>3. Pending = Cat(line, v)
  <2>1. Pending = Cat(Cat(Cat(Cat(line, buffer), inTls), prefix), wire)
    BY <1>1 DEF Pending, Cat
  <2>2. inTls \in Seq(AnyByte) /\ prefix \in Seq(AnyByte) /\ wire \in Seq(AnyByte)
    BY <1>1 DEF Streams
  <2> DEFINE lb == Cat(line, buffer)
             lbi == Cat(lb, inTls)
             pw == Cat(prefix, wire)
  <2>3. lb \in Seq(AnyByte) /\ pw \in Seq(AnyByte)
    BY <1>1, <2>2, CatFacts
  <2> HIDE DEF lb, pw
  <2>4. lbi \in Seq(AnyByte) /\ lbi = Cat(line, Cat(buffer, inTls)) /\ Cat(buffer, inTls) \in Seq(AnyByte)
    BY <1>1, <2>2, <2>3, CatFacts DEF lb
  <2>5. Cat(lbi, pw) = Cat(lb, Cat(inTls, pw)) /\ Cat(inTls, pw) \in Seq(AnyByte)
    BY <2>2, <2>3, CatFacts
  <2>6. Cat(lb, Cat(inTls, pw)) = Cat(line, Cat(buffer, Cat(inTls, pw)))
    BY <1>1, <2>5, CatFacts DEF lb
  <2> HIDE DEF lbi
  <2>7. Cat(Cat(lbi, prefix), wire) = Cat(lbi, pw)
    BY <2>2, <2>4, CatFacts DEF pw
  <2> QED
    BY <2>1, <2>5, <2>6, <2>7 DEF lb, lbi, pw
<1> HIDE DEF r
<1>4. /\ v \in Seq(AnyByte) /\ Len(v) = Len(buffer) + Len(r)
      /\ \A i \in 1 .. Len(buffer) + Len(r) :
           v[i] = IF i <= Len(buffer) THEN buffer[i] ELSE r[i - Len(buffer)]
  BY <1>1, <1>2, ConcatProperties DEF Cat
<1> HIDE DEF v
<1>5. /\ Len(Pending) = Len(line) + Len(v)
      /\ \A i \in 1 .. Len(line) + Len(v) :
           Pending[i] = IF i <= Len(line) THEN line[i] ELSE v[i - Len(line)]
  <2>1. v \in Seq(AnyByte) /\ Pending = line \o v
    BY <1>3, <1>4 DEF Cat
  <2> QED
    BY <1>1, <2>1, ConcatProperties
<1>6. Len(line) \in Nat /\ Len(buffer) \in Nat /\ Len(r) \in Nat /\ UpToNewline \in 1 .. Len(buffer)
  BY <1>1, <1>2, LenProperties, NewlineFound
<1>7. \A i \in 1 .. Len(line) : Pending[i] = line[i]
  BY <1>4, <1>5, <1>6
<1>8. \A i \in 1 .. UpToNewline : Pending[Len(line) + i] = buffer[i]
  <2> SUFFICES ASSUME NEW i \in 1 .. UpToNewline PROVE Pending[Len(line) + i] = buffer[i]
    OBVIOUS
  <2>1. /\ Len(line) + i \in 1 .. Len(line) + Len(v) /\ ~(Len(line) + i <= Len(line))
        /\ (Len(line) + i) - Len(line) = i /\ i \in 1 .. Len(buffer) + Len(r) /\ i <= Len(buffer)
    BY <1>4, <1>6
  <2> QED
    BY <1>4, <1>5, <2>1
<1>9. Len(v) = Len(buffer) + Len(r) /\ Len(Pending) = Len(line) + Len(v)
  BY <1>4, <1>5
<1>10. Len(Pending) >= Len(line) + UpToNewline /\ Len(Pending) \in Nat
  BY <1>6, <1>9
<1> QED
  BY <1>6, <1>7, <1>8, <1>10

LEMMA LineLimitStep ==
  ASSUME LimitIsNumber, ConnectionInv, [Next]_vars
  PROVE  LineLimitExact'
<1>0. /\ NothingElsewhere /\ LineOpen /\ LineLimitExact
      /\ line \in Seq(AnyByte) /\ buffer \in Seq(AnyByte)
  BY DEF ConnectionInv, Streams
<1>1. CASE Take
  <2> DEFINE n == UpToNewline
             m == Len(line)
  <2>1. phase = "reading" /\ end = "" /\ buffer # <<>>
    BY <1>0, <1>1 DEF Take, LineOpen
  <2>2. m \in Nat /\ n \in Nat /\ n # 0
    <3>1. n \in 1 .. Len(buffer)
      BY <1>0, <2>1, NewlineFound
    <3>2. Len(buffer) \in Nat /\ m \in Nat
      BY <1>0, LenProperties
    <3> QED
      BY <3>1, <3>2
  <2>3. \A i \in 1 .. n - 1 : buffer[i].byte # "\n"
    BY <1>0, <2>1, NewlineFound
  <2>4. \A i \in 1 .. m : line[i].byte # "\n"
    BY <1>0, <2>1, LenProperties DEF LineOpen
  <2>5. CASE TooLong(n) /\ Ends("too long") /\ UNCHANGED <<buffer, line, taken>>
    <3>1. Pending' = Pending /\ phase' = "ended"
      BY <1>1, <2>1, <2>5 DEF Pending, Take, Ends
    <3>2. Len(Pending) >= m + n /\ Len(Pending) \in Nat
      BY <1>1, PendingStart
    <3>3. /\ \A i \in 1 .. m : Pending[i] = line[i]
          /\ \A i \in 1 .. n : Pending[m + i] = buffer[i]
      BY <1>1, PendingStart
    <3>4. m + n > MaxLineLength /\ MaxLineLength \in Nat
      BY <2>5 DEF TooLong, LimitIsNumber
    <3> HIDE DEF m, n
    <3>5. Len(Pending) > MaxLineLength
      BY <2>2, <3>2, <3>4
    <3>6. ASSUME NEW i \in 1 .. MaxLineLength PROVE Pending[i].byte # "\n"
      <4>1. CASE i <= m
        BY <2>2, <2>4, <3>3, <4>1
      <4>2. CASE ~(i <= m)
        <5>1. i - m \in 1 .. n - 1 /\ i - m \in 1 .. n /\ m + (i - m) = i
          BY <2>2, <3>4, <4>2
        <5>2. Pending[i] = buffer[i - m]
          BY <3>3, <5>1
        <5> QED
          BY <2>3, <5>1, <5>2
      <4> QED
        BY <4>1, <4>2
    <3> QED
      BY <3>1, <3>5, <3>6 DEF LineLimitExact
  <2>6. CASE ~TooLong(n)
    <3>1. line' \in Seq(AnyByte) /\ Len(line') = m + n
      BY <1>1, <2>6, TakeLine
    <3>2. /\ \A i \in 1 .. m : line'[i] = line[i]
          /\ \A i \in 1 .. n : line'[m + i] = buffer[i]
      BY <1>1, <2>6, TakeLine
    <3>3. end' = ""
      BY <1>1, <2>1, <2>6 DEF Take
    <3> SUFFICES ASSUME phase' = "serving"
                 PROVE  /\ Len(line') <= MaxLineLength
                        /\ \A i \in DOMAIN line' : line'[i].byte = "\n" <=> i = Len(line')
      BY <3>3 DEF LineLimitExact
    <3>4. buffer[n].byte = "\n"
      BY <1>1, <2>1, <2>6 DEF Take
    <3>5. DOMAIN line' = 1 .. m + n
      BY <3>1, LenProperties
    <3>6. ~(m + n > MaxLineLength) /\ MaxLineLength \in Nat
      BY <2>6 DEF TooLong, LimitIsNumber
    <3> HIDE DEF m, n
    <3>7. Len(line') <= MaxLineLength
      BY <2>2, <3>1, <3>6
    <3>8. ASSUME NEW i \in DOMAIN line' PROVE line'[i].byte = "\n" <=> i = Len(line')
      <4>1. i \in 1 .. m + n
        BY <3>5
      <4>2. CASE i <= m
        <5>1. i \in 1 .. m /\ i # m + n
          BY <2>2, <4>1, <4>2
        <5> QED
          BY <2>4, <3>1, <3>2, <5>1
      <4>3. CASE ~(i <= m)
        <5>1. /\ i - m \in 1 .. n /\ m + (i - m) = i
              /\ i # m + n => i - m \in 1 .. n - 1
              /\ i = m + n => i - m = n
          BY <2>2, <4>1, <4>3
        <5>2. line'[i] = buffer[i - m]
          BY <3>2, <5>1
        <5> QED
          BY <2>3, <3>1, <3>4, <5>1, <5>2
      <4> QED
        BY <4>2, <4>3
    <3> QED
      BY <3>7, <3>8
  <2> QED
    BY <1>1, <2>5, <2>6 DEF Take
<1>2. CASE ~Take /\ phase # "ended"
  <2>1. end' # "too long"
    BY <1>0, <1>2 DEF LineOpen, Next, Send, Close, ReadLine, StartTls, ReadSteps, FillPlain,
         FillTls, ReadTls, Handshake, Eof, Cut, Ends, vars
  <2>2. phase' = "serving" => \/ phase = "serving" /\ line' = line
                              \/ line' = <<>>
    BY <1>0, <1>2 DEF NothingElsewhere, Next, Send, Close, ReadLine, StartTls, ReadSteps, FillPlain,
         FillTls, ReadTls, Handshake, Eof, Cut, Ends, vars
  <2> QED
    BY <1>0, <2>1, <2>2 DEF LineLimitExact
<1>3. CASE phase = "ended"
  <2>1. UNCHANGED vars
    BY <1>3 DEF Next, Send, Close, ReadLine, StartTls, ReadSteps, FillPlain,
         FillTls, Take, ReadTls, Handshake, Eof, Cut, Ends
  <2>2. Pending' = Pending
    BY <2>1 DEF Pending, vars
  <2> QED
    BY <1>0, <2>1, <2>2 DEF LineLimitExact, vars
<1> QED
  BY <1>1, <1>2, <1>3

--------------------------------------------------------------------------------
(* The theorems *)

LEMMA ConnectionInvStep ==
  ASSUME LimitIsNumber PROVE ConnectionInv /\ [Next]_vars => ConnectionInv'
<1> SUFFICES ASSUME ConnectionInv, [Next]_vars PROVE ConnectionInv'
  OBVIOUS
<1>1. SealedLast'
  <2>1. CASE phase # "ended"
    BY <2>1, SealedLastStep
  <2>2. CASE phase = "ended"
    <3>1. UNCHANGED vars
      BY <2>2 DEF Next, Send, Close, ReadLine, StartTls, ReadSteps, FillPlain,
           FillTls, Take, ReadTls, Handshake, Eof, Cut, Ends
    <3> QED
      BY <3>1 DEF ConnectionInv, SealedLast, NoPlainTextInTls, vars
  <2> QED
    BY <2>1, <2>2
<1> QED
  BY <1>1, StreamsStep, NothingElsewhereStep, LineOpenStep, InOrderStep, LineLimitStep
     DEF ConnectionInv

LEMMA ConnectionInvInit ==
  ASSUME LimitIsNumber PROVE Init => ConnectionInv
<1> SUFFICES ASSUME Init PROVE ConnectionInv
  OBVIOUS
<1>1. <<>> \in Seq(AnyByte)
  BY EmptySeq
<1>2. Streams
  BY <1>1 DEF Init, Streams
<1>3. NothingElsewhere /\ LineOpen /\ SealedLast
  <2>1. NothingElsewhere
    BY DEF Init, NothingElsewhere, Handshaking
  <2>2. LineOpen
    BY DEF Init, LineOpen
  <2>3. DOMAIN sent = {}
    <3>1. sent \in Seq(AnyByte) /\ Len(sent) = 0
      BY <1>1 DEF Init
    <3>2. DOMAIN sent = 1 .. Len(sent)
      BY <3>1, LenProperties
    <3> QED
      BY <3>1, <3>2
  <2>4. layer # "tls"
    BY DEF Init
  <2>5. SealedLast
    BY <2>3, <2>4 DEF SealedLast
  <2> QED
    BY <2>1, <2>2, <2>5
<1>4. LineLimitExact
  BY DEF Init, LineLimitExact
<1>5. InOrderAndOnce
  <2>1. taken \o Pending = <<>>
    <3>1. Held = <<>> /\ Cat(<<>>, <<>>) = <<>>
      BY <1>1, CatFacts DEF Init, Held
    <3>2. taken \o Pending = Places(<<>>, <<>>, <<>>, <<>>, <<>>, <<>>)
      BY <1>2, <3>1, UsedInPlaces DEF Init
    <3> QED
      BY <3>1, <3>2 DEF Places
  <2> QED
    BY <2>1 DEF Init, InOrderAndOnce, Follows
<1> QED
  BY <1>2, <1>3, <1>4, <1>5 DEF ConnectionInv

\* Connection: what lines and the handshake use is what was sent, each byte once
\* and in order, however long the lines are and however TCP cuts the stream.
THEOREM BytesInOrder == ASSUME LimitIsNumber PROVE Spec => []InOrderAndOnce
<1>1. ConnectionInv /\ [Next]_vars => ConnectionInv'
  BY ConnectionInvStep
<1>2. ConnectionInv => InOrderAndOnce
  BY DEF ConnectionInv
<1> QED
  BY <1>1, <1>2, ConnectionInvInit, PTL DEF Spec

\* Connection: no line after STARTTLS has a byte that came in plain text.
THEOREM TlsKeepsPlainTextOut == ASSUME LimitIsNumber PROVE Spec => []NoPlainTextInTls
<1>1. ConnectionInv /\ [Next]_vars => ConnectionInv'
  BY ConnectionInvStep
<1>2. ConnectionInv => NoPlainTextInTls
  BY DEF ConnectionInv, SealedLast, NoPlainTextInTls
<1> QED
  BY <1>1, <1>2, ConnectionInvInit, PTL DEF Spec

\* Connection: lines end at their only newline and within the limit, and none is
\* refused that has its newline within it.
THEOREM LimitExact == ASSUME LimitIsNumber PROVE Spec => []LineLimitExact
<1>1. ConnectionInv /\ [Next]_vars => ConnectionInv'
  BY ConnectionInvStep
<1>2. ConnectionInv => LineLimitExact
  BY DEF ConnectionInv
<1> QED
  BY <1>1, <1>2, ConnectionInvInit, PTL DEF Spec
================================================================================
