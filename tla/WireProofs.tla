------------------------------- MODULE WireProofs ------------------------------
(***************************************************************************)
(* Proofs about Replies and CommandParser, for lines, replies and server   *)
(* names of any kind and for any number of commands on their way.          *)
(***************************************************************************)
EXTENDS CommandParser, Replies, FiniteSetTheorems, SequenceTheorems, WellFoundedInduction, TLAPS

--------------------------------------------------------------------------------
(* Sequences, as the provers need them *)

LEMMA SeqFacts ==
  ASSUME NEW T, NEW s \in Seq(T)
  PROVE  /\ Len(s) \in Nat /\ DOMAIN s = 1 .. Len(s)
         /\ \A i \in 1 .. Len(s) : s[i] \in T
         /\ s = <<>> <=> Len(s) = 0
BY LenProperties, ElementOfSeq, EmptySeq

LEMMA AppendFacts ==
  ASSUME NEW T, NEW s \in Seq(T), NEW e \in T
  PROVE  /\ Append(s, e) \in Seq(T) /\ Len(Append(s, e)) = Len(s) + 1
         /\ \A i \in 1 .. Len(s) : Append(s, e)[i] = s[i]
         /\ Append(s, e)[Len(s) + 1] = e
BY AppendProperties

LEMMA TailFacts ==
  ASSUME NEW T, NEW s \in Seq(T), s # <<>>
  PROVE  /\ Head(s) = s[1] /\ s[1] \in T
         /\ Tail(s) \in Seq(T) /\ Len(Tail(s)) = Len(s) - 1
         /\ \A i \in 1 .. Len(s) - 1 : Tail(s)[i] = s[i + 1]
BY HeadTailProperties

LEMMA EmptyLen == Len(<<>>) = 0
BY EmptySeq

LEMMA Single ==
  ASSUME NEW T, NEW e \in T
  PROVE  <<e>> \in Seq(T) /\ Len(<<e>>) = 1 /\ <<e>>[1] = e
OBVIOUS

--------------------------------------------------------------------------------
(* Replies: what the session answers *)

LEMMA TextsDiffer ==
  NoText \notin {"banner", "sequence", "supported", "commands", "unsupported", "ready", "OK",
                 "goodbye", "syntax", "8BITMIME", "STARTTLS", "AUTH PLAIN LOGIN", "SIZE"}
BY Zenon DEF NoText

LEMMA ListIsSeq ==
  ASSUME NEW T, NEW n \in Nat, NEW s \in [1 .. n -> T]
  PROVE  s \in Seq(T) /\ Len(s) = n
<1>1. [1 .. n -> T] \in {[1 .. m -> T] : m \in Nat}
  OBVIOUS
<1>2. s \in UNION {[1 .. m -> T] : m \in Nat}
  BY <1>1, Zenon
<1>3. s \in Seq(T)
  BY <1>2, SeqDef, Zenon
<1> QED
  BY <1>3, LenProperties

LEMMA ConcatFacts ==
  ASSUME NEW T, NEW s \in Seq(T), NEW t \in Seq(T)
  PROVE  /\ s \o t \in Seq(T) /\ Len(s \o t) = Len(s) + Len(t)
         /\ \A i \in 1 .. Len(s) : (s \o t)[i] = s[i]
         /\ \A i \in 1 .. Len(t) : (s \o t)[Len(s) + i] = t[i]
BY ConcatProperties, LenProperties

LEMMA PrependFacts ==
  ASSUME NEW T, NEW e \in T, NEW s \in Seq(T)
  PROVE  /\ <<e>> \o s \in Seq(T) /\ Len(<<e>> \o s) = Len(s) + 1
         /\ (<<e>> \o s)[1] = e
         /\ \A i \in 1 .. Len(s) : (<<e>> \o s)[i + 1] = s[i]
<1> DEFINE first == <<e>>
           whole == first \o s
<1>1. first \in Seq(T) /\ Len(first) = 1 /\ first[1] = e
  BY Single
<1> HIDE DEF first
<1>2. whole \in Seq(T) /\ Len(whole) = Len(first) + Len(s)
  BY <1>1, ConcatFacts
<1>3. \A i \in 1 .. Len(first) : whole[i] = first[i]
  BY <1>1, ConcatFacts
<1>4. ASSUME NEW i \in 1 .. Len(s)
      PROVE  whole[i + 1] = s[i]
  <2>1. /\ i + 1 \in 1 .. Len(first) + Len(s) /\ ~(i + 1 <= Len(first))
        /\ (i + 1) - Len(first) = i
    BY <1>1, LenProperties
  <2>2. whole[i + 1] = IF i + 1 <= Len(first) THEN first[i + 1] ELSE s[(i + 1) - Len(first)]
    BY <1>1, <2>1, ConcatProperties
  <2> QED
    BY <2>1, <2>2
<1> HIDE DEF whole
<1>5. Len(s) \in Nat
  BY LenProperties
<1>6. /\ whole \in Seq(T) /\ Len(whole) = Len(s) + 1 /\ whole[1] = e
      /\ \A i \in 1 .. Len(s) : whole[i + 1] = s[i]
  BY <1>1, <1>2, <1>3, <1>4, <1>5
<1> QED
  BY <1>6, Zenon DEF whole, first

LEMMA LeastNumber ==
  ASSUME NEW S, S \subseteq Nat, S # {}
  PROVE  \E n \in S : \A m \in S : n <= m
<1>1. PICK n \in S : \A m \in S : ~(<<m, n>> \in OpToRel(<, Nat))
  BY WFMin, NatLessThanWellFounded, Zenon
<1>2. \A m \in S : ~(m < n)
  BY <1>1, Zenon DEF OpToRel
<1> QED
  BY <1>2

LEMMA MinMaxFacts ==
  ASSUME NEW n \in Nat, NEW S, S \subseteq 1 .. n, S # {}
  PROVE  /\ Min(S) \in S /\ \A x \in S : Min(S) <= x
         /\ Max(S) \in S /\ \A x \in S : x <= Max(S)
<1>0. S \subseteq Nat
  OBVIOUS
<1>1. \E x \in S : \A y \in S : x <= y
  BY <1>0, LeastNumber
<1>2. \E x \in S : \A y \in S : x >= y
  <2> DEFINE below == {n - x : x \in S}
  <2>1. below \subseteq Nat /\ below # {}
    <3>1. \A x \in S : n - x \in Nat
      OBVIOUS
    <3> QED
      BY <3>1
  <2>2. PICK k \in below : \A m \in below : k <= m
    <3> HIDE DEF below
    <3> QED
      BY <2>1, LeastNumber
  <2>3. PICK x \in S : k = n - x
    OBVIOUS
  <2>4. ASSUME NEW y \in S PROVE x >= y
    <3>1. n - y \in below
      OBVIOUS
    <3>2. k <= n - y
      BY <2>2, <3>1
    <3>3. x \in Nat /\ y \in Nat
      OBVIOUS
    <3> QED
      BY <2>3, <3>2, <3>3
  <2> QED
    BY <2>4
<1>3. Min(S) \in S /\ \A x \in S : Min(S) <= x
  BY <1>1 DEF Min
<1>4. Max(S) \in S /\ \A x \in S : Max(S) >= x
  BY <1>2 DEF Max
<1> QED
  BY <1>3, <1>4

LEMMA SubSeqFacts ==
  ASSUME NEW T, NEW s \in Seq(T), NEW m \in 1 .. Len(s) + 1, NEW n \in m - 1 .. Len(s)
  PROVE  /\ SubSeq(s, m, n) \in Seq(T) /\ Len(SubSeq(s, m, n)) = (n - m) + 1
         /\ \A i \in 1 .. (n - m) + 1 : SubSeq(s, m, n)[i] = s[m + i - 1]
<1>1. Len(s) \in Nat /\ m \in Int /\ n \in Int /\ \A i \in m .. n : s[i] \in T
  BY SeqFacts
<1>2. /\ SubSeq(s, m, n) \in Seq(T)
      /\ Len(SubSeq(s, m, n)) = IF m <= n THEN n - m + 1 ELSE 0
      /\ \A i \in 1 .. n - m + 1 : SubSeq(s, m, n)[i] = s[m + i - 1]
  BY <1>1, SubSeqProperties
<1> QED
  BY <1>1, <1>2

Elements(s) == {s[i] : i \in 1 .. Len(s)}

LEMMA ElementsOfConcat ==
  ASSUME NEW T, NEW s \in Seq(T), NEW t \in Seq(T)
  PROVE  Elements(s \o t) = Elements(s) \cup Elements(t)
<1>1. Len(s) \in Nat /\ Len(t) \in Nat
  BY LenProperties
<1>2. ASSUME NEW i \in 1 .. Len(s \o t)
      PROVE  (s \o t)[i] \in Elements(s) \cup Elements(t)
  <2>1. CASE i <= Len(s)
    BY <1>1, <2>1, ConcatFacts DEF Elements
  <2>2. CASE i > Len(s)
    <3>1. i - Len(s) \in 1 .. Len(t) /\ i = Len(s) + (i - Len(s))
      BY <1>1, <2>2, ConcatFacts
    <3> QED
      BY <3>1, ConcatFacts DEF Elements
  <2> QED
    BY <1>1, <2>1, <2>2, ConcatFacts
<1>3. \A i \in 1 .. Len(s) : i \in 1 .. Len(s \o t)
  BY <1>1, ConcatFacts
<1>4. \A i \in 1 .. Len(t) : Len(s) + i \in 1 .. Len(s \o t)
  BY <1>1, ConcatFacts
<1>5. \A i \in 1 .. Len(s) : s[i] \in Elements(s \o t)
  BY <1>3, ConcatFacts DEF Elements
<1>6. \A i \in 1 .. Len(t) : t[i] \in Elements(s \o t)
  BY <1>4, ConcatFacts DEF Elements
<1>7. Elements(s \o t) \subseteq Elements(s) \cup Elements(t)
  BY <1>2 DEF Elements
<1>8. Elements(s) \subseteq Elements(s \o t) /\ Elements(t) \subseteq Elements(s \o t)
  BY <1>5, <1>6 DEF Elements
<1> QED
  BY <1>7, <1>8

\* A sequence of one element if a condition holds, or else of none.
If(condition, e) == IF condition THEN <<e>> ELSE <<>>
IfSet(condition, e) == IF condition THEN {e} ELSE {}

LEMMA IfFacts ==
  ASSUME NEW T, NEW e \in T, NEW condition
  PROVE  /\ If(condition, e) \in Seq(T) /\ Len(If(condition, e)) \in Nat
         /\ Elements(If(condition, e)) = IfSet(condition, e)
<1>1. CASE condition
  <2>1. If(condition, e) = <<e>> /\ IfSet(condition, e) = {e}
    BY <1>1, Zenon DEF If, IfSet
  <2>2. <<e>> \in Seq(T) /\ Len(<<e>>) = 1 /\ <<e>>[1] = e
    BY Single
  <2>3. Elements(<<e>>) = {e}
    BY DEF Elements
  <2> QED
    BY <2>1, <2>2, <2>3
<1>2. CASE ~condition
  <2>1. If(condition, e) = <<>> /\ IfSet(condition, e) = {}
    BY <1>2, Zenon DEF If, IfSet
  <2>2. <<>> \in Seq(T) /\ Len(<<>>) = 0
    BY EmptySeq
  <2>3. Elements(<<>>) = {}
    BY <2>2 DEF Elements
  <2> QED
    BY <2>1, <2>2, <2>3
<1> QED
  BY <1>1, <1>2

\* The features, whatever the configuration.
LEMMA FeaturesAre ==
  /\ Features \in Seq(Texts) /\ Len(Features) \in Nat /\ Len(Features) >= 2
  /\ NoText \notin Elements(Features)
  /\ {"8BITMIME", "SIZE"} \subseteq Elements(Features)
  /\ "STARTTLS" \in Elements(Features) <=> SupportsTls
  /\ "AUTH PLAIN LOGIN" \in Elements(Features) <=> config.auth
<1> DEFINE first == <<"8BITMIME">>
           tls == If(SupportsTls, "STARTTLS")
           auth == If(config.auth, "AUTH PLAIN LOGIN")
           last == <<"SIZE">>
           two == first \o tls
           three == two \o auth
           tlsSet == IfSet(SupportsTls, "STARTTLS")
           authSet == IfSet(config.auth, "AUTH PLAIN LOGIN")
<1>1. {"8BITMIME", "STARTTLS", "AUTH PLAIN LOGIN", "SIZE"} \subseteq Texts
  BY DEF Texts
<1>2. first \in Seq(Texts) /\ Len(first) = 1 /\ last \in Seq(Texts) /\ Len(last) = 1
  BY <1>1, Single
<1>3. Elements(first) = {"8BITMIME"} /\ Elements(last) = {"SIZE"}
  BY DEF Elements
<1>4. tls \in Seq(Texts) /\ Len(tls) \in Nat /\ Elements(tls) = tlsSet
  BY <1>1, IfFacts, Zenon
<1>5. auth \in Seq(Texts) /\ Len(auth) \in Nat /\ Elements(auth) = authSet
  BY <1>1, IfFacts, Zenon
<1>6. /\ tlsSet \subseteq {"STARTTLS"} /\ ("STARTTLS" \in tlsSet <=> SupportsTls)
      /\ authSet \subseteq {"AUTH PLAIN LOGIN"} /\ ("AUTH PLAIN LOGIN" \in authSet <=> config.auth)
  BY Zenon DEF IfSet
<1>7. Features = three \o last
  BY Zenon DEF Features, If
<1> HIDE DEF first, tls, auth, last, tlsSet, authSet
<1>8. two \in Seq(Texts) /\ Len(two) = Len(first) + Len(tls)
  BY <1>2, <1>4, ConcatFacts
<1>9. Elements(two) = Elements(first) \cup Elements(tls)
  BY <1>2, <1>4, ElementsOfConcat
<1> HIDE DEF two
<1>10. three \in Seq(Texts) /\ Len(three) = Len(two) + Len(auth)
  BY <1>5, <1>8, ConcatFacts
<1>11. Elements(three) = Elements(two) \cup Elements(auth)
  BY <1>5, <1>8, ElementsOfConcat
<1> HIDE DEF three
<1>12. Features \in Seq(Texts) /\ Len(Features) = Len(three) + Len(last)
  BY <1>2, <1>7, <1>10, ConcatFacts
<1>13. Elements(Features) = Elements(three) \cup Elements(last)
  BY <1>2, <1>7, <1>10, ElementsOfConcat
<1>14. Len(Features) \in Nat /\ Len(Features) >= 2
  BY <1>2, <1>4, <1>5, <1>8, <1>10, <1>12
<1>15. Elements(Features) = {"8BITMIME"} \cup tlsSet \cup authSet \cup {"SIZE"}
  BY <1>3, <1>4, <1>5, <1>9, <1>11, <1>13, Zenon
<1>16. /\ NoText \notin Elements(Features)
       /\ {"8BITMIME", "SIZE"} \subseteq Elements(Features)
       /\ "STARTTLS" \in Elements(Features) <=> "STARTTLS" \in tlsSet
       /\ "AUTH PLAIN LOGIN" \in Elements(Features) <=> "AUTH PLAIN LOGIN" \in authSet
  BY <1>15, <1>6, TextsDiffer
<1> QED
  BY <1>6, <1>12, <1>14, <1>16, Zenon

LEMMA ResponseFacts ==
  ASSUME NEW c \in Nat, NEW t \in Texts
  PROVE  /\ Response(c, t) \in Responses /\ Continued(c, t) \in Responses
         /\ Response(c, t).code = c /\ Continued(c, t).code = c
         /\ Response(c, t).text = t /\ Continued(c, t).text = t
         /\ ~Response(c, t).hasNext /\ Continued(c, t).hasNext
BY DEF Response, Continued, Responses

LEMMA EhloFacts ==
  ASSUME RepliesTypeOK
  PROVE  /\ EhloReplies \in Seq(Responses) /\ Len(EhloReplies) = Len(Features) + 1
         /\ EhloReplies[1] = Continued(250, config.name)
         /\ \A i \in 1 .. Len(Features) :
              /\ EhloReplies[i + 1].code = 250 /\ EhloReplies[i + 1].text = Features[i]
              /\ EhloReplies[i + 1].hasNext <=> i < Len(Features)
<1> DEFINE n == Len(Features)
           f == Features
           Item(i) == IF i = n THEN Response(250, f[i]) ELSE Continued(250, f[i])
           first == Continued(250, config.name)
           others == [i \in 1 .. n |-> Item(i)]
<1>1. n \in Nat /\ \A i \in 1 .. n : f[i] \in Texts
  BY FeaturesAre, SeqFacts
<1>2. EhloReplies = <<first>> \o others
  BY DEF EhloReplies
<1> HIDE DEF n, f
<1>3. Continued(250, config.name) \in Responses
  BY DEF Continued, Responses, RepliesTypeOK, Texts
<1>4. ASSUME NEW i \in 1 .. n
      PROVE  /\ Item(i) \in Responses /\ Item(i).code = 250 /\ Item(i).text = f[i]
             /\ Item(i).hasNext <=> i < n
  <2>1. CASE i = n
    <3>1. Item(i) = Response(250, f[i]) /\ ~(i < n)
      BY <1>1, <2>1
    <3> HIDE DEF Item
    <3> QED
      BY <1>1, <3>1, ResponseFacts
  <2>2. CASE i # n
    <3>1. Item(i) = Continued(250, f[i]) /\ i < n
      BY <1>1, <2>2
    <3> HIDE DEF Item
    <3> QED
      BY <1>1, <3>1, ResponseFacts
  <2> QED
    BY <2>1, <2>2
<1> HIDE DEF Item
<1>5. others \in [1 .. n -> Responses] /\ \A i \in 1 .. n : others[i] = Item(i)
  BY <1>4
<1>6. others \in Seq(Responses) /\ Len(others) = n
  BY <1>1, <1>5, ListIsSeq
<1> HIDE DEF first, others
<1>7. /\ EhloReplies \in Seq(Responses) /\ Len(EhloReplies) = n + 1
      /\ EhloReplies[1] = first
      /\ \A i \in 1 .. n : EhloReplies[i + 1] = others[i]
  <2>1. first \in Responses
    BY <1>3 DEF first
  <2> QED
    BY <1>2, <1>6, <2>1, PrependFacts
<1>8. \A i \in 1 .. n : /\ EhloReplies[i + 1].code = 250 /\ EhloReplies[i + 1].text = f[i]
                        /\ EhloReplies[i + 1].hasNext <=> i < n
  <2> TAKE i \in 1 .. n
  <2>1. EhloReplies[i + 1] = Item(i)
    BY <1>1, <1>5, <1>7
  <2> QED
    BY <1>4, <2>1
<1> QED
  BY <1>7, <1>8, Zenon DEF n, f, first

\* A text that is empty only if the server's name is.
Named(t) == config.name # NoText => t # NoText

\* Whatever the command, the reply has a last line, which is the only one that
\* does not promise another, and no line is empty.
LEMMA WholeReply ==
  ASSUME RepliesTypeOK, NEW verb \in Verbs
  PROVE  /\ Replies(verb) \in Seq(Responses) /\ Replies(verb) # <<>>
         /\ \A i \in 1 .. Len(Replies(verb)) :
              /\ Replies(verb)[i].hasNext <=> i < Len(Replies(verb))
              /\ Named(Replies(verb)[i].text)
         /\ verb = "EHLO" =>
              \/ Replies(verb) = EhloReplies
              \/ Len(Replies(verb)) = 1 /\ Replies(verb)[1].code # 250
<1> DEFINE OneLine ==
             /\ Replies(verb) \in Seq(Responses) /\ Len(Replies(verb)) = 1
             /\ ~Replies(verb)[1].hasNext /\ Named(Replies(verb)[1].text)
             /\ verb = "EHLO" => Replies(verb)[1].code # 250
<1>0. /\ {"sequence", "supported", "commands", "unsupported", "ready", "OK", "goodbye",
          "syntax"} \subseteq Texts
      /\ Named("supported") /\ Named("commands")
  BY TextsDiffer DEF Texts, Named
<1>9. config.name \in Texts /\ Named(config.name)
  BY DEF Texts, RepliesTypeOK, Named
<1>1. CASE Replies(verb) = EhloReplies
  <2> DEFINE e == EhloReplies
             n == Len(Features)
             f == Features
  <2>1. n \in Nat /\ n >= 2 /\ \A i \in 1 .. n : Named(f[i])
    BY FeaturesAre DEF Elements, Named
  <2>2. /\ e \in Seq(Responses) /\ Len(e) = n + 1 /\ e[1] = Continued(250, config.name)
        /\ \A i \in 1 .. n : e[i + 1].code = 250 /\ e[i + 1].text = f[i]
                             /\ (e[i + 1].hasNext <=> i < n)
    BY EhloFacts
  <2>3. e[1].hasNext /\ e[1].text = config.name
    BY <1>9, <2>2, ResponseFacts
  <2>7. Named(config.name)
    BY DEF Named
  <2>4. Replies(verb) = e
    BY <1>1
  <2> HIDE DEF e, n, f
  <2>5. \A i \in 1 .. Len(e) : Named(e[i].text) /\ (e[i].hasNext <=> i < Len(e))
    <3> TAKE i \in 1 .. Len(e)
    <3>1. CASE i = 1
      BY <2>1, <2>2, <2>3, <2>7, <3>1
    <3>2. CASE i # 1
      <4>1. PICK j \in 1 .. n : i = j + 1
        <5>1. i - 1 \in 1 .. n /\ i = (i - 1) + 1
          BY <2>1, <2>2, <3>2
        <5> QED
          BY <5>1
      <4>2. (j < n) <=> (i < Len(e))
        BY <2>1, <2>2, <4>1
      <4>3. e[i].text = f[j] /\ (e[i].hasNext <=> j < n)
        BY <2>2, <4>1
      <4>4. Named(f[j])
        BY <2>1
      <4> QED
        BY <4>2, <4>3, <4>4
    <3> QED
      BY <3>1, <3>2
  <2>6. e # <<>>
    BY <2>1, <2>2, SeqFacts
  <2> QED
    BY <2>2, <2>4, <2>5, <2>6, <1>1
<1>2. CASE verb = "HELP"
  <2> DEFINE a == Continued(250, "supported")
             b == Response(214, "commands")
  <2>1. Replies(verb) = <<a, b>>
    BY <1>2 DEF Replies
  <2>2. /\ a \in Responses /\ a.hasNext /\ a.text = "supported"
        /\ b \in Responses /\ ~b.hasNext /\ b.text = "commands"
    <3>1. "supported" \in Texts /\ "commands" \in Texts /\ 250 \in Nat /\ 214 \in Nat
      BY <1>0
    <3>2. a \in Responses /\ a.hasNext /\ a.text = "supported"
      BY <3>1, ResponseFacts
    <3>3. b \in Responses /\ ~b.hasNext /\ b.text = "commands"
      BY <3>1, ResponseFacts
    <3> QED
      BY <3>2, <3>3
  <2> HIDE DEF a, b
  <2> DEFINE l == <<a, b>>
  <2>3. l \in Seq(Responses) /\ Len(l) = 2 /\ l[1] = a /\ l[2] = b
    BY <2>2
  <2>4. Replies(verb) = l
    BY <2>1
  <2> HIDE DEF l
  <2>5. \A i \in 1 .. Len(l) : (l[i].hasNext <=> i < Len(l)) /\ Named(l[i].text)
    <3> TAKE i \in 1 .. Len(l)
    <3>1. l[1].hasNext /\ l[1].text = "supported" /\ ~l[2].hasNext /\ l[2].text = "commands"
      BY <2>2, <2>3, Zenon
    <3>2. 1 < Len(l) /\ ~(2 < Len(l)) /\ (i = 1 \/ i = 2)
      BY <2>3
    <3>3. CASE i = 1
      BY <1>0, <3>1, <3>2, <3>3, Zenon
    <3>4. CASE i = 2
      BY <1>0, <3>1, <3>2, <3>4, Zenon
    <3> QED
      BY <3>2, <3>3, <3>4
  <2>6. l # <<>>
    BY <2>3, EmptyLen
  <2>7. verb # "EHLO"
    BY <1>2
  <2> QED
    BY <2>3, <2>4, <2>5, <2>6, <2>7, Zenon
<1>3. ASSUME NEW r \in Responses, ~r.hasNext, Named(r.text), verb = "EHLO" => r.code # 250,
             Replies(verb) = <<r>>
      PROVE  OneLine
  <2> DEFINE l == <<r>>
  <2>1. l \in Seq(Responses) /\ Len(l) = 1 /\ l[1] = r
    BY Single
  <2> HIDE DEF l
  <2>2. Replies(verb) = l
    BY <1>3 DEF l
  <2> QED
    BY <1>3, <2>1, <2>2, Zenon
<1>4. ASSUME NEW c \in Nat, NEW t \in Texts, Named(t), verb = "EHLO" => c # 250,
             Replies(verb) = <<Response(c, t)>>
      PROVE  OneLine
  <2>1. /\ Response(c, t) \in Responses /\ ~Response(c, t).hasNext
        /\ Response(c, t).code = c /\ Response(c, t).text = t
    BY ResponseFacts
  <2> DEFINE r == Response(c, t)
  <2>2. r \in Responses /\ ~r.hasNext /\ Named(r.text) /\ Replies(verb) = <<r>>
    BY <1>4, <2>1
  <2>3. verb = "EHLO" => r.code # 250
    BY <1>4, <2>1
  <2> HIDE DEF OneLine, r
  <2> QED
    BY <1>3, <2>2, <2>3
<1> HIDE DEF OneLine
<1>5a. "sequence" \in Texts /\ Named("sequence")
  BY TextsDiffer, Zenon DEF Texts, Named
<1>5b. "unsupported" \in Texts /\ Named("unsupported")
  BY TextsDiffer, Zenon DEF Texts, Named
<1>5c. "ready" \in Texts /\ Named("ready")
  BY TextsDiffer, Zenon DEF Texts, Named
<1>5d. "OK" \in Texts /\ Named("OK")
  BY TextsDiffer, Zenon DEF Texts, Named
<1>5e. "goodbye" \in Texts /\ Named("goodbye")
  BY TextsDiffer, Zenon DEF Texts, Named
<1>5f. "syntax" \in Texts /\ Named("syntax")
  BY TextsDiffer, Zenon DEF Texts, Named
<1> DEFINE Answers(c, t) == Replies(verb) = <<Response(c, t)>>
<1>10. /\ Answers(503, "sequence") => OneLine
       /\ verb # "EHLO" =>
            /\ Answers(250, config.name) => OneLine
            /\ Answers(500, "unsupported") => OneLine
            /\ Answers(220, "ready") => OneLine
            /\ Answers(250, "OK") => OneLine
            /\ Answers(221, "goodbye") => OneLine
            /\ Answers(500, "syntax") => OneLine
  <2>1. Answers(503, "sequence") => OneLine
    BY <1>4, <1>5a
  <2>2. ASSUME verb # "EHLO" PROVE Answers(250, config.name) => OneLine
    BY <1>9, <1>4, <2>2
  <2>3. ASSUME verb # "EHLO" PROVE Answers(500, "unsupported") => OneLine
    BY <1>5b, <1>4, <2>3
  <2>4. ASSUME verb # "EHLO" PROVE Answers(220, "ready") => OneLine
    BY <1>5c, <1>4, <2>4
  <2>5. ASSUME verb # "EHLO" PROVE Answers(250, "OK") => OneLine
    BY <1>5d, <1>4, <2>5
  <2>6. ASSUME verb # "EHLO" PROVE Answers(221, "goodbye") => OneLine
    BY <1>5e, <1>4, <2>6
  <2>7. ASSUME verb # "EHLO" PROVE Answers(500, "syntax") => OneLine
    BY <1>5f, <1>4, <2>7
  <2> HIDE DEF Answers
  <2> QED
    BY <2>1, <2>2, <2>3, <2>4, <2>5, <2>6, <2>7
<1>6. ASSUME verb # "HELP", Replies(verb) # EhloReplies
      PROVE  OneLine
  <2>1. CASE verb = "EHLO"
    <3>1. Answers(503, "sequence")
      BY <1>6, <2>1 DEF Replies, RepliesTypeOK
    <3> QED
      BY <1>10, <3>1
  <2>2. CASE verb = "HELO"
    <3>1. verb # "EHLO" /\ (Answers(503, "sequence") \/ Answers(250, config.name))
      BY <1>6, <2>2 DEF Replies, RepliesTypeOK
    <3> QED
      BY <1>10, <3>1
  <2>3. CASE verb = "STARTTLS"
    <3>1. \/ Answers(500, "unsupported") \/ Answers(220, "ready")
          \/ Answers(503, "sequence")
      BY <2>3, ZenonT(60) DEF Replies
    <3> QED
      BY <1>10, <2>3, <3>1
  <2>4. CASE verb = "NOOP"
    <3>1. Answers(250, "OK")
      BY <2>4, Zenon DEF Replies
    <3> QED
      BY <1>10, <2>4, <3>1
  <2>5. CASE verb = "QUIT"
    <3>1. Answers(221, "goodbye")
      BY <2>5, Zenon DEF Replies
    <3> QED
      BY <1>10, <2>5, <3>1
  <2>6. CASE verb = "?"
    <3>1. Answers(500, "syntax")
      BY <2>6, Zenon DEF Replies
    <3> QED
      BY <1>10, <2>6, <3>1
  <2> QED
    BY <1>6, <2>1, <2>2, <2>3, <2>4, <2>5, <2>6 DEF Verbs
<1>7. verb = "EHLO" /\ greeting = "Connected" => Replies(verb) = EhloReplies
  BY DEF Replies
<1>8. ASSUME OneLine
      PROVE  /\ Replies(verb) # <<>>
             /\ \A i \in 1 .. Len(Replies(verb)) :
                  /\ Replies(verb)[i].hasNext <=> i < Len(Replies(verb))
                  /\ Named(Replies(verb)[i].text)
  <2> DEFINE l == Replies(verb)
  <2>1. l \in Seq(Responses) /\ Len(l) = 1 /\ ~l[1].hasNext /\ Named(l[1].text)
    BY <1>8 DEF OneLine
  <2> HIDE DEF l
  <2>2. l # <<>>
    BY <2>1, SeqFacts
  <2>3. \A i \in 1 .. Len(l) : i = 1 /\ ~(i < Len(l))
    BY <2>1
  <2> QED
    BY <2>1, <2>2, <2>3 DEF l
<1> QED
  BY <1>1, <1>2, <1>6, <1>7, <1>8 DEF OneLine

LEMMA LineFacts ==
  ASSUME NEW r \in Responses, read \in Nat
  PROVE  /\ Line(r) \in ReplyLines /\ Line(r).code = r.code /\ Line(r).text = r.text
         /\ Line(r).to = read
         /\ Line(r).dash <=> r.hasNext /\ r.text # NoText
<1> DEFINE d == r.hasNext /\ r.text # NoText
<1>1. d \in BOOLEAN
  OBVIOUS
<1>2. Line(r) = [code |-> r.code, text |-> r.text, dash |-> d, to |-> read]
  BY Zenon DEF Line
<1>3. r.code \in Nat /\ r.text \in Texts
  BY DEF Responses
<1> HIDE DEF d
<1>4. /\ Line(r) \in ReplyLines /\ Line(r).code = r.code /\ Line(r).text = r.text
      /\ Line(r).to = read /\ (Line(r).dash <=> d)
  BY <1>1, <1>2, <1>3 DEF ReplyLines
<1> QED
  BY <1>4, Zenon DEF d

--------------------------------------------------------------------------------
(* Replies: a client stays in step *)

LEMMA StepStarts ==
  ASSUME RepliesInit
  PROVE  StepInv
<1> DEFINE r == Response(220, "banner")
<1>1. r \in Responses /\ r.text = "banner" /\ ~r.hasNext
  <2>1. "banner" \in Texts
    BY DEF Texts
  <2> QED
    BY <2>1, ResponseFacts
<1> HIDE DEF r
<1>2. rest \in Seq(Responses) /\ Len(rest) = 1 /\ rest[1] = r
  <2>1. rest = <<r>>
    BY DEF RepliesInit, r
  <2> QED
    BY <1>1, <2>1, Single
<1>3. asked \in Seq(Verbs \cup {"banner"}) /\ Len(asked) = 1 /\ asked[1] = "banner"
  <2>1. asked = <<"banner">>
    BY DEF RepliesInit
  <2> QED
    BY <2>1, Single
<1>4. outgoing = <<>> /\ partial = <<>> /\ Len(outgoing) = 0 /\ Len(partial) = 0 /\ rest # <<>>
  BY <1>2, EmptyLen DEF RepliesInit
<1>5. outgoing \in Seq(ReplyLines) /\ partial \in Seq(ReplyLines)
  BY <1>4, EmptySeq
<1>6. RepliesTypeOK
  BY <1>2, <1>3, <1>5 DEF RepliesTypeOK, RepliesInit
<1>7. ServingFits
  <2>1. DOMAIN rest = {1}
    BY <1>2, SeqFacts
  <2>2. "banner" # NoText
    BY TextsDiffer
  <2> QED
    BY <1>1, <1>2, <1>3, <1>4, <2>1, <2>2 DEF ServingFits, RepliesInit
<1>8. Chained
  <2>1. DOMAIN partial = {}
    BY <1>4, <1>5, SeqFacts
  <2> QED
    BY <1>4, <2>1 DEF Chained
<1>9. EndsAtSession
  <2>1. DOMAIN outgoing = {}
    BY <1>4, <1>5, SeqFacts
  <2> QED
    BY <1>4, <2>1 DEF EndsAtSession, RepliesInit
<1> QED
  BY <1>6, <1>7, <1>8, <1>9 DEF StepInv

LEMMA StepReadCommand ==
  ASSUME StepInv, ReadCommand
  PROVE  StepInv'
<1> DEFINE verb == asked[read + 1]
           l == Replies(verb)
<1>1. RepliesTypeOK
  BY DEF StepInv
<1>2. verb \in Verbs /\ read + 1 \in 1 .. Len(asked)
  BY <1>1, SeqFacts DEF RepliesTypeOK, ReadCommand
<1>3. /\ l \in Seq(Responses) /\ l # <<>>
      /\ \A i \in 1 .. Len(l) : (l[i].hasNext <=> i < Len(l)) /\ Named(l[i].text)
  BY <1>1, <1>2, WholeReply
<1>4. /\ serving = "nothing" /\ serving' = verb /\ rest' = l /\ read' = read + 1
      /\ asked' = asked /\ outgoing' = outgoing /\ partial' = partial /\ got' = got
      /\ config' = config
  BY DEF ReadCommand, readerVars
<1> HIDE DEF verb, l
<1>5. RepliesTypeOK'
  BY <1>1, <1>2, <1>3, <1>4 DEF RepliesTypeOK, ReadCommand
<1>6. ASSUME config.name # NoText
      PROVE  ServingFits' /\ Chained' /\ EndsAtSession'
  <2>1. ServingFits /\ Chained /\ EndsAtSession
    BY <1>6 DEF StepInv
  <2>2. rest = <<>>
    BY <1>4, <2>1 DEF ServingFits, Verbs
  <2>3. ServingFits'
    <3>1. DOMAIN l = 1 .. Len(l)
      BY <1>3, SeqFacts
    <3>2. verb = asked[read + 1]
      BY DEF verb
    <3> QED
      BY <1>2, <1>3, <1>4, <1>6, <3>1, <3>2 DEF ServingFits, Named
  <2>4. Chained'
    BY <1>4, <2>1 DEF Chained
  <2>5. EndsAtSession'
    <3>1. got \in Nat /\ read \in Nat
      BY <1>1 DEF RepliesTypeOK
    <3>2. \A i \in DOMAIN outgoing' : outgoing'[i].to \in 1 .. read'
      BY <1>4, <2>1, <3>1 DEF EndsAtSession
    <3>3. CASE outgoing = <<>>
      BY <1>3, <1>4, <2>1, <2>2, <3>1, <3>2, <3>3 DEF EndsAtSession
    <3>4. CASE outgoing # <<>>
      BY <1>3, <1>4, <2>1, <2>2, <3>1, <3>2, <3>4 DEF EndsAtSession
    <3> QED
      BY <3>3, <3>4
  <2> QED
    BY <2>3, <2>4, <2>5
<1> QED
  BY <1>4, <1>5, <1>6 DEF StepInv

LEMMA StepReply ==
  ASSUME StepInv, Reply
  PROVE  StepInv'
<1> DEFINE r == Head(rest)
           l == Line(r)
           n == Len(outgoing)
<1>1. RepliesTypeOK
  BY DEF StepInv
<1>2. rest # <<>> /\ rest \in Seq(Responses) /\ read \in Nat /\ got \in Nat
  BY <1>1 DEF Reply, RepliesTypeOK
<1>3. /\ r = rest[1] /\ r \in Responses /\ rest' \in Seq(Responses)
      /\ Len(rest) \in Nat /\ Len(rest') = Len(rest) - 1
      /\ \A i \in 1 .. Len(rest) - 1 : rest'[i] = rest[i + 1]
      /\ DOMAIN rest = 1 .. Len(rest) /\ DOMAIN rest' = 1 .. Len(rest')
      /\ Len(rest) >= 1 /\ (rest' = <<>> <=> Len(rest) = 1)
  <2>1. rest' = Tail(rest)
    BY DEF Reply
  <2>2. /\ Head(rest) = rest[1] /\ rest[1] \in Responses
        /\ Tail(rest) \in Seq(Responses) /\ Len(Tail(rest)) = Len(rest) - 1
        /\ \A i \in 1 .. Len(rest) - 1 : Tail(rest)[i] = rest[i + 1]
    BY <1>2, TailFacts
  <2>3. Len(rest) \in Nat /\ DOMAIN rest = 1 .. Len(rest) /\ Len(rest) # 0
    BY <1>2, SeqFacts
  <2>4. DOMAIN Tail(rest) = 1 .. Len(Tail(rest)) /\ (Tail(rest) = <<>> <=> Len(Tail(rest)) = 0)
    BY <2>2, SeqFacts
  <2> HIDE DEF r
  <2> QED
    BY <2>1, <2>2, <2>3, <2>4 DEF r
<1>4. /\ l \in ReplyLines /\ l.code = r.code /\ l.text = r.text /\ l.to = read
      /\ l.dash <=> r.hasNext /\ r.text # NoText
  BY <1>2, <1>3, LineFacts
<1>5. /\ outgoing' = Append(outgoing, l)
      /\ read' = read /\ asked' = asked /\ partial' = partial /\ got' = got /\ config' = config
      /\ rest' # <<>> => serving' = serving
      /\ rest' = <<>> => serving' \in {"nothing", "handshake", "ended"}
  BY DEF Reply, readerVars
<1> HIDE DEF l, r
<1>6. /\ outgoing \in Seq(ReplyLines) /\ n \in Nat
      /\ outgoing' \in Seq(ReplyLines) /\ Len(outgoing') = n + 1 /\ outgoing' # <<>>
      /\ \A i \in 1 .. n : outgoing'[i] = outgoing[i]
      /\ outgoing'[n + 1] = l
      /\ outgoing = <<>> <=> n = 0
  <2>1. outgoing \in Seq(ReplyLines)
    BY <1>1 DEF RepliesTypeOK
  <2>2. n \in Nat /\ (outgoing = <<>> <=> n = 0)
    BY <2>1, SeqFacts
  <2>3. /\ Append(outgoing, l) \in Seq(ReplyLines) /\ Len(Append(outgoing, l)) = n + 1
        /\ \A i \in 1 .. n : Append(outgoing, l)[i] = outgoing[i]
        /\ Append(outgoing, l)[n + 1] = l
    BY <1>4, <2>1, AppendFacts
  <2>4. Append(outgoing, l) # <<>>
    BY <2>2, <2>3, EmptyLen
  <2> QED
    BY <1>5, <2>1, <2>2, <2>3, <2>4
<1> HIDE DEF n
<1>7. RepliesTypeOK'
  BY <1>1, <1>3, <1>5, <1>6 DEF RepliesTypeOK, Reply
<1>8. ASSUME config.name # NoText
      PROVE  ServingFits' /\ Chained' /\ EndsAtSession'
  <2>1. ServingFits /\ Chained /\ EndsAtSession
    BY <1>8 DEF StepInv
  <2>2. serving = asked[read]
    BY <1>2, <2>1 DEF ServingFits
  <2>3. l.dash <=> rest' # <<>>
    <3>1. (r.hasNext <=> 1 < Len(rest)) /\ r.text # NoText
      BY <1>3, <2>1 DEF ServingFits
    <3> QED
      BY <1>3, <1>4, <3>1
  <2>4. ServingFits'
    <3>1. rest' # <<>> <=> serving' \in Verbs \cup {"banner"}
      BY <1>2, <1>5, <2>1 DEF ServingFits, Verbs
    <3>2. ASSUME NEW i \in DOMAIN rest'
          PROVE  (rest'[i].hasNext <=> i < Len(rest')) /\ rest'[i].text # NoText
      <4>1. i \in 1 .. Len(rest) - 1 /\ i + 1 \in DOMAIN rest
        BY <1>3
      <4>2. rest'[i] = rest[i + 1] /\ (i < Len(rest') <=> i + 1 < Len(rest))
        BY <1>3, <4>1
      <4> QED
        BY <2>1, <4>1, <4>2 DEF ServingFits
    <3> QED
      BY <1>5, <2>2, <3>1, <3>2 DEF ServingFits
  <2>5. Chained'
    <3>1. outgoing'[1].to = got + 1
      <4>1. CASE n = 0
        BY <1>2, <1>4, <1>6, <2>1, <4>1 DEF EndsAtSession
      <4>2. CASE n # 0
        <5>1. 1 \in 1 .. n
          BY <1>6, <4>2
        <5>2. outgoing'[1] = outgoing[1]
          BY <1>6, <5>1
        <5> QED
          BY <1>6, <2>1, <4>2, <5>2 DEF Chained
      <4> QED
        BY <4>1, <4>2
    <3>2. ASSUME NEW i \in 1 .. Len(outgoing') - 1
          PROVE  outgoing'[i + 1].to = outgoing'[i].to + (IF outgoing'[i].dash THEN 0 ELSE 1)
      <4>1. CASE i = n
        <5>1. n \in 1 .. n /\ outgoing # <<>>
          BY <1>6, <4>1
        <5>2. read = outgoing[n].to + (IF outgoing[n].dash THEN 0 ELSE 1)
          BY <1>2, <2>1, <5>1 DEF EndsAtSession, n
        <5>3. outgoing'[n] = outgoing[n] /\ outgoing'[n + 1].to = read
          BY <1>4, <1>6, <5>1
        <5> QED
          BY <4>1, <5>2, <5>3
      <4>2. CASE i # n
        <5>1. i \in 1 .. n - 1 /\ i \in 1 .. n /\ i + 1 \in 1 .. n
          BY <1>6, <4>2
        <5>2. outgoing'[i] = outgoing[i] /\ outgoing'[i + 1] = outgoing[i + 1]
          BY <1>6, <5>1
        <5>3. i \in 1 .. Len(outgoing) - 1
          BY <5>1 DEF n
        <5> QED
          BY <2>1, <5>2, <5>3 DEF Chained
      <4> QED
        BY <4>1, <4>2
    <3> QED
      BY <1>5, <2>1, <3>1, <3>2 DEF Chained
  <2>6. EndsAtSession'
    <3>1. ASSUME NEW i \in DOMAIN outgoing'
          PROVE  outgoing'[i].to \in 1 .. read'
      <4>1. i \in 1 .. n + 1
        BY <1>6, <3>1, SeqFacts
      <4>2. CASE i = n + 1
        <5>1. read \in 1 .. read
          BY <1>1 DEF RepliesTypeOK
        <5> QED
          BY <1>4, <1>5, <1>6, <4>2, <5>1
      <4>3. CASE i # n + 1
        <5>1. i \in 1 .. n /\ i \in DOMAIN outgoing
          BY <1>6, <4>1, <4>3, SeqFacts DEF n
        <5> QED
          BY <1>5, <1>6, <2>1, <5>1 DEF EndsAtSession
      <4> QED
        BY <4>2, <4>3
    <3> QED
      BY <1>2, <1>4, <1>5, <1>6, <2>3, <3>1 DEF EndsAtSession
  <2> QED
    BY <2>4, <2>5, <2>6
<1> QED
  BY <1>5, <1>7, <1>8 DEF StepInv

\* The session ends without a word, or the connection becomes one with TLS.
Closes ==
  /\ serving \in {"nothing", "handshake"} /\ serving' = "ended"
  /\ UNCHANGED <<config, greeting, conn, rest, read, outgoing, asked, partial, got, known>>

Secures ==
  /\ serving = "handshake" /\ got = read
  /\ serving' = "nothing" /\ conn' = "tls" /\ greeting' = "Connected"
  /\ UNCHANGED <<config, rest, read, outgoing, asked, partial, got, known>>

LEMMA ClosesOrSecures == HelloRejected \/ TlsHandshake => Closes \/ Secures
BY DEF HelloRejected, TlsHandshake, Closes, Secures, readerVars

LEMMA StepHandshake ==
  ASSUME StepInv, Closes \/ Secures
  PROVE  StepInv'
<1>1. /\ serving \in {"nothing", "handshake"} /\ serving' \in {"nothing", "ended"}
      /\ UNCHANGED <<config, rest, read, outgoing, asked, partial, got>>
  BY DEF Closes, Secures
<1>2. RepliesTypeOK'
  BY <1>1 DEF StepInv, RepliesTypeOK, Closes, Secures
<1>3. ServingFits => ServingFits'
  BY <1>1 DEF ServingFits, Verbs
<1>4. Chained => Chained'
  BY <1>1 DEF Chained
<1>5. EndsAtSession => EndsAtSession'
  BY <1>1 DEF EndsAtSession
<1> QED
  BY <1>1, <1>2, <1>3, <1>4, <1>5 DEF StepInv

LEMMA StepSendCommand ==
  ASSUME StepInv, SendCommand
  PROVE  StepInv'
<1> DEFINE n == Len(asked)
<1>1. RepliesTypeOK
  BY DEF StepInv
<1>2. PICK verb \in Verbs : asked' = Append(asked, verb)
  BY DEF SendCommand
<1>3. /\ n \in Nat /\ asked' \in Seq(Verbs \cup {"banner"}) /\ Len(asked') = n + 1
      /\ \A i \in 1 .. n : asked'[i] = asked[i]
      /\ asked'[n + 1] = verb
  <2>1. asked \in Seq(Verbs \cup {"banner"}) /\ verb \in Verbs \cup {"banner"}
    BY <1>1 DEF RepliesTypeOK
  <2> QED
    BY <1>2, <2>1, AppendFacts, SeqFacts
<1>4. UNCHANGED <<config, greeting, conn, serving, rest, read, outgoing, partial, got>>
  BY DEF SendCommand
<1>5. read \in 1 .. n
  BY <1>1 DEF RepliesTypeOK
<1>6. RepliesTypeOK'
  <2>1. \A k \in 2 .. n + 1 : asked'[k] \in Verbs
    <3> TAKE k \in 2 .. n + 1
    <3>1. CASE k = n + 1
      BY <1>3, <3>1
    <3>2. CASE k # n + 1
      <4>1. k \in 1 .. n /\ k \in 2 .. n
        BY <1>3, <3>2
      <4> QED
        BY <1>1, <1>3, <4>1 DEF RepliesTypeOK
    <3> QED
      BY <3>1, <3>2
  <2>2. read \in 1 .. Len(asked')
    BY <1>3, <1>5
  <2> HIDE DEF n
  <2> QED
    BY <1>1, <1>3, <1>4, <2>1, <2>2 DEF RepliesTypeOK
<1> HIDE DEF n
<1>7. asked'[read] = asked[read]
  BY <1>3, <1>5
<1>8. ServingFits => ServingFits'
  BY <1>4, <1>7 DEF ServingFits
<1>9. Chained => Chained'
  BY <1>4 DEF Chained
<1>10. EndsAtSession => EndsAtSession'
  BY <1>4 DEF EndsAtSession
<1> QED
  BY <1>4, <1>6, <1>8, <1>9, <1>10 DEF StepInv

LEMMA StepReadReplyLine ==
  ASSUME StepInv, ReadReplyLine
  PROVE  StepInv'
<1> DEFINE l == outgoing[1]
           n == Len(outgoing)
<1>1. RepliesTypeOK
  BY DEF StepInv
<1>2. outgoing # <<>> /\ outgoing \in Seq(ReplyLines) /\ partial \in Seq(ReplyLines) /\ got \in Nat
  BY <1>1 DEF ReadReplyLine, RepliesTypeOK
<1>3. /\ n \in Nat /\ n >= 1 /\ l = Head(outgoing) /\ l \in ReplyLines
      /\ outgoing' \in Seq(ReplyLines) /\ Len(outgoing') = n - 1
      /\ \A i \in 1 .. n - 1 : outgoing'[i] = outgoing[i + 1]
      /\ outgoing' = <<>> <=> n = 1
  <2>1. outgoing' = Tail(outgoing)
    BY DEF ReadReplyLine
  <2>2. /\ Head(outgoing) = outgoing[1] /\ outgoing[1] \in ReplyLines
        /\ Tail(outgoing) \in Seq(ReplyLines) /\ Len(Tail(outgoing)) = n - 1
        /\ \A i \in 1 .. n - 1 : Tail(outgoing)[i] = outgoing[i + 1]
    BY <1>2, TailFacts
  <2>3. n \in Nat /\ n # 0
    BY <1>2, SeqFacts
  <2>4. Tail(outgoing) = <<>> <=> Len(Tail(outgoing)) = 0
    BY <2>2, SeqFacts
  <2> QED
    BY <2>1, <2>2, <2>3, <2>4
<1>4. /\ l.dash => partial' = Append(partial, l) /\ got' = got
      /\ ~l.dash => partial' = <<>> /\ got' = got + 1
      /\ UNCHANGED <<config, greeting, conn, serving, rest, read, asked>>
  BY <1>3 DEF ReadReplyLine
<1> HIDE DEF l
<1>5. partial' \in Seq(ReplyLines) /\ got' \in Nat
  <2>1. CASE l.dash
    BY <1>2, <1>3, <1>4, <2>1, AppendFacts
  <2>2. CASE ~l.dash
    <3>1. <<>> \in Seq(ReplyLines)
      BY EmptySeq
    <3>2. partial' = <<>> /\ got' = got + 1
      BY <1>4, <2>2
    <3> QED
      BY <1>2, <3>1, <3>2
  <2> QED
    BY <2>1, <2>2
<1>6. RepliesTypeOK'
  BY <1>1, <1>3, <1>4, <1>5 DEF RepliesTypeOK
<1>7. ASSUME config.name # NoText
      PROVE  ServingFits' /\ Chained' /\ EndsAtSession'
  <2>1. ServingFits /\ Chained /\ EndsAtSession
    BY <1>7 DEF StepInv
  <2>2. ServingFits'
    BY <1>4, <2>1 DEF ServingFits
  <2>3. l.to = got + 1 /\ l.to \in Nat
    BY <1>2, <1>3, <2>1 DEF Chained, l, ReplyLines
  <2>4. Chained'
    <3>1. ASSUME NEW i \in DOMAIN partial'
          PROVE  partial'[i].to = got' + 1 /\ partial'[i].dash
      <4>1. CASE l.dash
        <5>1. /\ Len(partial) \in Nat /\ DOMAIN partial = 1 .. Len(partial)
              /\ DOMAIN partial' = 1 .. Len(partial')
          <6>1. Len(partial) \in Nat /\ DOMAIN partial = 1 .. Len(partial)
            BY <1>2, SeqFacts
          <6>2. DOMAIN partial' = 1 .. Len(partial')
            BY <1>5, SeqFacts
          <6> QED
            BY <6>1, <6>2
        <5>2. /\ Len(partial') = Len(partial) + 1 /\ partial'[Len(partial) + 1] = l
              /\ \A j \in 1 .. Len(partial) : partial'[j] = partial[j]
          <6>1. /\ Len(Append(partial, l)) = Len(partial) + 1
                /\ Append(partial, l)[Len(partial) + 1] = l
                /\ \A j \in 1 .. Len(partial) : Append(partial, l)[j] = partial[j]
            BY <1>2, <1>3, AppendFacts
          <6>2. partial' = Append(partial, l)
            BY <1>4, <4>1
          <6> QED
            BY <6>1, <6>2
        <5>3. CASE i = Len(partial) + 1
          BY <1>4, <2>3, <4>1, <5>2, <5>3
        <5>4. CASE i # Len(partial) + 1
          <6>1. i \in DOMAIN partial
            BY <5>1, <5>2, <5>4
          <6> QED
            BY <1>4, <2>1, <4>1, <5>1, <5>2, <6>1 DEF Chained
        <5> QED
          BY <5>3, <5>4
      <4>2. CASE ~l.dash
        <5>1. partial' = <<>> /\ DOMAIN partial' = 1 .. Len(partial')
          BY <1>4, <1>5, <4>2, SeqFacts
        <5> QED
          BY <5>1, EmptyLen
      <4> QED
        BY <4>1, <4>2
    <3>2. ASSUME outgoing' # <<>>
          PROVE  outgoing'[1].to = got' + 1
      <4>1. 1 \in 1 .. n - 1 /\ outgoing'[1] = outgoing[2]
        BY <1>3, <3>2
      <4>2. outgoing[2].to = l.to + (IF l.dash THEN 0 ELSE 1)
        BY <2>1, <4>1 DEF Chained, l
      <4> QED
        BY <1>2, <1>4, <2>3, <4>1, <4>2
    <3>3. ASSUME NEW i \in 1 .. Len(outgoing') - 1
          PROVE  outgoing'[i + 1].to = outgoing'[i].to + (IF outgoing'[i].dash THEN 0 ELSE 1)
      <4>1. i \in 1 .. n - 1 /\ i + 1 \in 1 .. n - 1
        BY <1>3
      <4>2. outgoing'[i] = outgoing[i + 1] /\ outgoing'[i + 1] = outgoing[(i + 1) + 1]
        BY <1>3, <4>1
      <4> QED
        BY <2>1, <4>1, <4>2 DEF Chained
    <3> QED
      BY <3>1, <3>2, <3>3 DEF Chained
  <2>5. EndsAtSession'
    <3>0. ASSUME NEW i \in DOMAIN outgoing'
          PROVE  outgoing'[i].to \in 1 .. read'
      <4>1. i \in 1 .. n - 1
        BY <1>3, SeqFacts
      <4>2. outgoing'[i] = outgoing[i + 1] /\ i + 1 \in DOMAIN outgoing
        BY <1>2, <1>3, <4>1, SeqFacts
      <4> QED
        BY <1>4, <2>1, <4>2 DEF EndsAtSession
    <3>1. CASE n = 1
      <4>1. read' = read /\ rest' = rest /\ outgoing' = <<>> /\ outgoing[Len(outgoing)] = l
        BY <1>3, <1>4, <3>1 DEF l
      <4>2. /\ rest # <<>> => read = l.to + (IF l.dash THEN 0 ELSE 1)
            /\ rest = <<>> => read = l.to /\ ~l.dash
        BY <1>2, <2>1, <4>1 DEF EndsAtSession
      <4> QED
        BY <1>2, <1>4, <2>3, <3>0, <4>1, <4>2 DEF EndsAtSession
    <3>2. CASE n # 1
      <4>1. n - 1 \in 1 .. n - 1 /\ (n - 1) + 1 = n /\ outgoing' # <<>>
        BY <1>3, <3>2
      <4>2. outgoing'[Len(outgoing')] = outgoing[n]
        BY <1>3, <4>1
      <4> QED
        BY <1>2, <1>4, <2>1, <3>0, <4>1, <4>2 DEF EndsAtSession
    <3> QED
      BY <3>1, <3>2
  <2> QED
    BY <2>2, <2>4, <2>5
<1> QED
  BY <1>4, <1>6, <1>7 DEF StepInv

\* StepInv holds of every behaviour.
LEMMA StepKept == RepliesSpec => []StepInv
<1>1. RepliesInit => StepInv
  BY StepStarts
<1>2. StepInv /\ [RepliesNext]_repliesVars => StepInv'
  <2> SUFFICES ASSUME StepInv, [RepliesNext]_repliesVars PROVE StepInv'
    OBVIOUS
  <2>1. CASE ReadCommand
    BY <2>1, StepReadCommand
  <2>2. CASE Reply
    BY <2>2, StepReply
  <2>3. CASE HelloRejected \/ TlsHandshake
    BY <2>3, ClosesOrSecures, StepHandshake
  <2>4. CASE SendCommand
    BY <2>4, StepSendCommand
  <2>5. CASE ReadReplyLine
    BY <2>5, StepReadReplyLine
  <2>6. CASE UNCHANGED repliesVars
    BY <2>6 DEF repliesVars, StepInv, RepliesTypeOK, ServingFits, Chained, EndsAtSession
  <2> QED
    BY <2>1, <2>2, <2>3, <2>4, <2>5, <2>6 DEF RepliesNext
<1> QED
  BY <1>1, <1>2, PTL DEF RepliesSpec

LEMMA InStep ==
  ASSUME StepInv
  PROVE  RepliesInStep
<1> SUFFICES ASSUME config.name # NoText
             PROVE  /\ \A i \in DOMAIN partial : partial[i].to = got + 1
                    /\ outgoing # <<>> => Head(outgoing).to = got + 1
                    /\ outgoing = <<>> /\ rest = <<>> => got = read /\ partial = <<>>
  BY DEF RepliesInStep
<1>1. RepliesTypeOK /\ Chained /\ EndsAtSession
  BY DEF StepInv
<1>2. outgoing # <<>> => Head(outgoing) = outgoing[1]
  <2>1. outgoing \in Seq(ReplyLines)
    BY <1>1 DEF RepliesTypeOK
  <2> QED
    BY <2>1, TailFacts
<1> QED
  BY <1>1, <1>2 DEF Chained, EndsAtSession

\* A client that reads replies line by line stays in step with the session, however
\* many commands it sends ahead and however long it waits to read (response.rs's
\* line, Session::reply).
THEOREM ClientInStep == RepliesSpec => []RepliesInStep
<1>1. RepliesSpec => []StepInv
  BY StepKept
<1>2. StepInv => RepliesInStep
  BY InStep
<1> QED
  BY <1>1, <1>2, PTL

--------------------------------------------------------------------------------
(* Replies: where in its reply a line is *)

\* IsNth, of any lines o on their way and any number p of lines already seen.
Nth(o, p, i, n) ==
  \/ n = p + i /\ \A j \in 1 .. i - 1 : o[j].dash
  \/ \E j \in 1 .. i - 1 : n = i - j /\ ~o[j].dash /\ \A k \in j + 1 .. i - 1 : o[k].dash

\* Only the lines before it count.
LEMMA NthSame ==
  ASSUME NEW i \in Nat, NEW o, NEW q, \A j \in 1 .. i - 1 : q[j] = o[j], NEW p \in Nat, NEW n \in Nat
  PROVE  Nth(q, p, i, n) <=> Nth(o, p, i, n)
<1>1. \A j \in 1 .. i - 1 : \A k \in j + 1 .. i - 1 : k \in 1 .. i - 1
  OBVIOUS
<1> QED
  BY <1>1 DEF Nth

\* The line after one that is marked is the next of the same reply.
LEMMA NthAfter ==
  ASSUME NEW i \in Nat \ {0}, NEW o, o[i].dash, NEW p \in Nat, NEW n \in Nat, Nth(o, p, i + 1, n)
  PROVE  n - 1 \in 1 .. p + i /\ Nth(o, p, i, n - 1)
<1>1. CASE n = p + (i + 1) /\ \A j \in 1 .. (i + 1) - 1 : o[j].dash
  <2>1. n - 1 = p + i /\ \A j \in 1 .. i - 1 : j \in 1 .. (i + 1) - 1
    BY <1>1
  <2> QED
    BY <1>1, <2>1 DEF Nth
<1>2. CASE \E j \in 1 .. (i + 1) - 1 :
             n = (i + 1) - j /\ ~o[j].dash /\ \A k \in j + 1 .. (i + 1) - 1 : o[k].dash
  <2>1. PICK j \in 1 .. (i + 1) - 1 :
          n = (i + 1) - j /\ ~o[j].dash /\ \A k \in j + 1 .. (i + 1) - 1 : o[k].dash
    BY <1>2
  <2>2. j # i
    BY <2>1
  <2>3. j \in 1 .. i - 1 /\ n - 1 = i - j /\ n - 1 \in 1 .. p + i
    BY <2>1, <2>2
  <2>4. \A k \in j + 1 .. i - 1 : o[k].dash
    BY <2>1
  <2> QED
    BY <2>1, <2>3, <2>4 DEF Nth
<1> QED
  BY <1>1, <1>2 DEF Nth

\* The line after one that is not marked is the first.
LEMMA NthAfterLast ==
  ASSUME NEW i \in Nat \ {0}, NEW o, ~o[i].dash, NEW p \in Nat, NEW n \in Nat, Nth(o, p, i + 1, n)
  PROVE  n = 1
<1>1. i \in 1 .. (i + 1) - 1
  OBVIOUS
<1>2. PICK j \in 1 .. (i + 1) - 1 :
        n = (i + 1) - j /\ ~o[j].dash /\ \A k \in j + 1 .. (i + 1) - 1 : o[k].dash
  BY <1>1 DEF Nth
<1>3. j = i
  <2>1. SUFFICES ASSUME j # i PROVE FALSE
    OBVIOUS
  <2>2. i \in j + 1 .. (i + 1) - 1
    BY <2>1
  <2> QED
    BY <1>2, <2>2
<1> QED
  BY <1>2, <1>3

\* What the client reads of the lines on their way it has seen.
LEMMA NthRead ==
  ASSUME NEW i \in Nat \ {0}, NEW o, NEW q, \A j \in 1 .. i - 1 : q[j] = o[j + 1],
         NEW p \in Nat, NEW n \in Nat,
         Nth(q, IF o[1].dash THEN p + 1 ELSE 0, i, n)
  PROVE  Nth(o, p, i + 1, n)
<1>0. \A k \in 2 .. i : o[k] = q[k - 1] /\ k - 1 \in 1 .. i - 1
  <2> TAKE k \in 2 .. i
  <2>1. k - 1 \in 1 .. i - 1 /\ (k - 1) + 1 = k
    OBVIOUS
  <2> QED
    BY <2>1
<1>1. CASE \E j \in 1 .. i - 1 : n = i - j /\ ~q[j].dash /\ \A k \in j + 1 .. i - 1 : q[k].dash
  <2>1. PICK j \in 1 .. i - 1 : n = i - j /\ ~q[j].dash /\ \A k \in j + 1 .. i - 1 : q[k].dash
    BY <1>1
  <2>2. j + 1 \in 1 .. (i + 1) - 1 /\ n = (i + 1) - (j + 1) /\ ~o[j + 1].dash
    BY <2>1
  <2>3. ASSUME NEW k \in (j + 1) + 1 .. (i + 1) - 1
        PROVE  o[k].dash
    <3>1. k \in 2 .. i /\ k - 1 \in j + 1 .. i - 1
      OBVIOUS
    <3> QED
      BY <1>0, <2>1, <3>1
  <2> QED
    BY <2>2, <2>3 DEF Nth
<1>2. CASE /\ n = (IF o[1].dash THEN p + 1 ELSE 0) + i
           /\ \A j \in 1 .. i - 1 : q[j].dash
  <2>1. ASSUME NEW k \in 2 .. i
        PROVE  o[k].dash
    BY <1>0, <1>2
  <2>2. CASE o[1].dash
    <3>1. n = p + (i + 1)
      BY <1>2, <2>2
    <3>2. ASSUME NEW j \in 1 .. (i + 1) - 1
          PROVE  o[j].dash
      <4>1. j = 1 \/ j \in 2 .. i
        OBVIOUS
      <4> QED
        BY <2>1, <2>2, <4>1
    <3> QED
      BY <3>1, <3>2 DEF Nth
  <2>3. CASE ~o[1].dash
    <3>1. n = (i + 1) - 1 /\ 1 \in 1 .. (i + 1) - 1
      BY <1>2, <2>3
    <3>2. \A k \in 1 + 1 .. (i + 1) - 1 : o[k].dash
      BY <2>1
    <3> QED
      BY <2>3, <3>1, <3>2 DEF Nth
  <2> QED
    BY <2>2, <2>3
<1> QED
  BY <1>1, <1>2 DEF Nth

LEMMA NthFirst ==
  ASSUME NEW o, NEW p \in Nat
  PROVE  Nth(o, p, 1, p + 1)
BY DEF Nth

--------------------------------------------------------------------------------
(* Replies: the lines of the features are in their places *)

\* TellsFeature, of what the client asked and any reply e of an EHLO; Remain, of
\* what a session still has to send of it; FeaturesInPlace, of the lines that the
\* client has seen, of those on their way and of those to be sent.
Tells(a, e, l, n) ==
  a[l.to] = "EHLO" =>
    \/ l.code # 250 /\ ~l.dash
    \/ l.code = 250 /\ n \in DOMAIN e /\ l.text = e[n].text /\ (l.dash <=> n < Len(e))

Remain(e, r, n) ==
  \/ Len(r) = 1 /\ r[1].code # 250
  \/ n + Len(r) = Len(e) + 1 /\ \A i \in DOMAIN r : r[i] = e[n + i - 1]

InPlace(a, e, p, o, r, k) ==
  /\ \A i \in DOMAIN p : Tells(a, e, p[i], i)
  /\ \A i \in DOMAIN o : \A n \in 1 .. Len(p) + i : Nth(o, Len(p), i, n) => Tells(a, e, o[i], n)
  /\ \A n \in 1 .. Len(p) + Len(o) + 1 :
       r # <<>> /\ a[k] = "EHLO" /\ Nth(o, Len(p), Len(o) + 1, n) => Remain(e, r, n)

LEMMA PlaceIs ==
  FeaturesInPlace <=> InPlace(asked, EhloReplies, partial, outgoing, rest, read)
<1>1. \A i, n : IsNth(i, n) <=> Nth(outgoing, Len(partial), i, n)
  BY Zenon DEF IsNth, Nth
<1>2. \A l, n : TellsFeature(l, n) <=> Tells(asked, EhloReplies, l, n)
  BY DEF TellsFeature, Tells
<1> QED
  BY <1>1, <1>2 DEF FeaturesInPlace, InPlace, Remain

LEMMA PlaceIsThen ==
  FeaturesInPlace' <=> InPlace(asked', EhloReplies', partial', outgoing', rest', read')
<1>1. \A i, n : IsNth(i, n)' <=> Nth(outgoing', Len(partial'), i, n)
  BY Zenon DEF IsNth, Nth
<1>2. \A l, n : TellsFeature(l, n)' <=> Tells(asked', EhloReplies', l, n)
  BY DEF TellsFeature, Tells
<1> QED
  BY <1>1, <1>2 DEF FeaturesInPlace, InPlace, Remain

LEMMA SameEhlo ==
  ASSUME UNCHANGED <<config, conn>>
  PROVE  EhloReplies' = EhloReplies
<1>1. SupportsTls' <=> SupportsTls
  BY DEF SupportsTls
<1>2. Features' = Features
  BY <1>1, Zenon DEF Features
<1> QED
  BY <1>2 DEF EhloReplies

LEMMA PlaceStarts ==
  ASSUME RepliesInit
  PROVE  FeaturesInPlace
<1>1. StepInv
  BY StepStarts
<1>2. DOMAIN partial = {} /\ DOMAIN outgoing = {}
  <2>1. partial = <<>> /\ outgoing = <<>> /\ partial \in Seq(ReplyLines) /\ outgoing \in Seq(ReplyLines)
    BY <1>1 DEF RepliesInit, StepInv, RepliesTypeOK
  <2> QED
    BY <2>1, SeqFacts
<1>3. asked[read] # "EHLO"
  BY DEF RepliesInit
<1>4. InPlace(asked, EhloReplies, partial, outgoing, rest, read)
  BY <1>2, <1>3 DEF InPlace
<1> QED
  BY <1>4, PlaceIs

LEMMA PlaceReadCommand ==
  ASSUME StepInv, config.name # NoText, FeaturesInPlace, ReadCommand
  PROVE  FeaturesInPlace'
<1> DEFINE e == EhloReplies
           p == Len(partial)
           m == Len(outgoing)
           verb == asked[read + 1]
<1>1. RepliesTypeOK /\ ServingFits /\ EndsAtSession
  BY DEF StepInv
<1>2. outgoing \in Seq(ReplyLines) /\ partial \in Seq(ReplyLines) /\ p \in Nat /\ m \in Nat
  BY <1>1, SeqFacts DEF RepliesTypeOK
<1>3. verb \in Verbs
  BY <1>1, SeqFacts DEF RepliesTypeOK, ReadCommand
<1>4. verb = "EHLO" => rest' = e \/ (Len(rest') = 1 /\ rest'[1].code # 250)
  <2>1. rest' = Replies(verb)
    BY DEF ReadCommand
  <2> QED
    BY <1>1, <1>3, <2>1, WholeReply
<1>5. e \in Seq(Responses)
  BY <1>1, EhloFacts
<1>6. EhloReplies' = e
  BY SameEhlo DEF ReadCommand
<1>7. /\ read' = read + 1 /\ asked' = asked /\ partial' = partial /\ outgoing' = outgoing
      /\ asked'[read'] = verb
  BY DEF ReadCommand, readerVars
<1>8. rest = <<>>
  BY <1>1 DEF ServingFits, ReadCommand, Verbs
<1>9. ASSUME NEW n \in 1 .. p + m + 1, Nth(outgoing, p, m + 1, n)
      PROVE  n = 1
  <2>1. CASE outgoing = <<>>
    <3>1. p = 0 /\ m = 0
      BY <1>1, <1>8, <2>1, EmptyLen DEF EndsAtSession
    <3> QED
      BY <1>9, <3>1
  <2>2. CASE outgoing # <<>>
    <3>1. ~outgoing[m].dash /\ m \in Nat \ {0}
      BY <1>1, <1>2, <1>8, <2>2, SeqFacts DEF EndsAtSession
    <3> QED
      BY <1>2, <1>9, <3>1, NthAfterLast
  <2> QED
    BY <2>1, <2>2
<1>10. ASSUME NEW n \in 1 .. p + m + 1, Nth(outgoing, p, m + 1, n), verb = "EHLO"
       PROVE  Remain(e, rest', n)
  <2>1. n = 1
    BY <1>9, <1>10
  <2>2. CASE Len(rest') = 1 /\ rest'[1].code # 250
    BY <2>2 DEF Remain
  <2>3. CASE rest' = e
    <3>1. Len(e) \in Nat /\ \A i \in DOMAIN e : i = n + i - 1
      BY <1>5, <2>1, SeqFacts
    <3> HIDE DEF e
    <3> QED
      BY <2>1, <2>3, <3>1 DEF Remain
  <2> QED
    BY <1>4, <1>10, <2>2, <2>3
<1> HIDE DEF e, verb
<1>11. InPlace(asked', e, partial', outgoing', rest', read')
  <2>1. InPlace(asked, e, partial, outgoing, rest, read)
    BY PlaceIs DEF e
  <2> QED
    BY <1>7, <1>10, <2>1 DEF InPlace
<1> QED
  BY <1>6, <1>11, PlaceIsThen

LEMMA PlaceReply ==
  ASSUME StepInv, config.name # NoText, FeaturesInPlace, Reply
  PROVE  FeaturesInPlace'
<1> DEFINE e == EhloReplies
           p == Len(partial)
           m == Len(outgoing)
           r == rest[1]
           l == Line(r)
<1>1. RepliesTypeOK /\ ServingFits
  BY DEF StepInv
<1>2. /\ outgoing \in Seq(ReplyLines) /\ partial \in Seq(ReplyLines) /\ rest \in Seq(Responses)
      /\ rest # <<>> /\ read \in Nat /\ p \in Nat /\ m \in Nat /\ Len(rest) \in Nat /\ Len(rest) # 0
  BY <1>1, SeqFacts DEF RepliesTypeOK, Reply
<1>3. /\ r = Head(rest) /\ r \in Responses /\ rest' \in Seq(Responses)
      /\ Len(rest') = Len(rest) - 1
      /\ \A i \in 1 .. Len(rest) - 1 : rest'[i] = rest[i + 1]
  BY <1>2, TailFacts DEF Reply
<1>4. (r.hasNext <=> 1 < Len(rest)) /\ r.text # NoText
  BY <1>1, <1>2, SeqFacts DEF ServingFits
<1>5. /\ l \in ReplyLines /\ l.code = r.code /\ l.text = r.text /\ l.to = read
      /\ l.dash <=> 1 < Len(rest)
  BY <1>2, <1>3, <1>4, LineFacts
<1>6. e \in Seq(Responses) /\ Len(e) \in Nat /\ \A i \in 2 .. Len(e) : e[i].code = 250
  <2>1. /\ EhloReplies \in Seq(Responses) /\ Len(EhloReplies) = Len(Features) + 1
        /\ \A i \in 1 .. Len(Features) : EhloReplies[i + 1].code = 250
    BY <1>1, EhloFacts
  <2>2. Len(Features) \in Nat
    BY FeaturesAre
  <2>3. ASSUME NEW i \in 2 .. Len(e)
        PROVE  e[i].code = 250
    <3>1. i - 1 \in 1 .. Len(Features) /\ (i - 1) + 1 = i
      BY <2>1, <2>2
    <3> QED
      BY <2>1, <3>1
  <2> QED
    BY <2>1, <2>2, <2>3
<1>7. e[1].code = 250
  <2>1. EhloReplies[1] = Continued(250, config.name) /\ config.name \in Texts
    BY <1>1, EhloFacts DEF RepliesTypeOK, Texts
  <2> QED
    BY <2>1, ResponseFacts
<1>8. EhloReplies' = e
  BY SameEhlo DEF Reply
<1>9. outgoing' = Append(outgoing, l) /\ read' = read /\ asked' = asked /\ partial' = partial
  BY <1>3 DEF Reply, readerVars
<1> HIDE DEF l, r, e
<1>10. /\ outgoing' \in Seq(ReplyLines) /\ Len(outgoing') = m + 1
       /\ DOMAIN outgoing' = 1 .. m + 1
       /\ \A i \in 1 .. m : outgoing'[i] = outgoing[i]
       /\ outgoing'[m + 1] = l
  <2>1. /\ Append(outgoing, l) \in Seq(ReplyLines) /\ Len(Append(outgoing, l)) = m + 1
        /\ \A i \in 1 .. m : Append(outgoing, l)[i] = outgoing[i]
        /\ Append(outgoing, l)[m + 1] = l
    BY <1>2, <1>5, AppendFacts
  <2>2. DOMAIN Append(outgoing, l) = 1 .. m + 1
    BY <2>1, SeqFacts
  <2> QED
    BY <1>9, <2>1, <2>2
<1>11. InPlace(asked, e, partial, outgoing, rest, read)
  BY PlaceIs DEF e
<1>12. ASSUME NEW n \in 1 .. p + m + 1, asked[read] = "EHLO", Nth(outgoing, p, m + 1, n)
       PROVE  Remain(e, rest, n)
  BY <1>2, <1>11, <1>12 DEF InPlace
<1>13. ASSUME NEW n \in 1 .. p + m + 1, Nth(outgoing, p, m + 1, n)
       PROVE  Tells(asked, e, l, n)
  <2> SUFFICES ASSUME asked[read] = "EHLO"
               PROVE  \/ l.code # 250 /\ ~l.dash
                      \/ /\ l.code = 250 /\ n \in DOMAIN e /\ l.text = e[n].text
                         /\ l.dash <=> n < Len(e)
    BY <1>5 DEF Tells
  <2>1. Remain(e, rest, n)
    BY <1>12, <1>13
  <2>2. CASE Len(rest) = 1 /\ rest[1].code # 250
    BY <1>5, <2>2 DEF r
  <2>3. CASE n + Len(rest) = Len(e) + 1 /\ \A i \in DOMAIN rest : rest[i] = e[n + i - 1]
    <3>1. 1 \in DOMAIN rest /\ n + 1 - 1 = n
      BY <1>2, SeqFacts
    <3>2. r = e[n]
      BY <2>3, <3>1 DEF r
    <3>3. n \in 1 .. Len(e) /\ (1 < Len(rest) <=> n < Len(e))
      BY <1>2, <1>6, <2>3
    <3>4. n \in DOMAIN e /\ e[n].code = 250
      <4>1. DOMAIN e = 1 .. Len(e) /\ (n = 1 \/ n \in 2 .. Len(e))
        BY <1>6, <3>3, SeqFacts
      <4> QED
        BY <1>6, <1>7, <3>3, <4>1
    <3> QED
      BY <1>5, <3>2, <3>3, <3>4
  <2> QED
    BY <2>1, <2>2, <2>3 DEF Remain
<1>14. ASSUME NEW i \in DOMAIN outgoing', NEW n \in 1 .. p + i, Nth(outgoing', p, i, n)
       PROVE  Tells(asked, e, outgoing'[i], n)
  <2>1. i \in 1 .. m + 1 /\ i \in Nat /\ n \in Nat /\ \A j \in 1 .. i - 1 : j \in 1 .. m
    BY <1>2, <1>10
  <2>2. Nth(outgoing, p, i, n)
    BY <1>2, <1>10, <1>14, <2>1, NthSame
  <2>3. CASE i = m + 1
    BY <1>10, <1>13, <2>2, <2>3
  <2>4. CASE i # m + 1
    <3>0. DOMAIN outgoing = 1 .. m
      BY <1>2, SeqFacts
    <3>1. i \in DOMAIN outgoing /\ outgoing'[i] = outgoing[i]
      BY <1>2, <1>10, <2>1, <2>4, <3>0
    <3>2. \A j \in DOMAIN outgoing : \A k \in 1 .. p + j :
            Nth(outgoing, p, j, k) => Tells(asked, e, outgoing[j], k)
      BY <1>11, Zenon DEF InPlace
    <3> QED
      BY <2>2, <3>1, <3>2
  <2> QED
    BY <2>3, <2>4
<1>15. ASSUME NEW n \in 1 .. p + (m + 1) + 1, rest' # <<>>, asked[read] = "EHLO",
              Nth(outgoing', p, (m + 1) + 1, n)
       PROVE  Remain(e, rest', n)
  <2>1. Len(rest') \in Nat /\ Len(rest') # 0 /\ DOMAIN rest' = 1 .. Len(rest')
    BY <1>3, <1>15, SeqFacts
  <2>2. l.dash /\ m + 1 \in Nat \ {0} /\ n \in Nat
    BY <1>2, <1>3, <1>5, <2>1
  <2>3. n - 1 \in 1 .. p + (m + 1) /\ Nth(outgoing', p, m + 1, n - 1)
    BY <1>2, <1>10, <1>15, <2>2, NthAfter
  <2>4. n - 1 \in 1 .. p + m + 1 /\ Nth(outgoing, p, m + 1, n - 1)
    <3>1. \A j \in 1 .. (m + 1) - 1 : outgoing'[j] = outgoing[j]
      BY <1>2, <1>10
    <3>2. n - 1 \in Nat /\ n - 1 \in 1 .. p + m + 1 /\ m + 1 \in Nat
      BY <1>2, <2>3
    <3> QED
      BY <1>2, <2>3, <3>1, <3>2, NthSame
  <2>5. Remain(e, rest, n - 1)
    BY <1>12, <1>15, <2>4
  <2>6. (n - 1) + Len(rest) = Len(e) + 1 /\ \A i \in DOMAIN rest : rest[i] = e[(n - 1) + i - 1]
    BY <1>2, <1>3, <2>1, <2>5 DEF Remain
  <2>7. n + Len(rest') = Len(e) + 1
    BY <1>2, <1>3, <2>2, <2>6
  <2>8. ASSUME NEW i \in DOMAIN rest'
        PROVE  rest'[i] = e[n + i - 1]
    <3>1. i \in 1 .. Len(rest) - 1 /\ i + 1 \in 1 .. Len(rest) /\ (n - 1) + (i + 1) - 1 = n + i - 1
      BY <1>2, <1>3, <2>1, <2>2
    <3>2. i + 1 \in DOMAIN rest
      BY <1>2, <3>1, SeqFacts
    <3> QED
      BY <1>3, <2>6, <3>1, <3>2
  <2> QED
    BY <2>7, <2>8 DEF Remain
<1>16. InPlace(asked', e, partial', outgoing', rest', read')
  BY <1>9, <1>10, <1>11, <1>14, <1>15 DEF InPlace
<1> QED
  BY <1>8, <1>16, PlaceIsThen

\* When a handshake begins, the client has read all that was sent before it.
LEMMA HandshakeAlone ==
  ASSUME StepInv, config.name # NoText, Secures
  PROVE  outgoing = <<>> /\ partial = <<>> /\ rest = <<>>
<1>1. RepliesTypeOK /\ ServingFits /\ Chained /\ EndsAtSession
  BY DEF StepInv
<1>2. rest = <<>>
  BY <1>1 DEF Secures, ServingFits, Verbs
<1>3. outgoing = <<>>
  <2>1. SUFFICES ASSUME outgoing # <<>> PROVE FALSE
    OBVIOUS
  <2>2. outgoing \in Seq(ReplyLines) /\ read \in Nat /\ got = read
    BY <1>1 DEF RepliesTypeOK, Secures
  <2>3. 1 \in DOMAIN outgoing
    BY <2>1, <2>2, SeqFacts
  <2> QED
    BY <1>1, <2>1, <2>2, <2>3 DEF Chained, EndsAtSession
<1> QED
  BY <1>1, <1>2, <1>3 DEF EndsAtSession

LEMMA PlaceHandshake ==
  ASSUME StepInv, config.name # NoText, Secures
  PROVE  FeaturesInPlace'
<1>1. outgoing = <<>> /\ partial = <<>> /\ rest = <<>>
  BY HandshakeAlone
<1>2. DOMAIN partial = {} /\ DOMAIN outgoing = {}
  <2>1. partial \in Seq(ReplyLines) /\ outgoing \in Seq(ReplyLines)
    BY DEF StepInv, RepliesTypeOK
  <2> QED
    BY <1>1, <2>1, SeqFacts
<1>3. InPlace(asked', EhloReplies', partial', outgoing', rest', read')
  BY <1>1, <1>2 DEF InPlace, Secures
<1> QED
  BY <1>3, PlaceIsThen

\* Every line is of a command that the session has read.
LEMMA LinesOfRead ==
  ASSUME StepInv, config.name # NoText
  PROVE  /\ \A i \in DOMAIN partial : partial[i].to \in 1 .. read
         /\ \A i \in DOMAIN outgoing : outgoing[i].to \in 1 .. read
<1>1. RepliesTypeOK /\ Chained /\ EndsAtSession
  BY DEF StepInv
<1>2. /\ partial \in Seq(ReplyLines) /\ outgoing \in Seq(ReplyLines) /\ got \in Nat /\ read \in Nat
  BY <1>1 DEF RepliesTypeOK
<1>3. partial # <<>> => got + 1 \in 1 .. read
  <2>1. CASE outgoing # <<>>
    <3>1. 1 \in DOMAIN outgoing
      BY <1>2, <2>1, SeqFacts
    <3> QED
      BY <1>1, <2>1, <3>1 DEF Chained, EndsAtSession
  <2>2. CASE outgoing = <<>>
    BY <1>1, <1>2, <2>2 DEF EndsAtSession
  <2> QED
    BY <2>1, <2>2
<1>4. ASSUME NEW i \in DOMAIN partial
      PROVE  partial[i].to \in 1 .. read
  <2>1. partial # <<>>
    <3>1. DOMAIN partial = 1 .. Len(partial) /\ Len(partial) \in Nat
      BY <1>2, SeqFacts
    <3>2. Len(partial) # 0
      BY <3>1
    <3> QED
      BY <3>2, EmptyLen
  <2> QED
    BY <1>1, <1>3, <2>1 DEF Chained
<1> QED
  BY <1>1, <1>4 DEF EndsAtSession

LEMMA PlaceSendCommand ==
  ASSUME StepInv, config.name # NoText, FeaturesInPlace, SendCommand
  PROVE  FeaturesInPlace'
<1>1. RepliesTypeOK
  BY DEF StepInv
<1>2. UNCHANGED <<config, conn, rest, read, outgoing, partial>>
  BY DEF SendCommand
<1>3. \A i \in 1 .. read : asked'[i] = asked[i]
  <2>1. PICK verb \in Verbs : asked' = Append(asked, verb)
    BY DEF SendCommand
  <2>2. asked \in Seq(Verbs \cup {"banner"}) /\ verb \in Verbs \cup {"banner"}
    BY <1>1 DEF RepliesTypeOK
  <2>3. \A i \in 1 .. Len(asked) : asked'[i] = asked[i]
    BY <2>1, <2>2, AppendFacts
  <2>4. read \in 1 .. Len(asked)
    BY <1>1 DEF RepliesTypeOK
  <2>5. Len(asked) \in Nat
    BY <2>2, SeqFacts
  <2> QED
    BY <2>3, <2>4, <2>5
<1>4. read \in 1 .. read
  BY <1>1 DEF RepliesTypeOK
<1>5. /\ \A i \in DOMAIN partial : asked'[partial[i].to] = asked[partial[i].to]
      /\ \A i \in DOMAIN outgoing : asked'[outgoing[i].to] = asked[outgoing[i].to]
      /\ asked'[read] = asked[read]
  BY <1>3, <1>4, LinesOfRead
<1>6. EhloReplies' = EhloReplies
  BY <1>2, SameEhlo
<1>7. InPlace(asked', EhloReplies, partial, outgoing, rest, read)
  <2>1. InPlace(asked, EhloReplies, partial, outgoing, rest, read)
    BY PlaceIs
  <2> QED
    BY <1>5, <2>1 DEF InPlace, Tells
<1> QED
  BY <1>2, <1>6, <1>7, PlaceIsThen

LEMMA PlaceReadReplyLine ==
  ASSUME StepInv, FeaturesInPlace, ReadReplyLine
  PROVE  FeaturesInPlace'
<1> DEFINE e == EhloReplies
           p == Len(partial)
           m == Len(outgoing)
           l == outgoing[1]
<1>1. outgoing # <<>> /\ outgoing \in Seq(ReplyLines) /\ partial \in Seq(ReplyLines)
  BY DEF ReadReplyLine, StepInv, RepliesTypeOK
<1>2. /\ p \in Nat /\ m \in Nat /\ m # 0 /\ l = Head(outgoing) /\ l \in ReplyLines
      /\ DOMAIN outgoing = 1 .. m
  BY <1>1, SeqFacts, TailFacts
<1>3. /\ Len(outgoing') = m - 1 /\ DOMAIN outgoing' = 1 .. m - 1
      /\ \A i \in 1 .. m - 1 : outgoing'[i] = outgoing[i + 1]
  <2>1. outgoing' = Tail(outgoing)
    BY DEF ReadReplyLine
  <2>2. /\ Tail(outgoing) \in Seq(ReplyLines) /\ Len(Tail(outgoing)) = m - 1
        /\ \A i \in 1 .. m - 1 : Tail(outgoing)[i] = outgoing[i + 1]
    BY <1>1, TailFacts
  <2>3. DOMAIN Tail(outgoing) = 1 .. Len(Tail(outgoing))
    BY <2>2, SeqFacts
  <2> QED
    BY <2>1, <2>2, <2>3
<1>4. /\ l.dash => partial' = Append(partial, l)
      /\ ~l.dash => partial' = <<>>
      /\ asked' = asked /\ rest' = rest /\ read' = read
  BY <1>2 DEF ReadReplyLine
<1>5. InPlace(asked, e, partial, outgoing, rest, read)
  BY PlaceIs
<1>6. EhloReplies' = e
  BY SameEhlo DEF ReadReplyLine
<1> HIDE DEF e
<1>7. Tells(asked, e, l, p + 1)
  <2>1. 1 \in DOMAIN outgoing /\ p + 1 \in 1 .. p + 1 /\ Nth(outgoing, p, 1, p + 1)
    BY <1>2, NthFirst
  <2> QED
    BY <1>5, <2>1 DEF InPlace
<1> HIDE DEF l
<1>8. /\ Len(partial') = IF l.dash THEN p + 1 ELSE 0
      /\ \A i \in DOMAIN partial' : Tells(asked, e, partial'[i], i)
  <2>1. CASE l.dash
    <3>1. /\ Append(partial, l) \in Seq(ReplyLines) /\ Len(Append(partial, l)) = p + 1
          /\ Append(partial, l)[p + 1] = l
          /\ \A j \in 1 .. p : Append(partial, l)[j] = partial[j]
      BY <1>1, <1>2, AppendFacts
    <3>2. DOMAIN Append(partial, l) = 1 .. p + 1
      BY <3>1, SeqFacts
    <3>3. /\ Len(partial') = p + 1 /\ DOMAIN partial' = 1 .. p + 1 /\ partial'[p + 1] = l
          /\ \A j \in 1 .. p : partial'[j] = partial[j]
      BY <1>4, <2>1, <3>1, <3>2
    <3>4. \A i \in 1 .. p : Tells(asked, e, partial[i], i)
      BY <1>1, <1>5, SeqFacts DEF InPlace
    <3>5. ASSUME NEW i \in DOMAIN partial'
          PROVE  Tells(asked, e, partial'[i], i)
      <4>1. i = p + 1 \/ i \in 1 .. p
        BY <1>2, <3>3
      <4> QED
        BY <1>7, <3>3, <3>4, <4>1
    <3> QED
      BY <2>1, <3>3, <3>5
  <2>2. CASE ~l.dash
    <3>1. <<>> \in Seq(ReplyLines) /\ Len(<<>>) = 0
      BY EmptySeq
    <3>2. DOMAIN <<>> = {}
      BY <3>1, SeqFacts
    <3>3. partial' = <<>>
      BY <1>4, <2>2
    <3> QED
      BY <2>2, <3>1, <3>2, <3>3
  <2> QED
    BY <2>1, <2>2
<1> DEFINE q == IF l.dash THEN p + 1 ELSE 0
<1>9. ASSUME NEW i \in 1 .. m, NEW n \in 1 .. q + i, Nth(outgoing', q, i, n)
      PROVE  n \in 1 .. p + (i + 1) /\ Nth(outgoing, p, i + 1, n)
  <2>1. n \in Nat /\ n \in 1 .. p + (i + 1) /\ i \in Nat \ {0}
    BY <1>2
  <2>2. \A j \in 1 .. i - 1 : outgoing'[j] = outgoing[j + 1]
    BY <1>2, <1>3
  <2> QED
    BY <1>2, <1>9, <2>1, <2>2, NthRead DEF l
<1>10. ASSUME NEW i \in DOMAIN outgoing', NEW n \in 1 .. q + i, Nth(outgoing', q, i, n)
       PROVE  Tells(asked, e, outgoing'[i], n)
  <2>1. i \in 1 .. m /\ i + 1 \in DOMAIN outgoing /\ outgoing'[i] = outgoing[i + 1]
    BY <1>2, <1>3
  <2>2. n \in 1 .. p + (i + 1) /\ Nth(outgoing, p, i + 1, n)
    BY <1>9, <1>10, <2>1
  <2>3. \A j \in DOMAIN outgoing : \A k \in 1 .. p + j :
          Nth(outgoing, p, j, k) => Tells(asked, e, outgoing[j], k)
    BY <1>5, Zenon DEF InPlace
  <2> QED
    BY <2>1, <2>2, <2>3
<1>11. ASSUME NEW n \in 1 .. q + (m - 1) + 1, rest # <<>>, asked[read] = "EHLO",
              Nth(outgoing', q, (m - 1) + 1, n)
       PROVE  Remain(e, rest, n)
  <2>1. m \in 1 .. m /\ (m - 1) + 1 = m /\ q \in Nat
    BY <1>2
  <2> HIDE DEF q
  <2>2. n \in 1 .. q + m
    BY <1>2, <2>1
  <2>3. n \in 1 .. p + (m + 1) /\ Nth(outgoing, p, m + 1, n)
    BY <1>9, <1>11, <2>1, <2>2
  <2>4. n \in 1 .. p + m + 1
    BY <1>2, <2>3
  <2> QED
    BY <1>5, <1>11, <2>3, <2>4 DEF InPlace
<1> HIDE DEF q
<1>12. Len(partial') = q
  BY <1>8 DEF q
<1>13. InPlace(asked, e, partial', outgoing', rest, read)
  BY <1>3, <1>8, <1>10, <1>11, <1>12 DEF InPlace
<1> QED
  BY <1>4, <1>6, <1>13, PlaceIsThen

--------------------------------------------------------------------------------
(* Replies: a client knows the features *)

\* FeaturesTrue, of a client that knows the features as they are.
LEMMA KnownTrue ==
  ASSUME NEW k, (k \subseteq Elements(Features) /\ Elements(Features) \subseteq k) \/ k = Unknown
  PROVE  k # Unknown =>
           /\ {"8BITMIME", "SIZE"} \subseteq k
           /\ "STARTTLS" \in k <=> conn = "plain" /\ config.acceptor
           /\ "AUTH PLAIN LOGIN" \in k <=> config.auth
BY FeaturesAre, Zenon DEF SupportsTls

\* What a client learns at the end of the reply to an EHLO.
LEMMA LearnsAll ==
  ASSUME StepInv, config.name # NoText, FeaturesInPlace, outgoing # <<>>, ~outgoing[1].dash,
         asked[got + 1] = "EHLO", outgoing[1].code = 250
  PROVE  LET lines == Append(partial, outgoing[1])
             told == {lines[i].text : i \in 2 .. Len(lines)}
         IN  told \subseteq Elements(Features) /\ Elements(Features) \subseteq told
<1> DEFINE e == EhloReplies
           p == Len(partial)
           l == outgoing[1]
           lines == Append(partial, l)
           f == Features
<1>1. RepliesTypeOK /\ Chained
  BY DEF StepInv
<1>2. outgoing \in Seq(ReplyLines) /\ partial \in Seq(ReplyLines)
  BY <1>1 DEF RepliesTypeOK
<1>3. p \in Nat /\ DOMAIN partial = 1 .. p /\ 1 \in DOMAIN outgoing /\ l \in ReplyLines
  <2>1. p \in Nat /\ DOMAIN partial = 1 .. p
    BY <1>2, SeqFacts
  <2>2. 1 \in DOMAIN outgoing /\ l \in ReplyLines
    BY <1>2, SeqFacts
  <2> QED
    BY <2>1, <2>2
<1>4. l.to = got + 1
  BY <1>1 DEF Chained
<1>5. InPlace(asked, e, partial, outgoing, rest, read)
  BY PlaceIs
<1>6. /\ e \in Seq(Responses) /\ Len(f) \in Nat /\ Len(e) = Len(f) + 1
      /\ \A i \in 1 .. Len(f) : e[i + 1].text = f[i]
  BY <1>1, EhloFacts, FeaturesAre
<1> HIDE DEF e, f
<1>7. DOMAIN e = 1 .. Len(e)
  BY <1>6, SeqFacts
<1>8. Tells(asked, e, l, p + 1)
  <2>1. p + 1 \in 1 .. p + 1 /\ Nth(outgoing, p, 1, p + 1)
    BY <1>3, NthFirst
  <2> QED
    BY <1>3, <1>5, <2>1 DEF InPlace
<1>9. p + 1 = Len(e) /\ l.text = e[p + 1].text
  <2>1. p + 1 \in DOMAIN e /\ l.text = e[p + 1].text /\ ~(p + 1 < Len(e))
    BY <1>4, <1>8 DEF Tells
  <2> QED
    BY <1>3, <1>6, <1>7, <2>1
<1>10. ASSUME NEW i \in 1 .. p
       PROVE  partial[i].text = e[i].text
  <2>1. Tells(asked, e, partial[i], i)
    BY <1>3, <1>5 DEF InPlace
  <2>2. partial[i].to = got + 1 /\ partial[i].dash
    BY <1>1, <1>3 DEF Chained
  <2> QED
    BY <2>1, <2>2 DEF Tells
<1> HIDE DEF l
<1>11. /\ Len(lines) = p + 1 /\ lines[p + 1] = l
       /\ \A i \in 1 .. p : lines[i] = partial[i]
  BY <1>2, <1>3, AppendFacts
<1> HIDE DEF lines
<1>12. \A i \in 1 .. Len(lines) : lines[i].text = e[i].text
  <2> TAKE i \in 1 .. Len(lines)
  <2>1. i = p + 1 \/ i \in 1 .. p
    BY <1>3, <1>11
  <2> QED
    BY <1>9, <1>10, <1>11, <2>1
<1>13. Len(lines) = Len(f) + 1
  BY <1>6, <1>9, <1>11
<1>14. ASSUME NEW i \in 2 .. Len(lines)
       PROVE  \E j \in 1 .. Len(f) : lines[i].text = f[j]
  <2>1. i - 1 \in 1 .. Len(f) /\ (i - 1) + 1 = i /\ i \in 1 .. Len(lines)
    BY <1>6, <1>13
  <2>2. lines[i].text = f[i - 1]
    BY <1>6, <1>12, <2>1
  <2> QED
    BY <2>1, <2>2
<1>15. ASSUME NEW j \in 1 .. Len(f)
       PROVE  \E i \in 2 .. Len(lines) : lines[i].text = f[j]
  <2>1. j + 1 \in 2 .. Len(lines) /\ j + 1 \in 1 .. Len(lines)
    BY <1>6, <1>13
  <2>2. lines[j + 1].text = f[j]
    BY <1>6, <1>12, <2>1
  <2> QED
    BY <2>1, <2>2
<1> DEFINE told == {lines[i].text : i \in 2 .. Len(lines)}
<1>16. \A t : t \in told <=> \E i \in 2 .. Len(lines) : t = lines[i].text
  OBVIOUS
<1>17. \A t : t \in Elements(f) <=> \E j \in 1 .. Len(f) : t = f[j]
  BY DEF Elements
<1> HIDE DEF told
<1>18. told \subseteq Elements(f)
  BY <1>14, <1>16, <1>17
<1>19. Elements(f) \subseteq told
  BY <1>15, <1>16, <1>17
<1> QED
  BY <1>18, <1>19 DEF told, lines, l, f

LEMMA FeaturesStart ==
  ASSUME RepliesInit
  PROVE  FeaturesInv
<1>1. known = Unknown /\ serving # "handshake"
  BY DEF RepliesInit
<1>2. FeaturesInPlace
  BY PlaceStarts
<1>3. HandshakeForgets
  BY <1>1 DEF HandshakeForgets
<1>4. FeaturesTrue
  BY <1>1 DEF FeaturesTrue
<1> QED
  BY <1>2, <1>3, <1>4 DEF FeaturesInv

LEMMA KnownReadReplyLine ==
  ASSUME StepInv, config.name # NoText, FeaturesInPlace, HandshakeForgets, FeaturesTrue, ReadReplyLine
  PROVE  HandshakeForgets' /\ FeaturesTrue'
<1> DEFINE l == outgoing[1]
           m == Len(outgoing)
           lines == Append(partial, l)
           learnt == {lines[i].text : i \in 2 .. Len(lines)}
<1>1. RepliesTypeOK /\ ServingFits /\ Chained /\ EndsAtSession
  BY DEF StepInv
<1>2. /\ outgoing # <<>> /\ outgoing \in Seq(ReplyLines) /\ got \in Nat
      /\ asked \in Seq(Verbs \cup {"banner"}) /\ read \in 1 .. Len(asked)
  BY <1>1 DEF ReadReplyLine, RepliesTypeOK
<1>3. Len(asked) \in Nat /\ m \in Nat /\ m # 0 /\ l = Head(outgoing) /\ 1 \in DOMAIN outgoing
  <2>1. Len(asked) \in Nat
    BY <1>2, SeqFacts
  <2>2. m \in Nat /\ m # 0 /\ DOMAIN outgoing = 1 .. m
    BY <1>2, SeqFacts
  <2>3. l = Head(outgoing)
    BY <1>2, TailFacts
  <2> QED
    BY <2>1, <2>2, <2>3
<1>4. l.to = got + 1 /\ got + 1 \in 1 .. read /\ got < Len(asked)
  <2>1. l.to = got + 1 /\ l.to \in 1 .. read
    BY <1>1, <1>2, <1>3 DEF Chained, EndsAtSession
  <2> QED
    BY <1>2, <1>3, <2>1
<1>5. /\ UNCHANGED <<config, greeting, conn, serving, rest, read, asked>>
      /\ outgoing' = Tail(outgoing)
  BY DEF ReadReplyLine
<1>6. /\ \/ known' = known \/ known' = Unknown
         \/ known' \subseteq Elements(Features) /\ Elements(Features) \subseteq known'
      /\ ~l.dash /\ asked[got + 1] = "STARTTLS" /\ l.code = 220 => known' = Unknown
  <2>1. CASE l.dash
    BY <1>3, <2>1 DEF ReadReplyLine
  <2>2. CASE ~l.dash
    <3>1. known' = CASE asked[got + 1] = "EHLO" /\ l.code = 250 -> learnt
                     [] asked[got + 1] = "STARTTLS" /\ l.code = 220 -> Unknown
                     [] OTHER -> known
      BY <1>3, <1>4, <2>2 DEF ReadReplyLine
    <3>2. asked[got + 1] = "EHLO" /\ l.code = 250 =>
            learnt \subseteq Elements(Features) /\ Elements(Features) \subseteq learnt
      BY <1>2, <2>2, LearnsAll
    <3> HIDE DEF learnt
    <3> QED
      BY <3>1, <3>2
  <2> QED
    BY <2>1, <2>2
<1>7. FeaturesTrue'
  <2>1. CASE known' = known
    BY <1>5, <2>1 DEF FeaturesTrue, Unknown
  <2>2. CASE \/ known' = Unknown
             \/ known' \subseteq Elements(Features) /\ Elements(Features) \subseteq known'
    <3>1. known' # Unknown =>
            /\ {"8BITMIME", "SIZE"} \subseteq known'
            /\ "STARTTLS" \in known' <=> conn = "plain" /\ config.acceptor
            /\ "AUTH PLAIN LOGIN" \in known' <=> config.auth
      BY <2>2, KnownTrue
    <3> QED
      BY <1>5, <3>1 DEF FeaturesTrue, Unknown
  <2> QED
    BY <1>6, <2>1, <2>2
<1>8. ASSUME serving = "handshake"
      PROVE  IF outgoing' = <<>> THEN known' = Unknown ELSE outgoing'[Len(outgoing')].code = 220
  <2>1. rest = <<>>
    BY <1>1, <1>8 DEF ServingFits, Verbs
  <2>2. asked[read] = "STARTTLS" /\ outgoing[m].code = 220
    BY <1>2, <1>8 DEF HandshakeForgets
  <2>3. read = outgoing[m].to /\ ~outgoing[m].dash
    BY <1>1, <1>2, <2>1 DEF EndsAtSession
  <2>4. /\ Tail(outgoing) \in Seq(ReplyLines) /\ Len(Tail(outgoing)) = m - 1
        /\ \A i \in 1 .. m - 1 : Tail(outgoing)[i] = outgoing[i + 1]
    BY <1>2, TailFacts
  <2>5. CASE m = 1
    <3>1. outgoing' = <<>>
      BY <1>5, <2>4, <2>5, SeqFacts
    <3>2. known' = Unknown
      BY <1>4, <1>6, <2>2, <2>3, <2>5
    <3> QED
      BY <3>1, <3>2
  <2>6. CASE m # 1
    <3> HIDE DEF l, m, lines, learnt
    <3>0. m \in Nat /\ m # 0 /\ m # 1
      BY <1>3, <2>6
    <3>1. m - 1 \in 1 .. m - 1 /\ (m - 1) + 1 = m
      BY <3>0
    <3>2. outgoing'[Len(outgoing')] = outgoing[m]
      BY <1>5, <2>4, <3>1
    <3>3. outgoing' # <<>>
      BY <1>5, <2>4, <3>1, EmptyLen
    <3> QED
      BY <2>2, <3>2, <3>3
  <2> QED
    BY <2>5, <2>6
<1>9. HandshakeForgets'
  <2>1. ASSUME serving = "handshake"
        PROVE  asked[read] = "STARTTLS"
    BY <2>1 DEF HandshakeForgets
  <2> QED
    BY <1>5, <1>8, <2>1 DEF HandshakeForgets, Unknown
<1> QED
  BY <1>7, <1>9

LEMMA KnownReply ==
  ASSUME StepInv, config.name # NoText, HandshakeForgets, FeaturesTrue, Reply
  PROVE  HandshakeForgets' /\ FeaturesTrue'
<1>1. UNCHANGED <<config, conn, read, asked, known>>
  BY DEF Reply, readerVars
<1>2. FeaturesTrue'
  BY <1>1 DEF FeaturesTrue, Unknown
<1>3. RepliesTypeOK /\ ServingFits
  BY DEF StepInv
<1>4. ASSUME serving' = "handshake"
      PROVE  asked[read] = "STARTTLS" /\ outgoing' # <<>> /\ outgoing'[Len(outgoing')].code = 220
  <2>1. rest # <<>> /\ serving # "handshake"
    BY <1>3 DEF Reply, ServingFits, Verbs
  <2>2. serving = "STARTTLS" /\ Head(rest).code = 220
    BY <1>4, <2>1 DEF Reply
  <2>3. /\ rest \in Seq(Responses) /\ outgoing \in Seq(ReplyLines) /\ read \in Nat
    BY <1>3 DEF RepliesTypeOK
  <2>4. Head(rest) \in Responses
    BY <2>1, <2>3, TailFacts
  <2> DEFINE l == Line(Head(rest))
  <2>5. l \in ReplyLines /\ l.code = 220
    BY <2>2, <2>3, <2>4, LineFacts
  <2>6. outgoing' = Append(outgoing, l)
    BY DEF Reply
  <2> HIDE DEF l
  <2>7. Len(outgoing) \in Nat
    BY <2>3, SeqFacts
  <2>8. Len(outgoing') = Len(outgoing) + 1 /\ outgoing'[Len(outgoing) + 1] = l
    BY <2>3, <2>5, <2>6, AppendFacts
  <2>9. outgoing' # <<>>
    BY <2>7, <2>8, EmptyLen
  <2> QED
    BY <1>3, <2>1, <2>2, <2>5, <2>8, <2>9 DEF ServingFits
<1>5. HandshakeForgets'
  BY <1>1, <1>4 DEF HandshakeForgets
<1> QED
  BY <1>2, <1>5

\* FeaturesInv is preserved, as long as StepInv holds.
LEMMA FeaturesKept ==
  ASSUME StepInv, FeaturesInv, RepliesNext
  PROVE  FeaturesInv'
<1>1. config' = config
  BY DEF RepliesNext, ReadCommand, HelloRejected, Reply, TlsHandshake, SendCommand, ReadReplyLine
<1>2. SUFFICES ASSUME config.name # NoText
               PROVE  FeaturesInPlace' /\ HandshakeForgets' /\ FeaturesTrue'
  BY <1>1 DEF FeaturesInv
<1>3. FeaturesInPlace /\ HandshakeForgets /\ FeaturesTrue
  BY <1>2 DEF FeaturesInv
<1>4. CASE ReadCommand
  <2>1. serving' # "handshake"
    <3>1. asked[read + 1] \in Verbs
      BY <1>4 DEF ReadCommand, StepInv, RepliesTypeOK
    <3> QED
      BY <1>4, <3>1 DEF ReadCommand, Verbs
  <2>2. UNCHANGED <<config, conn, known>>
    BY <1>4 DEF ReadCommand, readerVars
  <2>3. HandshakeForgets'
    BY <2>1 DEF HandshakeForgets
  <2>4. FeaturesTrue'
    BY <1>3, <2>2 DEF FeaturesTrue, Unknown
  <2> QED
    BY <1>2, <1>3, <1>4, <2>3, <2>4, PlaceReadCommand
<1>5. CASE Reply
  BY <1>2, <1>3, <1>5, PlaceReply, KnownReply
<1>6. CASE HelloRejected \/ TlsHandshake
  <2>1. CASE Secures
    <3>1. known = Unknown
      BY <1>2, <1>3, <2>1, HandshakeAlone DEF HandshakeForgets, Secures
    <3>2. known' = Unknown /\ serving' # "handshake"
      BY <2>1, <3>1 DEF Secures
    <3> QED
      BY <1>2, <2>1, <3>2, PlaceHandshake DEF HandshakeForgets, FeaturesTrue, Unknown
  <2>2. CASE Closes
    <3>1. FeaturesInPlace'
      <4>1. InPlace(asked, EhloReplies, partial, outgoing, rest, read)
        BY <1>3, PlaceIs
      <4>2. InPlace(asked', EhloReplies', partial', outgoing', rest', read')
        <5>1. SupportsTls' = SupportsTls
          BY <2>2 DEF Closes, SupportsTls
        <5>2. Features' = Features
          BY <2>2, <5>1 DEF Closes, Features
        <5>3. EhloReplies' = EhloReplies
          BY <2>2, <5>2 DEF Closes, EhloReplies
        <5> QED
          BY <2>2, <4>1, <5>3 DEF Closes
      <4> QED
        BY <4>2, PlaceIsThen
    <3> QED
      BY <1>3, <2>2, <3>1 DEF Closes, HandshakeForgets, FeaturesTrue
  <2> QED
    BY <1>6, <2>1, <2>2, ClosesOrSecures
<1>7. CASE SendCommand
  <2>1. UNCHANGED <<config, conn, serving, read, outgoing, known>>
    BY <1>7 DEF SendCommand
  <2>2. asked'[read] = asked[read]
    <3>1. PICK verb \in Verbs : asked' = Append(asked, verb)
      BY <1>7 DEF SendCommand
    <3>2. /\ asked \in Seq(Verbs \cup {"banner"}) /\ verb \in Verbs \cup {"banner"}
          /\ read \in 1 .. Len(asked)
      BY DEF StepInv, RepliesTypeOK
    <3> QED
      BY <3>1, <3>2, AppendFacts
  <2>3. HandshakeForgets'
    BY <1>3, <2>1, <2>2 DEF HandshakeForgets, Unknown
  <2>4. FeaturesTrue'
    BY <1>3, <2>1 DEF FeaturesTrue, Unknown
  <2> QED
    BY <1>2, <1>3, <1>7, <2>3, <2>4, PlaceSendCommand
<1>8. CASE ReadReplyLine
  BY <1>2, <1>3, <1>8, PlaceReadReplyLine, KnownReadReplyLine
<1> QED
  BY <1>4, <1>5, <1>6, <1>7, <1>8 DEF RepliesNext

LEMMA FeaturesHeld == RepliesSpec => []FeaturesInv
<1>1. RepliesInit => FeaturesInv
  BY FeaturesStart
<1>2. StepInv /\ FeaturesInv /\ [RepliesNext]_repliesVars => FeaturesInv'
  <2>1. StepInv /\ FeaturesInv /\ RepliesNext => FeaturesInv'
    BY FeaturesKept
  <2>2. FeaturesInv /\ UNCHANGED repliesVars => FeaturesInv'
    <3> SUFFICES ASSUME FeaturesInv, UNCHANGED repliesVars PROVE FeaturesInv'
      OBVIOUS
    <3>1. FeaturesInPlace => FeaturesInPlace'
      <4>1. EhloReplies' = EhloReplies
        BY SameEhlo DEF repliesVars
      <4> QED
        BY <4>1, PlaceIs, PlaceIsThen DEF repliesVars, readerVars
    <3>2. HandshakeForgets => HandshakeForgets'
      BY DEF repliesVars, HandshakeForgets, Unknown
    <3>3. FeaturesTrue => FeaturesTrue'
      BY DEF repliesVars, FeaturesTrue, Unknown
    <3> QED
      BY <3>1, <3>2, <3>3 DEF FeaturesInv, repliesVars
  <2> QED
    BY <2>1, <2>2
<1>3. RepliesSpec => []StepInv
  BY StepKept
<1> QED
  BY <1>1, <1>2, <1>3, PTL DEF RepliesSpec

\* What a client has been told of the server's features stays true: of the
\* connection as it is now, whatever it sent ahead and however long it waits to read
\* (Session::handle on EHLO and on STARTTLS).
THEOREM ClientKnowsFeatures == RepliesSpec => []FeaturesTrue
<1>1. FeaturesInv => FeaturesTrue
  BY DEF FeaturesInv, FeaturesTrue
<1> QED
  BY <1>1, FeaturesHeld, PTL

--------------------------------------------------------------------------------
(* Replies: a dialog of whole replies *)

\* The client has seen no more replies than were given.
LEMMA SeenGiven ==
  ASSUME StepInv, config.name # NoText
  PROVE  /\ got \in Nat /\ read \in Nat
         /\ got < read \/ (got = read /\ rest = <<>> /\ outgoing = <<>>)
<1>1. RepliesTypeOK /\ Chained /\ EndsAtSession
  BY DEF StepInv
<1>2. got \in Nat /\ read \in Nat /\ outgoing \in Seq(ReplyLines)
  BY <1>1 DEF RepliesTypeOK
<1>3. CASE outgoing = <<>>
  BY <1>1, <1>2, <1>3 DEF EndsAtSession
<1>4. CASE outgoing # <<>>
  <2>1. 1 \in DOMAIN outgoing
    BY <1>2, <1>4, SeqFacts
  <2>2. outgoing[1].to = got + 1 /\ outgoing[1].to \in 1 .. read
    BY <1>1, <1>4, <2>1 DEF Chained, EndsAtSession
  <2> QED
    BY <1>2, <2>2
<1> QED
  BY <1>2, <1>3, <1>4

LEMMA WaitsKept ==
  ASSUME StepInv, FeaturesInv, config.name # NoText, WaitsAfterStarttls, RepliesNext
  PROVE  WaitsAfterStarttls'
<1> DEFINE n == Len(asked)
<1>1. RepliesTypeOK /\ ServingFits /\ HandshakeForgets
  BY DEF StepInv, FeaturesInv
<1>2. /\ asked \in Seq(Verbs \cup {"banner"}) /\ n \in Nat /\ read \in 1 .. n
      /\ \A k \in 2 .. n : asked[k] \in Verbs
  BY <1>1, SeqFacts DEF RepliesTypeOK
<1>3. CASE ReadCommand
  <2>1. /\ serving' = asked[read + 1] /\ read' = read + 1 /\ asked' = asked /\ read < n
    BY <1>3 DEF ReadCommand, readerVars
  <2>2. asked[read + 1] \in Verbs
    BY <1>2, <2>1
  <2>3. asked[read + 1] = "STARTTLS" => read + 1 = n
    BY <1>2, <2>1 DEF WaitsAfterStarttls
  <2> QED
    BY <1>2, <2>1, <2>2, <2>3 DEF WaitsAfterStarttls, Verbs
<1>4. CASE Reply
  <2>1. read' = read /\ asked' = asked
    BY <1>4 DEF Reply, readerVars
  <2>2. serving' \in {"STARTTLS", "handshake"} => serving = "STARTTLS"
    <3>1. CASE rest' # <<>>
      <4>1. serving' = serving /\ rest # <<>>
        BY <1>4, <3>1 DEF Reply
      <4> QED
        BY <1>1, <4>1 DEF ServingFits, Verbs
    <3>2. CASE rest' = <<>>
      BY <1>4, <3>2 DEF Reply
    <3> QED
      BY <3>1, <3>2
  <2> QED
    BY <2>1, <2>2 DEF WaitsAfterStarttls
<1>5. CASE HelloRejected \/ TlsHandshake
  <2>1. CASE Secures
    BY <2>1 DEF Secures, WaitsAfterStarttls
  <2>2. CASE Closes
    BY <2>2 DEF Closes, WaitsAfterStarttls
  <2> QED
    BY <1>5, <2>1, <2>2, ClosesOrSecures
<1>6. CASE SendCommand
  <2>1. PICK verb \in Verbs : asked' = Append(asked, verb)
    BY <1>6 DEF SendCommand
  <2>2. /\ Len(asked') = n + 1 /\ \A k \in 1 .. n : asked'[k] = asked[k]
    <3>1. verb \in Verbs \cup {"banner"}
      OBVIOUS
    <3> QED
      BY <1>2, <2>1, <3>1, AppendFacts
  <2>3. read' = read /\ serving' = serving
    BY <1>6 DEF SendCommand
  <2>4. asked[n] = "STARTTLS" => got >= n /\ serving # "handshake"
    BY <1>6 DEF SendCommand, Last
  <2>5. got \in Nat /\ (got < read \/ (got = read /\ rest = <<>>))
    BY SeenGiven
  <2> HIDE DEF n
  <2>6. asked[n] = "STARTTLS" => n <= read /\ read = got
    BY <1>2, <2>4, <2>5
  <2>7. \A k \in 1 .. (n + 1) - 1 : asked'[k] = "STARTTLS" => k <= read
    <3>1. \A k \in 1 .. n - 1 : asked[k] = "STARTTLS" => k <= read
      BY DEF WaitsAfterStarttls, n
    <3>2. \A k \in 1 .. (n + 1) - 1 : k \in 1 .. n /\ (k \in 1 .. n - 1 \/ k = n)
      BY <1>2
    <3> QED
      BY <2>2, <2>6, <3>1, <3>2
  <2>8. serving \notin {"STARTTLS", "handshake"}
    <3>1. SUFFICES ASSUME serving \in {"STARTTLS", "handshake"} PROVE FALSE
      OBVIOUS
    <3>2. read = n
      BY <3>1 DEF WaitsAfterStarttls, n
    <3>3. CASE serving = "STARTTLS"
      <4>1. rest # <<>> /\ asked[read] = "STARTTLS"
        BY <1>1, <3>3 DEF ServingFits, Verbs
      <4> QED
        BY <1>2, <2>5, <2>6, <3>2, <4>1
    <3>4. CASE serving = "handshake"
      <4>1. asked[read] = "STARTTLS"
        BY <1>1, <3>4 DEF HandshakeForgets
      <4> QED
        BY <2>4, <3>2, <3>4, <4>1
    <3> QED
      BY <3>1, <3>3, <3>4
  <2> QED
    BY <2>2, <2>3, <2>7, <2>8 DEF WaitsAfterStarttls
<1>7. CASE ReadReplyLine
  BY <1>7 DEF ReadReplyLine, WaitsAfterStarttls
<1> QED
  BY <1>3, <1>4, <1>5, <1>6, <1>7 DEF RepliesNext

LEMMA DialogHeld == RepliesSpec => []DialogInv
<1>1. RepliesInit => DialogInv
  <2> SUFFICES ASSUME RepliesInit PROVE DialogInv
    OBVIOUS
  <2>1. Len(asked) = 1
    BY Single DEF RepliesInit
  <2>2. \A k \in 1 .. Len(asked) - 1 : FALSE
    BY <2>1
  <2> QED
    BY <2>2 DEF RepliesInit, DialogInv, WaitsAfterStarttls
<1>2. StepInv /\ FeaturesInv /\ DialogInv /\ [RepliesNext]_repliesVars => DialogInv'
  <2> SUFFICES ASSUME StepInv, FeaturesInv, DialogInv, [RepliesNext]_repliesVars PROVE DialogInv'
    OBVIOUS
  <2>1. CASE RepliesNext
    <3>1. config' = config
      BY <2>1 DEF RepliesNext, ReadCommand, HelloRejected, Reply, TlsHandshake, SendCommand, ReadReplyLine
    <3> QED
      BY <2>1, <3>1, WaitsKept DEF DialogInv
  <2>2. CASE UNCHANGED repliesVars
    BY <2>2 DEF repliesVars, DialogInv, WaitsAfterStarttls
  <2> QED
    BY <2>1, <2>2
<1> QED
  BY <1>1, <1>2, StepKept, FeaturesHeld, PTL DEF RepliesSpec

LEMMA DialogStep ==
  ASSUME StepInv, DialogInv, config.name # NoText, RepliesNext
  PROVE  Talk!DialogNext \/ UNCHANGED <<Len(asked), read, answered, got, conn>>
<1>1. RepliesTypeOK /\ ServingFits /\ Chained /\ EndsAtSession /\ WaitsAfterStarttls
  BY DEF StepInv, DialogInv
<1>2. /\ rest \in Seq(Responses) /\ outgoing \in Seq(ReplyLines)
      /\ asked \in Seq(Verbs \cup {"banner"}) /\ read \in 1 .. Len(asked) /\ Len(asked) \in Nat
      /\ \A k \in 2 .. Len(asked) : asked[k] \in Verbs
  BY <1>1, SeqFacts DEF RepliesTypeOK
<1>g. got \in Nat /\ (got < read \/ (got = read /\ rest = <<>> /\ outgoing = <<>>))
  BY SeenGiven
<1>3. CASE ReadCommand
  <2>1. /\ serving = "nothing" /\ read < Len(asked) /\ read' = read + 1
        /\ rest' = Replies(asked[read + 1])
        /\ asked' = asked /\ got' = got /\ conn' = conn
    BY <1>3 DEF ReadCommand, readerVars
  <2>2. rest = <<>>
    BY <1>1, <2>1 DEF ServingFits, Verbs
  <2>3. rest' # <<>>
    <3>1. asked[read + 1] \in Verbs
      BY <1>2, <2>1
    <3>2. Replies(asked[read + 1]) # <<>>
      BY <1>1, <3>1, WholeReply
    <3> QED
      BY <2>1, <3>2
  <2>4. answered = read /\ answered' = read' - 1
    BY <2>2, <2>3 DEF answered
  <2>5. answered' = answered
    BY <1>2, <2>1, <2>4
  <2> QED
    BY <2>1, <2>4, <2>5 DEF Talk!DialogNext, Talk!Take
<1>4. CASE Reply
  <2>1. /\ rest # <<>> /\ read' = read /\ asked' = asked /\ got' = got /\ conn' = conn
    BY <1>4 DEF Reply, readerVars
  <2>2. CASE rest' # <<>>
    BY <2>1, <2>2 DEF answered
  <2>3. CASE rest' = <<>>
    <3>1. answered = read - 1 /\ answered' = read
      BY <2>1, <2>3 DEF answered
    <3>2. answered < read /\ answered' = answered + 1
      BY <1>2, <3>1
    <3> QED
      BY <2>1, <3>2 DEF Talk!DialogNext, Talk!Answer
  <2> QED
    BY <2>2, <2>3
<1>5. CASE HelloRejected \/ TlsHandshake
  <2>1. CASE Secures
    <3>1. rest = <<>> /\ read = Len(asked)
      BY <1>1, <2>1 DEF Secures, ServingFits, WaitsAfterStarttls, Verbs
    <3>2. answered = read /\ answered' = answered
      BY <2>1, <3>1 DEF Secures, answered
    <3> QED
      BY <2>1, <3>1, <3>2 DEF Secures, Talk!DialogNext, Talk!Secure
  <2>2. CASE Closes
    BY <2>2 DEF Closes, answered
  <2> QED
    BY <1>5, <2>1, <2>2, ClosesOrSecures
<1>6. CASE SendCommand
  <2>1. PICK verb \in Verbs : asked' = Append(asked, verb)
    BY <1>6 DEF SendCommand
  <2>2. Len(asked') = Len(asked) + 1
    <3>1. verb \in Verbs \cup {"banner"}
      OBVIOUS
    <3> QED
      BY <1>2, <2>1, <3>1, AppendFacts
  <2>3. read' = read /\ rest' = rest /\ got' = got /\ conn' = conn
    BY <1>6 DEF SendCommand
  <2>4. answered' = answered
    BY <2>3 DEF answered
  <2> QED
    BY <2>2, <2>3, <2>4 DEF Talk!DialogNext, Talk!Ask
<1>7. CASE ReadReplyLine
  <2>1. /\ outgoing # <<>>
        /\ read' = read /\ rest' = rest /\ asked' = asked /\ conn' = conn
        /\ IF Head(outgoing).dash THEN got' = got ELSE got' = got + 1
    BY <1>7 DEF ReadReplyLine
  <2>2. answered' = answered
    BY <2>1 DEF answered
  <2>3. CASE Head(outgoing).dash
    BY <2>1, <2>2, <2>3
  <2>4. CASE ~Head(outgoing).dash
    <3>1. Head(outgoing) = outgoing[1] /\ 1 \in DOMAIN outgoing
      BY <1>2, <2>1, TailFacts, SeqFacts
    <3>2. outgoing[1].to = got + 1 /\ ~outgoing[1].dash /\ got < read
      BY <1>1, <1>g, <2>1, <2>4, <3>1 DEF Chained
    <3>3. rest # <<>> => got < read - 1
      <4>1. SUFFICES ASSUME rest # <<>> PROVE got < read - 1
        OBVIOUS
      <4> DEFINE n == Len(outgoing)
      <4>2. n \in Nat /\ n # 0 /\ DOMAIN outgoing = 1 .. n
        BY <1>2, <2>1, SeqFacts
      <4>3. read = outgoing[n].to + (IF outgoing[n].dash THEN 0 ELSE 1)
        BY <1>1, <2>1, <4>1 DEF EndsAtSession
      <4>4. CASE n = 1
        BY <1>2, <1>g, <3>2, <4>3, <4>4
      <4>5. CASE n # 1
        <5>1. 1 \in 1 .. n - 1 /\ 2 \in DOMAIN outgoing /\ 1 + 1 = 2
          BY <4>2, <4>5
        <5>2. outgoing[1 + 1].to = outgoing[1].to + (IF outgoing[1].dash THEN 0 ELSE 1)
          BY <1>1, <5>1 DEF Chained
        <5>3. outgoing[2].to = got + 2 /\ outgoing[2].to \in 1 .. read
          BY <1>1, <1>g, <3>2, <5>1, <5>2 DEF EndsAtSession
        <5> QED
          BY <1>2, <1>g, <5>3
      <4> QED
        BY <4>4, <4>5
    <3>4. got < answered
      BY <1>2, <1>g, <3>2, <3>3 DEF answered
    <3> QED
      BY <2>1, <2>2, <2>4, <3>4 DEF Talk!DialogNext, Talk!See
  <2> QED
    BY <2>3, <2>4
<1> QED
  BY <1>3, <1>4, <1>5, <1>6, <1>7 DEF RepliesNext

\* Lines, their marks and a client that reads them make a dialog of whole replies,
\* one for each command and in order, and TLS starts with nothing on its way
\* (Session::reply, Response::line, Session::handle on STARTTLS).
THEOREM DialogImplemented == RepliesSpec => ImplementsDialog
<1>1. RepliesInit => Talk!DialogInit
  <2> SUFFICES ASSUME RepliesInit PROVE Talk!DialogInit
    OBVIOUS
  <2>1. Len(asked) = 1
    BY Single DEF RepliesInit
  <2>2. rest # <<>> /\ read = 1 /\ got = 0 /\ conn = "plain"
    BY DEF RepliesInit
  <2>3. answered = 0
    BY <2>2 DEF answered
  <2> QED
    BY <2>1, <2>2, <2>3 DEF Talk!DialogInit
<1>2. StepInv /\ DialogInv /\ [RepliesNext]_repliesVars
        => [config.name # NoText => Talk!DialogNext]_<<Len(asked), read, answered, got, conn>>
  <2> SUFFICES ASSUME StepInv, DialogInv, [RepliesNext]_repliesVars, config.name # NoText
               PROVE  Talk!DialogNext \/ UNCHANGED <<Len(asked), read, answered, got, conn>>
    OBVIOUS
  <2>1. CASE RepliesNext
    BY <2>1, DialogStep
  <2>2. CASE UNCHANGED repliesVars
    BY <2>2 DEF repliesVars, answered
  <2> QED
    BY <2>1, <2>2
<1> QED
  BY <1>1, <1>2, StepKept, DialogHeld, PTL DEF RepliesSpec, ImplementsDialog

--------------------------------------------------------------------------------
(* Lines: the pieces of a line *)

LEMMA FromFacts ==
  ASSUME NEW T, NEW s \in Seq(T), NEW n \in 1 .. Len(s) + 1
  PROVE  /\ From(n, s) \in Seq(T) /\ Len(From(n, s)) = (Len(s) - n) + 1
         /\ \A i \in 1 .. (Len(s) - n) + 1 : From(n, s)[i] = s[n + i - 1]
<1>1. Len(s) \in Nat /\ Len(s) \in n - 1 .. Len(s)
  BY SeqFacts
<1> QED
  BY <1>1, SubSeqFacts DEF From

\* The end of an end.
LEMMA FromFrom ==
  ASSUME NEW T, NEW s \in Seq(T), NEW n \in 1 .. Len(s) + 1, NEW m \in 1 .. (Len(s) - n) + 2
  PROVE  From(m, From(n, s)) = From(n + m - 1, s)
<1> DEFINE t == From(n, s)
           u == From(n + m - 1, s)
           v == From(m, t)
<1>1. Len(s) \in Nat
  BY SeqFacts
<1>2. /\ t \in Seq(T) /\ Len(t) = (Len(s) - n) + 1
      /\ \A i \in 1 .. (Len(s) - n) + 1 : t[i] = s[n + i - 1]
  BY FromFacts
<1>3. n + m - 1 \in 1 .. Len(s) + 1
  BY <1>1
<1>4. /\ u \in Seq(T) /\ Len(u) = (Len(s) - (n + m - 1)) + 1
      /\ \A i \in 1 .. (Len(s) - (n + m - 1)) + 1 : u[i] = s[(n + m - 1) + i - 1]
  BY <1>3, FromFacts
<1> HIDE DEF t, u
<1>5. m \in 1 .. Len(t) + 1
  BY <1>1, <1>2
<1>6. /\ v \in Seq(T) /\ Len(v) = (Len(t) - m) + 1
      /\ \A i \in 1 .. (Len(t) - m) + 1 : v[i] = t[m + i - 1]
  BY <1>2, <1>5, FromFacts
<1> HIDE DEF v
<1>7. Len(v) = Len(u)
  BY <1>1, <1>2, <1>4, <1>6
<1>8. ASSUME NEW i \in 1 .. Len(v)
      PROVE  v[i] = u[i]
  <2>1. /\ i \in 1 .. (Len(t) - m) + 1 /\ m + i - 1 \in 1 .. (Len(s) - n) + 1
        /\ i \in 1 .. (Len(s) - (n + m - 1)) + 1
        /\ n + (m + i - 1) - 1 = (n + m - 1) + i - 1
    BY <1>1, <1>2, <1>6
  <2> QED
    BY <1>2, <1>4, <1>6, <2>1
<1>9. v = u
  BY <1>4, <1>6, <1>7, <1>8, SeqEqual
<1> QED
  BY <1>9 DEF u, v, t

LEMMA TailIsFrom ==
  ASSUME NEW T, NEW s \in Seq(T), s # <<>>
  PROVE  Tail(s) = From(2, s)
BY TailIsSubSeq DEF From

LEMMA UpperFacts ==
  ASSUME NEW s \in Seq(Tokens)
  PROVE  /\ Uppercase(s) \in Seq(Tokens) /\ Len(Uppercase(s)) = Len(s)
         /\ \A i \in 1 .. Len(s) :
              Uppercase(s)[i] = IF s[i] \in Words THEN Upper[s[i]] ELSE s[i]
<1> DEFINE n == Len(s)
           Up(w) == IF w \in Words THEN Upper[w] ELSE w
           u == [i \in 1 .. n |-> Up(s[i])]
<1>1. n \in Nat /\ DOMAIN s = 1 .. n /\ \A i \in 1 .. n : s[i] \in Tokens
  BY SeqFacts
<1>2. \A w \in Tokens : Up(w) \in Tokens
  BY TokensAssumption DEF Tokens
<1>3. Uppercase(s) = u
  BY <1>1 DEF Uppercase
<1> HIDE DEF Up, n
<1>4. u \in [1 .. n -> Tokens] /\ \A i \in 1 .. n : u[i] = Up(s[i])
  BY <1>1, <1>2
<1>5. u \in Seq(Tokens) /\ Len(u) = n
  BY <1>1, <1>4, ListIsSeq
<1> HIDE DEF u
<1> QED
  BY <1>3, <1>4, <1>5 DEF Up, n

\* A word, as the grammar names it, is not a blank.
LEMMA WordFacts ==
  ASSUME NEW s \in Seq(Tokens), NEW i, NEW name, name \notin Blanks, Word(s, i, name)
  PROVE  i \in 1 .. Len(s) /\ s[i] \in Words /\ Upper[s[i]] = name /\ s[i] \notin Blanks
<1>1. i \in 1 .. Len(s) /\ s[i] \in Tokens
  BY SeqFacts DEF Word
<1>2. name = IF s[i] \in Words THEN Upper[s[i]] ELSE s[i]
  BY <1>1, UpperFacts DEF Word
<1>3. s[i] \in Words
  BY <1>1, <1>2 DEF Tokens
<1> QED
  BY <1>1, <1>2, <1>3, TokensAssumption

LEMMA SingleIs ==
  ASSUME NEW T, NEW s \in Seq(T), NEW e
  PROVE  s = <<e>> <=> Len(s) = 1 /\ s[1] = e
<1> DEFINE v == <<e>>
<1>1. Len(v) = 1 /\ v[1] = e
  OBVIOUS
<1>2. ASSUME Len(s) = 1, s[1] = e
      PROVE  s = v
  <2>1. e \in T
    BY <1>2, SeqFacts
  <2>2. v \in Seq(T)
    BY <2>1
  <2>3. \A i \in 1 .. Len(s) : i = 1
    BY <1>2
  <2> HIDE DEF v
  <2> QED
    BY <1>1, <1>2, <2>2, <2>3, SeqEqual
<1> HIDE DEF v
<1>3. s = v <=> Len(s) = 1 /\ s[1] = e
  BY <1>1, <1>2
<1> QED
  BY <1>3 DEF v

LEMMA UpperOne ==
  ASSUME NEW s \in Seq(Tokens), NEW name
  PROVE  Uppercase(s) = <<name>> <=> Len(s) = 1 /\ Word(s, 1, name)
<1>1. Uppercase(s) \in Seq(Tokens) /\ Len(Uppercase(s)) = Len(s) /\ DOMAIN s = 1 .. Len(s)
  BY UpperFacts, SeqFacts
<1>2. Uppercase(s) = <<name>> <=> Len(s) = 1 /\ Uppercase(s)[1] = name
  BY <1>1, SingleIs
<1> QED
  BY <1>1, <1>2 DEF Word

\* What a command is split in, at the first blank.
LEMMA SplitFacts ==
  ASSUME NEW s \in Seq(Tokens)
  PROVE  /\ SplitOnce(s).head \in Seq(Tokens)
         /\ \A name : name \notin Blanks =>
              (Uppercase(SplitOnce(s).head) = <<name>>
                 <=> Word(s, 1, name) /\ (Len(s) = 1 \/ Blank(s, 2)))
         /\ Len(s) = 1 /\ ~Blank(s, 1) => SplitOnce(s).arg = <<>>
         /\ Blank(s, 2) /\ ~Blank(s, 1) => SplitOnce(s).arg = <<From(3, s)>>
<1> DEFINE spaces == {i \in DOMAIN s : s[i] = "SP"}
           n == Len(s)
           k == Min(spaces)
           head == SplitOnce(s).head
<1>1. n \in Nat /\ DOMAIN s = 1 .. n /\ spaces \subseteq 1 .. n
  BY SeqFacts
<1>2. \A i : i \in spaces <=> Blank(s, i)
  BY DEF Blank
<1>3. CASE spaces = {}
  <2>1. head = s /\ SplitOnce(s).arg = <<>>
    BY <1>3, Zenon DEF SplitOnce
  <2>2. ASSUME NEW name, name \notin Blanks
        PROVE  Uppercase(s) = <<name>> <=> Word(s, 1, name) /\ (n = 1 \/ Blank(s, 2))
    BY <1>2, <1>3, UpperOne
  <2>3. ~Blank(s, 2)
    BY <1>2, <1>3
  <2> HIDE DEF n
  <2> QED
    BY <2>1, <2>2, <2>3 DEF n
<1>4. CASE spaces # {}
  <2>1. head = SubSeq(s, 1, k - 1) /\ SplitOnce(s).arg = <<From(k + 1, s)>>
    BY <1>4, Zenon DEF SplitOnce
  <2>2. k \in spaces /\ \A i \in spaces : k <= i
    BY <1>1, <1>4, MinMaxFacts, Zenon
  <2> HIDE DEF spaces, k, head
  <2>3. k \in 1 .. n /\ s[k] = "SP" /\ Blank(s, k)
    BY <1>1, <1>2, <2>2 DEF spaces
  <2>4. /\ head \in Seq(Tokens) /\ Len(head) = k - 1
        /\ \A i \in 1 .. k - 1 : head[i] = s[i]
    <3>1. 1 \in 1 .. Len(s) + 1 /\ k - 1 \in 1 - 1 .. Len(s)
      BY <1>1, <2>3
    <3>2. /\ SubSeq(s, 1, k - 1) \in Seq(Tokens) /\ Len(SubSeq(s, 1, k - 1)) = ((k - 1) - 1) + 1
          /\ \A i \in 1 .. ((k - 1) - 1) + 1 : SubSeq(s, 1, k - 1)[i] = s[1 + i - 1]
      BY <3>1, SubSeqFacts
    <3>3. ((k - 1) - 1) + 1 = k - 1 /\ \A i \in 1 .. k - 1 : 1 + i - 1 = i
      BY <1>1, <2>3
    <3> QED
      BY <2>1, <3>2, <3>3
  <2>5. k = 2 <=> Blank(s, 2) /\ ~Blank(s, 1)
    <3>1. ASSUME k = 2
          PROVE  Blank(s, 2) /\ ~Blank(s, 1)
      BY <1>2, <2>2, <2>3, <3>1
    <3>2. ASSUME Blank(s, 2), ~Blank(s, 1)
          PROVE  k = 2
      <4>1. k <= 2 /\ k # 1
        BY <1>2, <2>2, <2>3, <3>2
      <4> QED
        BY <1>1, <2>3, <4>1
    <3> QED
      BY <3>1, <3>2
  <2>6. ASSUME NEW name, name \notin Blanks
        PROVE  Uppercase(head) = <<name>> <=> Word(s, 1, name) /\ (n = 1 \/ Blank(s, 2))
    <3>1. Uppercase(head) = <<name>> <=> k = 2 /\ Word(head, 1, name)
      <4>1. Uppercase(head) = <<name>> <=> Len(head) = 1 /\ Word(head, 1, name)
        BY <2>4, UpperOne
      <4>2. Len(head) = 1 <=> k = 2
        BY <1>1, <2>3, <2>4
      <4> QED
        BY <4>1, <4>2
    <3>2. ASSUME k = 2
          PROVE  Word(head, 1, name) <=> Word(s, 1, name)
      <4>1. 1 \in DOMAIN head /\ 1 \in DOMAIN s /\ head[1] = s[1]
        BY <1>1, <2>3, <2>4, <3>2, SeqFacts
      <4>2. Uppercase(head)[1] = Uppercase(s)[1]
        <5>1. 1 \in 1 .. Len(head) /\ 1 \in 1 .. Len(s)
          BY <2>4, <4>1, SeqFacts
        <5>2. Uppercase(head)[1] = IF head[1] \in Words THEN Upper[head[1]] ELSE head[1]
          BY <2>4, <5>1, UpperFacts
        <5>3. Uppercase(s)[1] = IF s[1] \in Words THEN Upper[s[1]] ELSE s[1]
          BY <5>1, UpperFacts
        <5> QED
          BY <4>1, <5>2, <5>3
      <4> QED
        BY <4>1, <4>2 DEF Word
    <3>3. Word(s, 1, name) => ~Blank(s, 1)
      <4>1. SUFFICES ASSUME Word(s, 1, name) PROVE ~Blank(s, 1)
        OBVIOUS
      <4>2. s[1] \notin Blanks
        BY <2>6, <4>1, WordFacts
      <4> QED
        BY <4>2 DEF Blank, Blanks
    <3>4. ~Blank(s, 1) => n # 1
      BY <1>1, <2>3
    <3> QED
      BY <2>5, <3>1, <3>2, <3>3, <3>4
  <2>7. n = 1 => Blank(s, 1)
    BY <1>1, <2>3
  <2>8. Blank(s, 2) /\ ~Blank(s, 1) => SplitOnce(s).arg = <<From(3, s)>>
    BY <2>1, <2>5
  <2> QED
    BY <2>4, <2>6, <2>7, <2>8 DEF head, n
<1> QED
  BY <1>3, <1>4

\* The keywords of the grammar are words, wherever they are.
LEMMA NamesAreWords ==
  \A name \in Names \cup {"PLAIN", "LOGIN", "FROM:", "TO:"} : name \notin Blanks
BY DEF Names, Blanks

\* A line without its end is a line of tokens.
LEMMA BodyFacts ==
  ASSUME NEW s \in Seq(Tokens)
  PROVE  StripNewline(s) \in Seq(Tokens)
<1> DEFINE n == Len(s) - (IF EndsWith(s, <<"CR", "LF">>) THEN 2
                          ELSE IF EndsWith(s, <<"LF">>) THEN 1 ELSE 0)
<1>1. Len(s) \in Nat
  BY SeqFacts
<1>2. EndsWith(s, <<"CR", "LF">>) => Len(s) >= 2
  BY DEF EndsWith
<1>3. EndsWith(s, <<"LF">>) => Len(s) >= 1
  BY DEF EndsWith
<1>4. n \in 1 - 1 .. Len(s) /\ 1 \in 1 .. Len(s) + 1
  BY <1>1, <1>2, <1>3
<1>5. StripNewline(s) = SubSeq(s, 1, n)
  BY DEF StripNewline
<1> HIDE DEF n
<1> QED
  BY <1>4, <1>5, SubSeqFacts

\* The words and the blanks of the end of a line are those of the line.
LEMMA PlacesOfFrom ==
  ASSUME NEW s \in Seq(Tokens), NEW n \in 1 .. Len(s) + 1
  PROVE  /\ \A word : Word(From(n, s), 1, word) <=> Word(s, n, word)
         /\ \A i \in Nat \ {0} : Blank(From(n, s), i) <=> Blank(s, n + i - 1)
<1> DEFINE t == From(n, s)
           m == Len(s)
<1>1. m \in Nat /\ DOMAIN s = 1 .. m
  BY SeqFacts
<1>2. /\ t \in Seq(Tokens) /\ Len(t) = (m - n) + 1
      /\ \A i \in 1 .. (m - n) + 1 : t[i] = s[n + i - 1]
  BY FromFacts
<1>3. DOMAIN t = 1 .. (m - n) + 1
  BY <1>2, SeqFacts
<1>u. /\ \A i \in 1 .. m : Uppercase(s)[i] = IF s[i] \in Words THEN Upper[s[i]] ELSE s[i]
      /\ \A i \in 1 .. (m - n) + 1 : Uppercase(t)[i] = IF t[i] \in Words THEN Upper[t[i]] ELSE t[i]
  <2>1. \A i \in 1 .. m : Uppercase(s)[i] = IF s[i] \in Words THEN Upper[s[i]] ELSE s[i]
    BY UpperFacts
  <2>2. \A i \in 1 .. Len(t) : Uppercase(t)[i] = IF t[i] \in Words THEN Upper[t[i]] ELSE t[i]
    BY <1>2, UpperFacts
  <2> QED
    BY <1>2, <2>1, <2>2
<1> HIDE DEF t, m
<1>r. n \in 1 .. m + 1
  BY DEF m
<1>4. ASSUME NEW i \in Nat \ {0}
      PROVE  Blank(t, i) <=> Blank(s, n + i - 1)
  <2>1. i \in 1 .. (m - n) + 1 <=> n + i - 1 \in 1 .. m
    BY <1>1, <1>r
  <2>2. i \in DOMAIN t <=> n + i - 1 \in DOMAIN s
    BY <1>1, <1>3, <2>1
  <2>3. i \in DOMAIN t => t[i] = s[n + i - 1]
    BY <1>2, <1>3
  <2> QED
    BY <2>2, <2>3 DEF Blank
<1>5. ASSUME NEW word
      PROVE  Word(t, 1, word) <=> Word(s, n, word)
  <2>1. 1 \in DOMAIN t <=> n \in DOMAIN s
    BY <1>1, <1>3, <1>r
  <2>2. ASSUME 1 \in DOMAIN t
        PROVE  Uppercase(t)[1] = Uppercase(s)[n]
    <3>1. 1 \in 1 .. (m - n) + 1 /\ n \in 1 .. m /\ n + 1 - 1 = n
      BY <1>1, <1>3, <1>r, <2>2
    <3>2. t[1] = s[n]
      BY <1>2, <3>1
    <3> QED
      BY <1>u, <3>1, <3>2
  <2> QED
    BY <2>1, <2>2 DEF Word
<1> QED
  BY <1>4, <1>5 DEF t

--------------------------------------------------------------------------------
(* Lines: Command::parse *)

Verb(input) == Uppercase(SplitOnce(StripNewline(input)).head)
Argument(input) == SplitOnce(StripNewline(input)).arg

\* The arms of Command::parse.
LEMMA ByVerb ==
  ASSUME NEW input
  PROVE  /\ Verb(input) = <<"HELO">> => Parse(input) = ParseHello("HELO", Argument(input))
         /\ Verb(input) = <<"EHLO">> => Parse(input) = ParseHello("EHLO", Argument(input))
         /\ Verb(input) = <<"HELP">> => Parse(input) = Command("HELP", <<>>)
         /\ Verb(input) = <<"STARTTLS">> => Parse(input) = NoArgument("STARTTLS", Argument(input))
         /\ Verb(input) = <<"AUTH">> => Parse(input) = ParseAuth(Argument(input))
         /\ Verb(input) = <<"MAIL">> => Parse(input) = ParsePath("MAIL", "FROM:", Argument(input))
         /\ Verb(input) = <<"RCPT">> => Parse(input) = ParsePath("RCPT", "TO:", Argument(input))
         /\ Verb(input) = <<"DATA">> => Parse(input) = NoArgument("DATA", Argument(input))
         /\ Verb(input) = <<"RSET">> => Parse(input) = NoArgument("RSET", Argument(input))
         /\ Verb(input) = <<"NOOP">> => Parse(input) = NoArgument("NOOP", Argument(input))
         /\ Verb(input) = <<"QUIT">> => Parse(input) = NoArgument("QUIT", Argument(input))
         /\ (\A name \in Names : Verb(input) # <<name>>) => Parse(input) = Error
<1> DEFINE verb == Verb(input)
           arg == Argument(input)
           Is(name) == verb = <<name>>
<1>1. Parse(input) = CASE Is("HELO") -> ParseHello("HELO", arg)
                       [] Is("EHLO") -> ParseHello("EHLO", arg)
                       [] Is("HELP") -> Command("HELP", <<>>)
                       [] Is("STARTTLS") -> NoArgument("STARTTLS", arg)
                       [] Is("AUTH") -> ParseAuth(arg)
                       [] Is("MAIL") -> ParsePath("MAIL", "FROM:", arg)
                       [] Is("RCPT") -> ParsePath("RCPT", "TO:", arg)
                       [] Is("DATA") -> NoArgument("DATA", arg)
                       [] Is("RSET") -> NoArgument("RSET", arg)
                       [] Is("NOOP") -> NoArgument("NOOP", arg)
                       [] Is("QUIT") -> NoArgument("QUIT", arg)
                       [] OTHER -> Error
  BY DEF Parse, Verb, Argument
<1>2. \A a, b : Is(a) /\ Is(b) => a = b
  <2>1. \A a : <<a>>[1] = a
    OBVIOUS
  <2> HIDE DEF verb
  <2> QED
    BY <2>1
<1>3. \A name \in Names : Is(name) <=> verb = <<name>>
  OBVIOUS
<1> HIDE DEF verb, arg, Is
<1>4. /\ Is("HELO") => Parse(input) = ParseHello("HELO", arg)
      /\ Is("EHLO") => Parse(input) = ParseHello("EHLO", arg)
      /\ Is("HELP") => Parse(input) = Command("HELP", <<>>)
      /\ Is("STARTTLS") => Parse(input) = NoArgument("STARTTLS", arg)
      /\ Is("AUTH") => Parse(input) = ParseAuth(arg)
      /\ Is("MAIL") => Parse(input) = ParsePath("MAIL", "FROM:", arg)
      /\ Is("RCPT") => Parse(input) = ParsePath("RCPT", "TO:", arg)
      /\ Is("DATA") => Parse(input) = NoArgument("DATA", arg)
      /\ Is("RSET") => Parse(input) = NoArgument("RSET", arg)
      /\ Is("NOOP") => Parse(input) = NoArgument("NOOP", arg)
      /\ Is("QUIT") => Parse(input) = NoArgument("QUIT", arg)
  BY <1>1, <1>2
<1>5. (\A name \in Names : ~Is(name)) => Parse(input) = Error
  BY <1>1 DEF Names
<1> QED
  BY <1>3, <1>4, <1>5, Zenon DEF verb, arg, Is

\* A line that is a command begins with the command's verb.
LEMMA NameOfParse ==
  ASSUME NEW input, NEW name \in Names, Parse(input).name = name
  PROVE  Verb(input) = <<name>>
<1>1. /\ Error.name = "error"
      /\ \A arg : ParseHello("HELO", arg).name \in {"HELO", "error"}
      /\ \A arg : ParseHello("EHLO", arg).name \in {"EHLO", "error"}
      /\ \A arg : ParseAuth(arg).name \in {"AUTH", "error"}
      /\ \A arg : ParsePath("MAIL", "FROM:", arg).name \in {"MAIL", "error"}
      /\ \A arg : ParsePath("RCPT", "TO:", arg).name \in {"RCPT", "error"}
      /\ \A word, arg : NoArgument(word, arg).name \in {word, "error"}
      /\ Command("HELP", <<>>).name = "HELP"
  BY DEF Error, Command, ParseHello, ParseAuth, ParsePath, NoArgument
<1>2. ASSUME NEW said \in Names, Verb(input) = <<said>>
      PROVE  Parse(input).name \in {said, "error"}
  BY <1>1, <1>2, ByVerb DEF Names
<1>3. "error" \notin Names
  BY DEF Names
<1>4. PICK said \in Names : Verb(input) = <<said>>
  <2>1. SUFFICES ASSUME \A said \in Names : Verb(input) # <<said>> PROVE FALSE
    OBVIOUS
  <2>2. Parse(input) = Error
    BY <2>1, ByVerb, Zenon
  <2> QED
    BY <1>1, <1>3, <2>2
<1> QED
  BY <1>2, <1>3, <1>4

\* What stands in a line that begins with a command's verb.
LEMMA Spoken ==
  ASSUME NEW input, StripNewline(input) \in Seq(Tokens), NEW name \in Names
  PROVE  LET body == StripNewline(input) IN
         /\ Verb(input) = <<name>> <=> Word(body, 1, name) /\ (Len(body) = 1 \/ Blank(body, 2))
         /\ Word(body, 1, name) /\ Len(body) = 1 => Argument(input) = <<>>
         /\ Word(body, 1, name) /\ Blank(body, 2) => Argument(input) = <<From(3, body)>>
         /\ Blank(body, 2) => /\ Len(body) \in Nat /\ Len(body) >= 2 /\ From(3, body) \in Seq(Tokens)
                              /\ 3 \in 1 .. Len(body) + 1 /\ Len(From(3, body)) = Len(body) - 2
<1> DEFINE body == StripNewline(input)
<1>1. body \in Seq(Tokens) /\ name \notin Blanks
  BY NamesAreWords
<1> HIDE DEF body
<1>2. Word(body, 1, name) => ~Blank(body, 1)
  BY <1>1, WordFacts DEF Blank, Blanks
<1>3. /\ Uppercase(SplitOnce(body).head) = <<name>>
           <=> Word(body, 1, name) /\ (Len(body) = 1 \/ Blank(body, 2))
      /\ Len(body) = 1 /\ ~Blank(body, 1) => SplitOnce(body).arg = <<>>
      /\ Blank(body, 2) /\ ~Blank(body, 1) => SplitOnce(body).arg = <<From(3, body)>>
  BY <1>1, SplitFacts
<1>4. Blank(body, 2) => /\ Len(body) \in Nat /\ Len(body) >= 2 /\ From(3, body) \in Seq(Tokens)
                        /\ 3 \in 1 .. Len(body) + 1 /\ Len(From(3, body)) = Len(body) - 2
  <2>1. SUFFICES ASSUME Blank(body, 2)
                 PROVE  /\ Len(body) \in Nat /\ Len(body) >= 2 /\ From(3, body) \in Seq(Tokens)
                        /\ 3 \in 1 .. Len(body) + 1 /\ Len(From(3, body)) = Len(body) - 2
    OBVIOUS
  <2>2. Len(body) \in Nat /\ Len(body) >= 2
    BY <1>1, <2>1, SeqFacts DEF Blank
  <2>3. 3 \in 1 .. Len(body) + 1
    BY <2>2
  <2>4. From(3, body) \in Seq(Tokens) /\ Len(From(3, body)) = (Len(body) - 3) + 1
    BY <1>1, <2>3, FromFacts
  <2> QED
    BY <2>2, <2>3, <2>4
<1> QED
  BY <1>2, <1>3, <1>4 DEF body, Verb, Argument

\* STARTTLS, DATA, RSET, NOOP and QUIT take no argument, and HELP any.
LEMMA PlainParsed ==
  ASSUME NEW input, StripNewline(input) \in Seq(Tokens),
         NEW name \in {"STARTTLS", "DATA", "RSET", "NOOP", "QUIT", "HELP"}
  PROVE  Says(StripNewline(input), name) <=> Parse(input).name = name
<1> DEFINE body == StripNewline(input)
<1>1. name \in Names
  BY DEF Names
<1>2. /\ Verb(input) = <<name>> <=> Word(body, 1, name) /\ (Len(body) = 1 \/ Blank(body, 2))
      /\ Word(body, 1, name) /\ Len(body) = 1 => Argument(input) = <<>>
      /\ Word(body, 1, name) /\ Blank(body, 2) => Argument(input) = <<From(3, body)>>
      /\ Blank(body, 2) => Len(body) # 1
  <2>1. /\ Verb(input) = <<name>> <=> Word(body, 1, name) /\ (Len(body) = 1 \/ Blank(body, 2))
        /\ Word(body, 1, name) /\ Len(body) = 1 => Argument(input) = <<>>
        /\ Word(body, 1, name) /\ Blank(body, 2) => Argument(input) = <<From(3, body)>>
    BY <1>1, Spoken
  <2>2. Blank(body, 2) => Len(body) \in Nat /\ Len(body) >= 2
    BY <1>1, Spoken
  <2>3. \A k \in Nat : k >= 2 => k # 1
    OBVIOUS
  <2> QED
    BY <2>1, <2>2, <2>3, Zenon
<1>3. Parse(input).name = name => Verb(input) = <<name>>
  BY <1>1, NameOfParse
<1>4. <<From(3, body)>> # <<>>
  OBVIOUS
<1> HIDE DEF body
<1>5. CASE name = "HELP"
  <2>1. Verb(input) = <<name>> => Parse(input).name = name
    BY <1>5, ByVerb DEF Command
  <2>2. Says(body, name) <=> Word(body, 1, name) /\ (Len(body) = 1 \/ Blank(body, 2))
    BY <1>5 DEF Says
  <2> QED
    BY <1>2, <1>3, <2>1, <2>2 DEF body
<1>6. CASE name # "HELP"
  <2>1. Verb(input) = <<name>> => Parse(input) = NoArgument(name, Argument(input))
    BY <1>6, ByVerb
  <2>2. NoArgument(name, Argument(input)).name = name <=> Argument(input) = <<>>
    BY <1>1 DEF NoArgument, Command, Error, Names
  <2>3. Says(body, name) <=> Word(body, 1, name) /\ Len(body) = 1
    BY <1>6 DEF Says
  <2> QED
    BY <1>2, <1>3, <1>4, <2>1, <2>2, <2>3 DEF body
<1> QED
  BY <1>5, <1>6

LEMMA DecodedFacts ==
  ASSUME NEW s \in Seq(Tokens)
  PROVE  /\ Decoded(s) \in Seq(Tokens \cup {"replacement"}) /\ Len(Decoded(s)) = Len(s)
         /\ \A i \in 1 .. Len(s) :
              Decoded(s)[i] = IF s[i] = "invalid" THEN "replacement" ELSE s[i]
<1> DEFINE D(w) == IF w = "invalid" THEN "replacement" ELSE w
           All == Tokens \cup {"replacement"}
           u == [i \in 1 .. Len(s) |-> D(s[i])]
<1>1. Len(s) \in Nat /\ DOMAIN s = 1 .. Len(s) /\ \A i \in 1 .. Len(s) : s[i] \in Tokens
  BY SeqFacts
<1>2. \A w \in Tokens : D(w) \in All
  OBVIOUS
<1>3. Decoded(s) = u
  BY <1>1 DEF Decoded
<1> HIDE DEF D, All
<1>4. u \in [1 .. Len(s) -> All] /\ \A i \in 1 .. Len(s) : u[i] = D(s[i])
  BY <1>1, <1>2
<1>5. u \in Seq(All) /\ Len(u) = Len(s)
  BY <1>1, <1>4, ListIsSeq
<1> HIDE DEF u
<1> QED
  BY <1>3, <1>4, <1>5 DEF D, All

\* What is decoded is trimmed as it was written.
LEMMA TrimDecoded ==
  ASSUME NEW s \in Seq(Tokens)
  PROVE  Trim(Decoded(s)) = Decoded(Trim(s))
<1> DEFINE D(w) == IF w = "invalid" THEN "replacement" ELSE w
           n == Len(s)
           d == Decoded(s)
           solid == {i \in DOMAIN s : s[i] \notin Blanks}
           All == Tokens \cup {"replacement"}
<1>1. n \in Nat /\ DOMAIN s = 1 .. n /\ \A i \in 1 .. n : s[i] \in Tokens
  BY SeqFacts
<1>2. /\ \A t \in Seq(Tokens) : /\ Decoded(t) \in Seq(All) /\ Len(Decoded(t)) = Len(t)
                                /\ \A i \in 1 .. Len(t) : Decoded(t)[i] = D(t[i])
  BY DecodedFacts
<1>3. d \in Seq(All) /\ Len(d) = n /\ DOMAIN d = 1 .. n /\ \A i \in 1 .. n : d[i] = D(s[i])
  <2>1. d \in Seq(All) /\ Len(d) = n /\ \A i \in 1 .. n : d[i] = D(s[i])
    BY <1>2
  <2> HIDE DEF d, All
  <2>2. DOMAIN d = 1 .. Len(d)
    BY <2>1, SeqFacts
  <2> QED
    BY <2>1, <2>2
<1>4. \A w : D(w) \notin Blanks <=> w \notin Blanks
  BY DEF Blanks
<1>5. solid \subseteq 1 .. n
  BY <1>1
<1> HIDE DEF D
<1>6. {i \in DOMAIN d : d[i] \notin Blanks} = solid
  <2> HIDE DEF d
  <2> QED
    BY <1>1, <1>3, <1>4
<1>7. Trim(s) = IF solid = {} THEN <<>> ELSE SubSeq(s, Min(solid), Max(solid))
  BY DEF Trim
<1>8. Trim(d) = IF solid = {} THEN <<>> ELSE SubSeq(d, Min(solid), Max(solid))
  BY <1>6 DEF Trim
<1> HIDE DEF solid, d, n, All
<1>9. CASE solid = {}
  <2>1. Trim(s) = <<>> /\ Trim(d) = <<>>
    BY <1>7, <1>8, <1>9
  <2>2. <<>> \in Seq(Tokens)
    OBVIOUS
  <2>3. Decoded(<<>>) \in Seq(All) /\ Len(Decoded(<<>>)) = 0
    BY <1>2, <2>2, EmptyLen
  <2>4. Decoded(<<>>) = <<>>
    BY <2>3, SeqFacts
  <2> QED
    BY <2>1, <2>4 DEF d
<1>10. CASE solid # {}
  <2> DEFINE a == Min(solid)
             b == Max(solid)
             cut == SubSeq(s, a, b)
             cutd == SubSeq(d, a, b)
  <2>1. Trim(s) = cut /\ Trim(d) = cutd
    BY <1>7, <1>8, <1>10
  <2>2. a \in solid /\ b \in solid /\ a <= b
    BY <1>1, <1>5, <1>10, MinMaxFacts
  <2> HIDE DEF a, b
  <2>3. a \in 1 .. n + 1 /\ b \in a - 1 .. n
    BY <1>1, <1>5, <2>2
  <2>4. /\ cut \in Seq(Tokens) /\ Len(cut) = (b - a) + 1
        /\ \A i \in 1 .. (b - a) + 1 : cut[i] = s[a + i - 1]
    BY <2>3, SubSeqFacts DEF n
  <2>5. /\ cutd \in Seq(All) /\ Len(cutd) = (b - a) + 1
        /\ \A i \in 1 .. (b - a) + 1 : cutd[i] = d[a + i - 1]
    BY <1>3, <2>3, SubSeqFacts
  <2> HIDE DEF cut, cutd
  <2>6. /\ Decoded(cut) \in Seq(All) /\ Len(Decoded(cut)) = (b - a) + 1
        /\ \A i \in 1 .. (b - a) + 1 : Decoded(cut)[i] = D(cut[i])
    BY <1>2, <2>4
  <2>7. ASSUME NEW i \in 1 .. Len(cutd)
        PROVE  cutd[i] = Decoded(cut)[i]
    <3>1. i \in 1 .. (b - a) + 1 /\ a + i - 1 \in 1 .. n
      BY <1>1, <2>3, <2>5
    <3>2. cutd[i] = d[a + i - 1] /\ cut[i] = s[a + i - 1] /\ Decoded(cut)[i] = D(cut[i])
      BY <2>4, <2>5, <2>6, <3>1
    <3> QED
      BY <1>3, <3>1, <3>2
  <2>8. cutd = Decoded(cut)
    BY <2>5, <2>6, <2>7, SeqEqual
  <2> QED
    BY <2>1, <2>8 DEF d
<1> QED
  BY <1>9, <1>10 DEF d

\* HELO and EHLO carry what follows the verb, without the blanks around it.
LEMMA HelloParsed ==
  ASSUME NEW input, StripNewline(input) \in Seq(Tokens), NEW name \in {"HELO", "EHLO"}
  PROVE  LET body == StripNewline(input) IN
         /\ Says(body, name) <=> Parse(input).name = name
         /\ Parse(input).name = name => Parse(input).data = Decoded(Trim(From(3, body)))
<1> DEFINE body == StripNewline(input)
<1>1. name \in Names
  BY DEF Names
<1>2. /\ Verb(input) = <<name>> <=> Word(body, 1, name) /\ (Len(body) = 1 \/ Blank(body, 2))
      /\ Word(body, 1, name) /\ Len(body) = 1 => Argument(input) = <<>>
      /\ Word(body, 1, name) /\ Blank(body, 2) => Argument(input) = <<From(3, body)>>
      /\ Blank(body, 2) => Len(body) \in Nat /\ Len(body) >= 2 /\ From(3, body) \in Seq(Tokens)
  BY <1>1, Spoken
<1>3. Parse(input).name = name => Verb(input) = <<name>>
  BY <1>1, NameOfParse
<1>4. Verb(input) = <<name>> => Parse(input) = ParseHello(name, Argument(input))
  BY ByVerb
<1>5. Says(body, name) <=> Word(body, 1, name) /\ Blank(body, 2)
  BY DEF Says
<1> HIDE DEF body
<1>6. ASSUME Word(body, 1, name), Blank(body, 2)
      PROVE  Parse(input).name = name /\ Parse(input).data = Decoded(Trim(From(3, body)))
  <2>1. Argument(input) = <<From(3, body)>> /\ Argument(input) # <<>>
    <3>1. <<From(3, body)>> # <<>>
      OBVIOUS
    <3> QED
      BY <1>2, <1>6, <3>1, Zenon
  <2>2. Argument(input)[1] = From(3, body)
    BY <2>1
  <2>3. Parse(input) = Command(name, Trim(Decoded(From(3, body))))
    BY <1>2, <1>4, <1>6, <2>1, <2>2 DEF ParseHello
  <2>4. Trim(Decoded(From(3, body))) = Decoded(Trim(From(3, body)))
    BY <1>2, <1>6, TrimDecoded
  <2> QED
    BY <2>3, <2>4 DEF Command
<1>7. ASSUME Parse(input).name = name
      PROVE  Word(body, 1, name) /\ Blank(body, 2)
  <2>1. Parse(input) = ParseHello(name, Argument(input))
    BY <1>3, <1>4, <1>7
  <2>2. Argument(input) # <<>>
    BY <1>1, <1>7, <2>1 DEF ParseHello, Error, Command, Names
  <2> QED
    BY <1>2, <1>3, <1>7, <2>2
<1> QED
  BY <1>5, <1>6, <1>7 DEF body

\* What follows "FROM:" or "TO:" in the argument.
LEMMA PrefixFacts ==
  ASSUME NEW s \in Seq(Tokens), NEW prefix, 3 \in 1 .. Len(s) + 1
  PROVE  LET path == StripPrefix(From(3, s), prefix) IN
         /\ path # <<>> <=> Word(s, 3, prefix)
         /\ Word(s, 3, prefix) => /\ path = <<From(4, s)>> /\ path[1] = From(4, s)
                                  /\ From(4, s) \in Seq(Tokens)
<1> DEFINE t == From(3, s)
           path == StripPrefix(t, prefix)
<1>1. Len(s) \in Nat /\ DOMAIN s = 1 .. Len(s)
  BY SeqFacts
<1>2. t \in Seq(Tokens) /\ Len(t) = (Len(s) - 3) + 1
  BY FromFacts
<1>3. \A word : Word(t, 1, word) <=> Word(s, 3, word)
  BY PlacesOfFrom
<1> HIDE DEF t
<1>4. Word(t, 1, prefix) <=> t # <<>> /\ Uppercase(t)[1] = prefix
  BY <1>2, SeqFacts DEF Word
<1>5. path = IF Word(t, 1, prefix) THEN <<Tail(t)>> ELSE <<>>
  BY <1>4, Zenon DEF StripPrefix
<1> HIDE DEF path
<1>6. ASSUME Word(s, 3, prefix)
      PROVE  path = <<From(4, s)>> /\ From(4, s) \in Seq(Tokens)
  <2>1. t # <<>> /\ path = <<Tail(t)>>
    BY <1>3, <1>4, <1>5, <1>6, Zenon
  <2>2. 3 \in 1 .. Len(s)
    BY <1>1, <1>6 DEF Word
  <2>3. Tail(t) = From(2, t)
    BY <1>2, <2>1, TailIsFrom
  <2>4. 2 \in 1 .. (Len(s) - 3) + 2 /\ 3 + 2 - 1 = 4 /\ 4 \in 1 .. Len(s) + 1
    BY <1>1, <2>2
  <2>5. From(2, t) = From(3 + 2 - 1, s)
    BY <2>4, FromFrom DEF t
  <2>6. From(4, s) \in Seq(Tokens)
    BY <2>4, FromFacts
  <2> QED
    BY <2>1, <2>3, <2>4, <2>5, <2>6
<1>7. ~Word(s, 3, prefix) => path = <<>>
  BY <1>3, <1>5
<1>8. <<From(4, s)>> # <<>> /\ <<From(4, s)>>[1] = From(4, s)
  OBVIOUS
<1> QED
  BY <1>6, <1>7, <1>8 DEF path, t

\* MAIL and RCPT carry what follows the keyword, without the blanks around it.
LEMMA PathParsed ==
  ASSUME NEW input, StripNewline(input) \in Seq(Tokens), NEW name \in {"MAIL", "RCPT"}
  PROVE  LET body == StripNewline(input) IN
         /\ Says(body, name) <=> Parse(input).name = name
         /\ Parse(input).name = name => /\ Parse(input).data = Decoded(Trim(From(4, body)))
                                        /\ From(4, body) \in Seq(Tokens)
<1> DEFINE body == StripNewline(input)
           prefix == IF name = "MAIL" THEN "FROM:" ELSE "TO:"
           path == StripPrefix(From(3, body), prefix)
<1>0. (name = "MAIL" /\ prefix = "FROM:") \/ (name = "RCPT" /\ prefix = "TO:")
  OBVIOUS
<1> HIDE DEF prefix
<1>1. name \in Names
  BY <1>0 DEF Names
<1>2. /\ Verb(input) = <<name>> <=> Word(body, 1, name) /\ (Len(body) = 1 \/ Blank(body, 2))
      /\ Word(body, 1, name) /\ Len(body) = 1 => Argument(input) = <<>>
      /\ Word(body, 1, name) /\ Blank(body, 2) => Argument(input) = <<From(3, body)>>
      /\ Blank(body, 2) => 3 \in 1 .. Len(body) + 1
  BY <1>1, Spoken
<1>3. Parse(input).name = name => Verb(input) = <<name>>
  BY <1>1, NameOfParse
<1>4. Verb(input) = <<name>> => Parse(input) = ParsePath(name, prefix, Argument(input))
  BY <1>0, ByVerb
<1>5. Says(body, name) <=> Word(body, 1, name) /\ Blank(body, 2) /\ Word(body, 3, prefix)
  <2> HIDE DEF body
  <2> QED
    BY <1>0 DEF Says
<1>6. body \in Seq(Tokens)
  OBVIOUS
<1> HIDE DEF body
<1>7. Blank(body, 2) =>
        /\ path # <<>> <=> Word(body, 3, prefix)
        /\ Word(body, 3, prefix) => path[1] = From(4, body) /\ From(4, body) \in Seq(Tokens)
  BY <1>2, <1>6, PrefixFacts
<1>8. ASSUME Word(body, 1, name), Blank(body, 2)
      PROVE  Parse(input) = IF path = <<>> THEN Error ELSE Command(name, Trim(Decoded(path[1])))
  <2>1. Argument(input) = <<From(3, body)>> /\ Argument(input) # <<>>
    <3>1. <<From(3, body)>> # <<>>
      OBVIOUS
    <3> QED
      BY <1>2, <1>8, <3>1, Zenon
  <2>2. Argument(input)[1] = From(3, body)
    BY <2>1
  <2>3. Parse(input) = ParsePath(name, prefix, Argument(input))
    BY <1>2, <1>4, <1>8
  <2> QED
    BY <2>1, <2>2, <2>3 DEF ParsePath
<1> HIDE DEF path
<1>9. Error.name # name
  BY <1>1 DEF Error, Command, Names
<1>10. ASSUME Word(body, 1, name), Blank(body, 2), Word(body, 3, prefix)
       PROVE  /\ Parse(input).name = name /\ Parse(input).data = Decoded(Trim(From(4, body)))
              /\ From(4, body) \in Seq(Tokens)
  <2>1. Parse(input) = Command(name, Trim(Decoded(From(4, body)))) /\ From(4, body) \in Seq(Tokens)
    BY <1>7, <1>8, <1>10
  <2>2. Trim(Decoded(From(4, body))) = Decoded(Trim(From(4, body)))
    BY <2>1, TrimDecoded
  <2> QED
    BY <2>1, <2>2 DEF Command
<1>11. ASSUME Parse(input).name = name
       PROVE  Word(body, 1, name) /\ Blank(body, 2) /\ Word(body, 3, prefix)
  <2>1. Word(body, 1, name) /\ (Len(body) = 1 \/ Blank(body, 2))
    BY <1>2, <1>3, <1>11
  <2>2. ASSUME ~Blank(body, 2)
        PROVE  FALSE
    <3>1. Argument(input) = <<>>
      BY <1>2, <2>1, <2>2
    <3>2. Parse(input) = Error
      BY <1>3, <1>4, <1>11, <3>1, Zenon DEF ParsePath
    <3> QED
      BY <1>9, <1>11, <3>2
  <2>3. path # <<>>
    BY <1>8, <1>9, <1>11, <2>1, <2>2
  <2> QED
    BY <1>7, <2>1, <2>2, <2>3
<1> QED
  BY <1>5, <1>10, <1>11 DEF body

\* AUTH carries its mechanism, and the initial response as it is.
LEMMA AuthParsed ==
  ASSUME NEW input, StripNewline(input) \in Seq(Tokens)
  PROVE  LET body == StripNewline(input) IN
         /\ Says(body, "AUTH") <=> Parse(input).name = "AUTH"
         /\ Parse(input).name = "AUTH" =>
              Parse(input).data
                = <<Upper[body[3]]>> \o (IF Len(body) = 3 THEN <<>> ELSE <<From(5, body)>>)
<1> DEFINE body == StripNewline(input)
           after == From(3, body)
           mechanism == Uppercase(SplitOnce(after).head)
           response == SplitOnce(after).arg
           Mechanism(word) == Word(body, 3, word) /\ (Len(body) = 3 \/ Blank(body, 4))
<1>1. /\ Verb(input) = <<"AUTH">> <=> Word(body, 1, "AUTH") /\ (Len(body) = 1 \/ Blank(body, 2))
      /\ Word(body, 1, "AUTH") /\ Len(body) = 1 => Argument(input) = <<>>
      /\ Word(body, 1, "AUTH") /\ Blank(body, 2) => Argument(input) = <<From(3, body)>>
      /\ Blank(body, 2) => /\ Len(body) \in Nat /\ Len(body) >= 2 /\ after \in Seq(Tokens)
                           /\ 3 \in 1 .. Len(body) + 1 /\ Len(after) = Len(body) - 2
  <2>1. "AUTH" \in Names
    BY DEF Names
  <2> QED
    BY <2>1, Spoken
<1>2. Parse(input).name = "AUTH" => Verb(input) = <<"AUTH">>
  <2>1. "AUTH" \in Names
    BY DEF Names
  <2> QED
    BY <2>1, NameOfParse
<1>3. Verb(input) = <<"AUTH">> => Parse(input) = ParseAuth(Argument(input))
  BY ByVerb
<1>4. Says(body, "AUTH") <=> /\ Word(body, 1, "AUTH") /\ Blank(body, 2)
                             /\ Mechanism("PLAIN") \/ Mechanism("LOGIN")
  <2> HIDE DEF body
  <2> QED
    BY DEF Says
<1>5. body \in Seq(Tokens)
  OBVIOUS
<1> HIDE DEF body
<1>6. ASSUME Blank(body, 2), NEW word \in {"PLAIN", "LOGIN"}
      PROVE  /\ mechanism = <<word>> <=> Mechanism(word)
             /\ Mechanism(word) =>
                  /\ mechanism = <<Upper[body[3]]>>
                  /\ response = IF Len(body) = 3 THEN <<>> ELSE <<From(5, body)>>
  <2>0. word \notin Blanks
    BY NamesAreWords
  <2>1. /\ Len(body) \in Nat /\ after \in Seq(Tokens)
        /\ 3 \in 1 .. Len(body) + 1 /\ Len(after) = Len(body) - 2
    BY <1>1, <1>6
  <2>2. /\ \A w : Word(after, 1, w) <=> Word(body, 3, w)
        /\ Blank(after, 1) <=> Blank(body, 3)
        /\ Blank(after, 2) <=> Blank(body, 4)
    <3>1. \A w : Word(after, 1, w) <=> Word(body, 3, w)
      BY <1>5, <2>1, PlacesOfFrom
    <3>2. \A i \in Nat \ {0} : Blank(after, i) <=> Blank(body, 3 + i - 1)
      BY <1>5, <2>1, PlacesOfFrom
    <3>3. 3 + 1 - 1 = 3 /\ 3 + 2 - 1 = 4
      OBVIOUS
    <3>4. (Blank(after, 1) <=> Blank(body, 3)) /\ (Blank(after, 2) <=> Blank(body, 4))
      <4> HIDE DEF after
      <4> QED
        BY <3>2, <3>3
    <3> QED
      BY <3>1, <3>4
  <2>3. Blank(body, 4) => Len(body) >= 4 /\ From(3, after) = From(5, body)
    <3>1. SUFFICES ASSUME Blank(body, 4) PROVE Len(body) >= 4 /\ From(3, after) = From(5, body)
      OBVIOUS
    <3>2. 4 \in 1 .. Len(body)
      BY <1>5, <3>1, SeqFacts DEF Blank
    <3>3. 3 \in 1 .. (Len(body) - 3) + 2 /\ 3 + 3 - 1 = 5 /\ Len(body) >= 4
      BY <2>1, <3>2
    <3>4. From(3, after) = From(3 + 3 - 1, body)
      BY <1>5, <2>1, <3>3, FromFrom
    <3> QED
      BY <3>3, <3>4
  <2> HIDE DEF after
  <2>4. /\ mechanism = <<word>> <=> Word(after, 1, word) /\ (Len(after) = 1 \/ Blank(after, 2))
        /\ Len(after) = 1 /\ ~Blank(after, 1) => response = <<>>
        /\ Blank(after, 2) /\ ~Blank(after, 1) => response = <<From(3, after)>>
    BY <2>0, <2>1, SplitFacts
  <2> HIDE DEF mechanism, response
  <2>5. Len(after) = 1 <=> Len(body) = 3
    BY <2>1
  <2>6. mechanism = <<word>> <=> Mechanism(word)
    BY <2>2, <2>4, <2>5
  <2>7. ASSUME Mechanism(word)
        PROVE  /\ mechanism = <<Upper[body[3]]>>
               /\ response = IF Len(body) = 3 THEN <<>> ELSE <<From(5, body)>>
    <3>1. Upper[body[3]] = word /\ body[3] \notin Blanks
      BY <1>5, <2>0, <2>7, WordFacts
    <3>2. ~Blank(body, 3)
      BY <3>1 DEF Blank, Blanks
    <3>3. Len(body) = 3 => response = <<>>
      BY <2>2, <2>4, <2>5, <3>2
    <3>4. Len(body) # 3 => response = <<From(5, body)>>
      BY <2>2, <2>3, <2>4, <2>7, <3>2
    <3> QED
      BY <2>6, <2>7, <3>1, <3>3, <3>4
  <2> QED
    BY <2>6, <2>7
<1>7. ASSUME Word(body, 1, "AUTH"), Blank(body, 2)
      PROVE  Parse(input) = IF mechanism \in {<<"PLAIN">>, <<"LOGIN">>}
                            THEN Command("AUTH", mechanism \o response) ELSE Error
  <2>1. Argument(input) = <<after>> /\ Argument(input) # <<>>
    <3>1. <<after>> # <<>>
      OBVIOUS
    <3> QED
      BY <1>1, <1>7, <3>1, Zenon
  <2> HIDE DEF after
  <2>2. Argument(input)[1] = after
    BY <2>1
  <2>3. Parse(input) = ParseAuth(Argument(input))
    BY <1>1, <1>3, <1>7
  <2> QED
    BY <2>1, <2>2, <2>3, Zenon DEF ParseAuth
<1> HIDE DEF mechanism, response, after, Mechanism
<1>8. Error.name # "AUTH"
  BY DEF Error, Command
<1>9. ASSUME Word(body, 1, "AUTH"), Blank(body, 2), Mechanism("PLAIN") \/ Mechanism("LOGIN")
      PROVE  /\ Parse(input).name = "AUTH"
             /\ Parse(input).data
                  = <<Upper[body[3]]>> \o (IF Len(body) = 3 THEN <<>> ELSE <<From(5, body)>>)
  <2>1. mechanism \in {<<"PLAIN">>, <<"LOGIN">>}
    BY <1>6, <1>9
  <2>2. /\ mechanism = <<Upper[body[3]]>>
        /\ response = IF Len(body) = 3 THEN <<>> ELSE <<From(5, body)>>
    BY <1>6, <1>9
  <2>3. Parse(input) = Command("AUTH", mechanism \o response)
    BY <1>7, <1>9, <2>1
  <2>4. Parse(input).name = "AUTH" /\ Parse(input).data = mechanism \o response
    BY <2>3 DEF Command
  <2> QED
    BY <2>2, <2>4, Zenon
<1>10. ASSUME Parse(input).name = "AUTH"
       PROVE  /\ Word(body, 1, "AUTH") /\ Blank(body, 2)
              /\ Mechanism("PLAIN") \/ Mechanism("LOGIN")
  <2>1. Word(body, 1, "AUTH") /\ (Len(body) = 1 \/ Blank(body, 2))
    BY <1>1, <1>2, <1>10
  <2>2. ASSUME ~Blank(body, 2)
        PROVE  FALSE
    <3>1. Argument(input) = <<>>
      BY <1>1, <2>1, <2>2
    <3>2. Parse(input) = Error
      BY <1>2, <1>3, <1>10, <3>1, Zenon DEF ParseAuth
    <3> QED
      BY <1>8, <1>10, <3>2
  <2>3. mechanism \in {<<"PLAIN">>, <<"LOGIN">>}
    BY <1>7, <1>8, <1>10, <2>1, <2>2
  <2> QED
    BY <1>6, <2>1, <2>2, <2>3
<1> QED
  BY <1>4, <1>9, <1>10 DEF body

LEMMA TrimFacts ==
  ASSUME NEW T, NEW s \in Seq(T)
  PROVE  Trim(s) \in Seq(T)
<1> DEFINE solid == {i \in DOMAIN s : s[i] \notin Blanks}
<1>1. Len(s) \in Nat /\ solid \subseteq 1 .. Len(s)
  BY SeqFacts
<1>2. Trim(s) = IF solid = {} THEN <<>> ELSE SubSeq(s, Min(solid), Max(solid))
  BY DEF Trim
<1> HIDE DEF solid
<1>3. CASE solid = {}
  <2>1. Trim(s) = <<>>
    BY <1>2, <1>3
  <2> QED
    BY <2>1
<1>4. CASE solid # {}
  <2>1. Min(solid) \in solid /\ Max(solid) \in solid /\ Min(solid) <= Max(solid)
    BY <1>1, <1>4, MinMaxFacts
  <2>2. ASSUME NEW a \in solid, NEW b \in solid, a <= b
        PROVE  a \in 1 .. Len(s) + 1 /\ b \in a - 1 .. Len(s)
    <3>1. a \in 1 .. Len(s) /\ b \in 1 .. Len(s)
      BY <1>1
    <3> QED
      BY <1>1, <2>2, <3>1
  <2>3. SubSeq(s, Min(solid), Max(solid)) \in Seq(T)
    BY <2>1, <2>2, SubSeqFacts
  <2> QED
    BY <1>2, <1>4, <2>3
<1> QED
  BY <1>3, <1>4

\* An address loses the brackets and the blanks around it, in whatever order
\* they are.
LEMMA BareAddress ==
  ASSUME NEW T, NEW d \in Seq(T), NEW word, word \notin Blanks, word # "<", word # ">",
         Cardinality({i \in DOMAIN d : d[i] = word}) = 1,
         \A i \in DOMAIN d : \/ d[i] \in Blanks \cup {word}
                             \/ d[i] = "<" /\ i = 1
                             \/ d[i] = ">" /\ i = Len(d)
  PROVE  NormalizeAddress(d) = <<word>>
<1> DEFINE n == Len(d)
           places == {i \in DOMAIN d : d[i] = word}
           solid == {i \in DOMAIN d : d[i] \notin Blanks}
           lo == Min(solid)
           hi == Max(solid)
           Piece(t, a, b) == /\ t \in Seq(T) /\ Len(t) = (b - a) + 1
                             /\ \A i \in 1 .. (b - a) + 1 : t[i] = d[(a + i) - 1]
<1>1. n \in Nat /\ DOMAIN d = 1 .. n
  BY SeqFacts
<1>2. PICK k \in 1 .. n : d[k] = word /\ \A i \in 1 .. n : d[i] = word => i = k
  <2>1. IsFiniteSet(places)
    <3>1. IsFiniteSet(1 .. n) /\ places \subseteq 1 .. n
      BY <1>1, FS_Interval
    <3> QED
      BY <3>1, FS_Subset
  <2>2. PICK k : places = {k}
    BY <2>1, FS_Singleton
  <2>3. k \in 1 .. n /\ d[k] = word /\ \A i \in 1 .. n : d[i] = word => i = k
    <3>1. k \in places /\ \A i \in places : i = k
      BY <2>2
    <3> QED
      BY <1>1, <3>1
  <2> QED
    BY <2>3
<1>3. \A i \in 1 .. n : \/ d[i] \in Blanks \cup {word}
                        \/ d[i] = "<" /\ i = 1
                        \/ d[i] = ">" /\ i = n
  BY <1>1
<1>4. "<" \notin Blanks /\ ">" \notin Blanks
  BY DEF Blanks
<1>5. \A i \in 1 .. n : i # k => \/ d[i] \in Blanks
                                 \/ d[i] = "<" /\ i = 1
                                 \/ d[i] = ">" /\ i = n
  BY <1>2, <1>3
<1>6. \A i : i \in solid <=> i \in 1 .. n /\ d[i] \notin Blanks
  BY <1>1
<1>7. Trim(d) = IF solid = {} THEN <<>> ELSE SubSeq(d, lo, hi)
  BY DEF Trim
<1> HIDE DEF solid
<1>8. k \in solid /\ solid \subseteq 1 .. n
  BY <1>2, <1>6
<1>9. /\ lo \in solid /\ \A x \in solid : lo <= x
      /\ hi \in solid /\ \A x \in solid : x <= hi
  BY <1>1, <1>8, MinMaxFacts
<1> HIDE DEF lo, hi
<1>10. lo \in 1 .. n /\ hi \in 1 .. n /\ lo <= k /\ k <= hi
  BY <1>8, <1>9
<1> HIDE DEF n
<1>11. \/ lo = k
       \/ lo # k /\ lo = 1 /\ d[lo] = "<"
  <2>1. d[lo] \notin Blanks
    BY <1>6, <1>9
  <2>2. lo # k => \/ d[lo] = "<" /\ lo = 1
                  \/ lo = n
    BY <1>5, <1>10, <2>1
  <2>3. lo = n => lo = k
    BY <1>1, <1>10
  <2> QED
    BY <2>2, <2>3
<1>12. \/ hi = k
       \/ hi # k /\ hi = n /\ d[hi] = ">"
  <2>1. d[hi] \notin Blanks
    BY <1>6, <1>9
  <2>2. hi # k => \/ d[hi] = ">" /\ hi = n
                  \/ hi = 1
    BY <1>5, <1>10, <2>1
  <2>3. hi = 1 => hi = k
    BY <1>1, <1>10
  <2> QED
    BY <2>2, <2>3
<1> DEFINE bare == Trim(d)
           opened == IF bare # <<>> /\ bare[1] = "<" THEN Tail(bare) ELSE bare
           closed == IF EndsWith(opened, <<">">>) THEN SubSeq(opened, 1, Len(opened) - 1)
                     ELSE opened
           p == IF lo = k THEN k ELSE lo + 1
           q == IF hi = k THEN k ELSE hi - 1
<1>13. NormalizeAddress(d) = Trim(closed)
  BY Zenon DEF NormalizeAddress
<1>14. /\ p \in 1 .. k /\ \A i \in p .. k - 1 : d[i] \in Blanks
       /\ q \in k .. n /\ \A i \in k + 1 .. q : d[i] \in Blanks
  <2>1. p \in 1 .. k /\ q \in k .. n
    BY <1>1, <1>10, <1>11, <1>12
  <2>2. \A i \in p .. k - 1 : i \in 1 .. n /\ i # k /\ i # 1 /\ i # n
    BY <1>1, <1>10, <1>11, <2>1
  <2>3. \A i \in k + 1 .. q : i \in 1 .. n /\ i # k /\ i # 1 /\ i # n
    BY <1>1, <1>10, <1>12, <2>1
  <2> QED
    BY <1>5, <2>1, <2>2, <2>3
<1>15. Piece(bare, lo, hi)
  <2>1. lo \in 1 .. Len(d) + 1 /\ hi \in lo - 1 .. Len(d)
    BY <1>1, <1>10 DEF n
  <2>2. /\ SubSeq(d, lo, hi) \in Seq(T) /\ Len(SubSeq(d, lo, hi)) = (hi - lo) + 1
        /\ \A i \in 1 .. (hi - lo) + 1 : SubSeq(d, lo, hi)[i] = d[lo + i - 1]
    BY <2>1, SubSeqFacts
  <2>3. bare = SubSeq(d, lo, hi)
    BY <1>7, <1>8, Zenon
  <2> HIDE DEF bare
  <2> QED
    BY <2>2, <2>3
<1> HIDE DEF bare, Piece
<1>16. bare # <<>> /\ bare[1] = d[lo]
  <2>1. 1 \in 1 .. (hi - lo) + 1 /\ (lo + 1) - 1 = lo /\ (hi - lo) + 1 > 0
    BY <1>1, <1>10
  <2> QED
    BY <1>15, <2>1, EmptyLen DEF Piece
<1>17. Piece(opened, p, hi)
  <2>1. CASE lo = k
    <3>1. opened = bare /\ p = lo
      BY <1>2, <1>16, <2>1
    <3> QED
      BY <1>15, <3>1, Zenon
  <2>2. CASE lo # k
    <3>1. opened = Tail(bare) /\ p = lo + 1
      BY <1>11, <1>16, <2>2
    <3>2. /\ Tail(bare) \in Seq(T) /\ Len(Tail(bare)) = Len(bare) - 1
          /\ \A i \in 1 .. Len(bare) - 1 : Tail(bare)[i] = bare[i + 1]
      BY <1>15, <1>16, TailFacts DEF Piece
    <3>3. Len(bare) = (hi - lo) + 1 /\ \A i \in 1 .. (hi - lo) + 1 : bare[i] = d[(lo + i) - 1]
      BY <1>15 DEF Piece
    <3> HIDE DEF opened, p
    <3>4. ASSUME NEW i \in 1 .. (hi - p) + 1
          PROVE  Tail(bare)[i] = d[(p + i) - 1]
      <4>1. /\ i \in 1 .. Len(bare) - 1 /\ i + 1 \in 1 .. (hi - lo) + 1
            /\ (lo + (i + 1)) - 1 = (p + i) - 1
        BY <1>10, <3>1, <3>3
      <4> QED
        BY <3>2, <3>3, <4>1
    <3>5. Len(bare) - 1 = (hi - p) + 1
      BY <1>10, <3>1, <3>3
    <3>6. Piece(Tail(bare), p, hi)
      BY <3>2, <3>4, <3>5 DEF Piece
    <3> QED
      BY <3>1, <3>6
  <2> QED
    BY <2>1, <2>2
<1> HIDE DEF opened
<1>18. EndsWith(opened, <<">">>) <=> hi # k
  <2> DEFINE m == Len(opened)
             last == From(m, opened)
  <2>1. /\ opened \in Seq(T) /\ m = (hi - p) + 1
        /\ \A i \in 1 .. (hi - p) + 1 : opened[i] = d[(p + i) - 1]
    BY <1>17 DEF Piece
  <2> HIDE DEF m, p
  <2>2. m \in 1 .. m + 1 /\ m \in 1 .. (hi - p) + 1 /\ (p + m) - 1 = hi /\ m >= 1 /\ (m - 1) + 1 = m
        /\ (m - m) + 1 = 1
    BY <1>1, <1>10, <1>14, <2>1
  <2>3. last \in Seq(T) /\ Len(last) = 1 /\ last[1] = opened[m]
    <3>1. m \in 1 .. Len(opened) + 1
      BY <2>2 DEF m
    <3>2. /\ last \in Seq(T) /\ Len(last) = (m - m) + 1
          /\ \A i \in 1 .. (m - m) + 1 : last[i] = opened[m + i - 1]
      BY <2>1, <3>1, FromFacts DEF m
    <3>3. 1 \in 1 .. (m - m) + 1 /\ m + 1 - 1 = m
      BY <2>2
    <3> HIDE DEF last
    <3> QED
      BY <2>2, <3>2, <3>3
  <2>4. last = <<">">> <=> opened[m] = ">"
    BY <2>3, SingleIs
  <2>5. opened[m] = d[hi]
    BY <2>1, <2>2
  <2>6. d[hi] = ">" <=> hi # k
    BY <1>2, <1>12
  <2>7. EndsWith(opened, <<">">>) <=> m >= 1 /\ last = <<">">>
    <3>1. Len(<<">">>) = 1
      OBVIOUS
    <3>2. EndsWith(opened, <<">">>) <=> m >= 1 /\ From((m - 1) + 1, opened) = <<">">>
      BY <3>1 DEF EndsWith, m
    <3> QED
      BY <2>2, <3>2
  <2> QED
    BY <2>2, <2>4, <2>5, <2>6, <2>7
<1>19. Piece(closed, p, q)
  <2>1. CASE hi = k
    <3>1. closed = opened /\ q = hi
      BY <1>18, <2>1
    <3> QED
      BY <1>17, <3>1, Zenon
  <2>2. CASE hi # k
    <3> DEFINE m == Len(opened)
               cut == SubSeq(opened, 1, m - 1)
    <3>1. closed = cut /\ q = hi - 1
      BY <1>18, <2>2
    <3>2. /\ opened \in Seq(T) /\ m = (hi - p) + 1
          /\ \A i \in 1 .. (hi - p) + 1 : opened[i] = d[(p + i) - 1]
      BY <1>17 DEF Piece
    <3> HIDE DEF closed, p, q
    <3>3. 1 \in 1 .. m + 1 /\ m - 1 \in 1 - 1 .. m /\ ((m - 1) - 1) + 1 = (q - p) + 1
      BY <1>1, <1>10, <1>14, <3>1, <3>2
    <3>4. /\ cut \in Seq(T) /\ Len(cut) = ((m - 1) - 1) + 1
          /\ \A i \in 1 .. ((m - 1) - 1) + 1 : cut[i] = opened[1 + i - 1]
      BY <3>2, <3>3, SubSeqFacts
    <3> HIDE DEF cut
    <3>5. ASSUME NEW i \in 1 .. (q - p) + 1
          PROVE  cut[i] = d[(p + i) - 1]
      <4>1. i \in 1 .. ((m - 1) - 1) + 1 /\ 1 + i - 1 = i /\ i \in 1 .. (hi - p) + 1
        BY <1>1, <1>10, <1>14, <3>1, <3>3
      <4> HIDE DEF m
      <4> QED
        BY <3>2, <3>4, <4>1
    <3>6. Len(cut) = (q - p) + 1
      BY <3>3, <3>4
    <3>7. Piece(cut, p, q)
      BY <3>4, <3>5, <3>6 DEF Piece
    <3> QED
      BY <3>1, <3>7
  <2> QED
    BY <2>1, <2>2
<1> HIDE DEF closed, p, q
<1> DEFINE j == (k - p) + 1
           left == {i \in DOMAIN closed : closed[i] \notin Blanks}
<1>20. /\ closed \in Seq(T) /\ Len(closed) = (q - p) + 1
       /\ \A i \in 1 .. (q - p) + 1 : closed[i] = d[(p + i) - 1]
  BY <1>19 DEF Piece
<1>21. DOMAIN closed = 1 .. (q - p) + 1
  BY <1>20, SeqFacts
<1>22. j \in 1 .. (q - p) + 1 /\ (p + j) - 1 = k
  BY <1>1, <1>14
<1>23. closed[j] = word
  <2> HIDE DEF j
  <2> QED
    BY <1>2, <1>20, <1>22
<1>24. ASSUME NEW i \in 1 .. (q - p) + 1, i # j
       PROVE  closed[i] \in Blanks
  <2>1. (p + i) - 1 \in p .. k - 1 \/ (p + i) - 1 \in k + 1 .. q
    BY <1>1, <1>14, <1>24
  <2> HIDE DEF j
  <2> QED
    BY <1>14, <1>20, <2>1
<1>25. j \in left /\ \A i \in left : i = j
  <2> HIDE DEF j
  <2> QED
    BY <1>21, <1>22, <1>23, <1>24
<1>26. Trim(closed) = IF left = {} THEN <<>> ELSE SubSeq(closed, Min(left), Max(left))
  BY DEF Trim
<1>27. (q - p) + 1 \in Nat /\ left \subseteq 1 .. (q - p) + 1
  BY <1>1, <1>14, <1>21
<1> HIDE DEF left, j
<1>28. Min(left) = j /\ Max(left) = j
  BY <1>25, <1>27, MinMaxFacts
<1>29. Trim(closed) = SubSeq(closed, j, j)
  BY <1>25, <1>26, <1>28
<1>30. /\ SubSeq(closed, j, j) \in Seq(T) /\ Len(SubSeq(closed, j, j)) = 1
       /\ SubSeq(closed, j, j)[1] = closed[j]
  <2>1. j \in 1 .. Len(closed) + 1 /\ j \in j - 1 .. Len(closed)
    BY <1>20, <1>22, <1>27
  <2>2. /\ SubSeq(closed, j, j) \in Seq(T) /\ Len(SubSeq(closed, j, j)) = (j - j) + 1
        /\ \A i \in 1 .. (j - j) + 1 : SubSeq(closed, j, j)[i] = closed[j + i - 1]
    BY <1>20, <2>1, SubSeqFacts
  <2>3. (j - j) + 1 = 1 /\ 1 \in 1 .. (j - j) + 1 /\ j + 1 - 1 = j
    BY <1>22
  <2> QED
    BY <2>2, <2>3
<1> QED
  BY <1>13, <1>23, <1>29, <1>30, SingleIs

--------------------------------------------------------------------------------
(* Lines: what a client writes *)

\* What the client writes is tokens.
LineTypeOK == written \in Seq(Tokens)

LEMMA LineTyped == LineSpec => []LineTypeOK
<1>1. ASSUME LineInit
      PROVE  LineTypeOK
  <2>1. PICK token \in Openers : written = <<token>>
    BY <1>1 DEF LineInit
  <2>2. token \in Tokens
    BY TokensAssumption
  <2>3. <<token>> \in Seq(Tokens)
    BY <2>2, Single
  <2> QED
    BY <2>1, <2>3 DEF LineTypeOK
<1>2. ASSUME LineTypeOK, [LineNext]_written
      PROVE  LineTypeOK'
  <2>1. CASE Write
    <3>1. PICK piece \in Pieces : written' = written \o piece
      BY <2>1 DEF Write
    <3>2. written \in Seq(Tokens) /\ piece \in Seq(Tokens)
      BY <1>2, TokensAssumption DEF LineTypeOK
    <3>3. written \o piece \in Seq(Tokens)
      BY <3>2, ConcatFacts
    <3> QED
      BY <3>1, <3>3 DEF LineTypeOK
  <2>2. CASE NextLine
    <3>1. PICK token \in Openers : written' = <<token>>
      BY <2>2 DEF NextLine
    <3>2. token \in Tokens
      BY TokensAssumption
    <3>3. <<token>> \in Seq(Tokens)
      BY <3>2, Single
    <3> QED
      BY <3>1, <3>3 DEF LineTypeOK
  <2>3. CASE UNCHANGED written
    BY <1>2, <2>3 DEF LineTypeOK
  <2> QED
    BY <1>2, <2>1, <2>2, <2>3 DEF LineNext
<1> QED
  BY <1>1, <1>2, PTL DEF LineSpec

\* Every line of any words, whatever their case and whichever its end, is the
\* command that the grammar says and carries what the grammar says, or none
\* (Command::parse).
THEOREM LinesParse == LineSpec => []ParsesAsWritten
<1>1. ASSUME LineTypeOK
      PROVE  ParsesAsWritten
  <2> DEFINE body == StripNewline(written)
             command == Parse(written)
  <2>1. body \in Seq(Tokens)
    BY <1>1, BodyFacts DEF LineTypeOK
  <2>2. ASSUME NEW name \in Names
        PROVE  Says(body, name) <=> command.name = name
    <3>1. \/ name \in {"STARTTLS", "DATA", "RSET", "NOOP", "QUIT", "HELP"}
          \/ name \in {"HELO", "EHLO"} \/ name = "MAIL" \/ name = "RCPT" \/ name = "AUTH"
      BY DEF Names
    <3>2. name \in {"STARTTLS", "DATA", "RSET", "NOOP", "QUIT", "HELP"}
            => (Says(body, name) <=> command.name = name)
      BY <2>1, PlainParsed
    <3>3. name \in {"HELO", "EHLO"} => (Says(body, name) <=> command.name = name)
      BY <2>1, HelloParsed
    <3>4. name = "MAIL" => (Says(body, name) <=> command.name = name)
      BY <2>1, PathParsed
    <3>5. name = "RCPT" => (Says(body, name) <=> command.name = name)
      BY <2>1, PathParsed
    <3>6. name = "AUTH" => (Says(body, name) <=> command.name = name)
      BY <2>1, AuthParsed
    <3> HIDE DEF body, command
    <3> QED
      BY <3>1, <3>2, <3>3, <3>4, <3>5, <3>6
  <2>3. command.name = "MAIL" => command.data = Decoded(Trim(From(4, body)))
    BY <2>1, PathParsed
  <2>4. command.name = "RCPT" => command.data = Decoded(Trim(From(4, body)))
    BY <2>1, PathParsed
  <2>5. command.name = "HELO" => command.data = Decoded(Trim(From(3, body)))
    BY <2>1, HelloParsed
  <2>6. command.name = "EHLO" => command.data = Decoded(Trim(From(3, body)))
    BY <2>1, HelloParsed
  <2>7. command.name = "AUTH" =>
          command.data = <<Upper[body[3]]>> \o (IF Len(body) = 3 THEN <<>> ELSE <<From(5, body)>>)
    BY <2>1, AuthParsed
  <2>8. /\ command.name \in {"MAIL", "RCPT"} => command.data = Decoded(Trim(From(4, body)))
        /\ command.name \in {"HELO", "EHLO"} => command.data = Decoded(Trim(From(3, body)))
    <3> HIDE DEF command, body
    <3> QED
      BY <2>3, <2>4, <2>5, <2>6
  <2> QED
    BY <2>2, <2>7, <2>8, Zenon DEF ParsesAsWritten
<1> QED
  BY <1>1, LineTyped, PTL

\* The address of MAIL and RCPT that becomes the mail's is the bare one, of any
\* words, however many blanks and whichever of the brackets are around it
\* (Command::parse and Mail::normalize_address).
THEOREM AddressesAreBare == LineSpec => []AddressIsBare
<1>1. ASSUME LineTypeOK
      PROVE  AddressIsBare
  <2> DEFINE body == StripNewline(written)
             command == Parse(written)
             data == command.data
             All == Tokens \cup {"replacement"}
             Dressed(word) ==
               /\ Cardinality({i \in DOMAIN data : data[i] = word}) = 1
               /\ \A i \in DOMAIN data :
                    \/ data[i] \in Blanks \cup {word}
                    \/ data[i] = "<" /\ i = 1
                    \/ data[i] = ">" /\ i = Len(data)
  <2>1. body \in Seq(Tokens)
    BY <1>1, BodyFacts DEF LineTypeOK
  <2>2. ASSUME command.name \in {"MAIL", "RCPT"}
        PROVE  data \in Seq(All)
    <3>1. data = Decoded(Trim(From(4, body))) /\ From(4, body) \in Seq(Tokens)
      <4>1. command.name = "MAIL"
              => data = Decoded(Trim(From(4, body))) /\ From(4, body) \in Seq(Tokens)
        BY <2>1, PathParsed
      <4>2. command.name = "RCPT"
              => data = Decoded(Trim(From(4, body))) /\ From(4, body) \in Seq(Tokens)
        BY <2>1, PathParsed
      <4> QED
        BY <2>2, <4>1, <4>2, Zenon
    <3>2. Trim(From(4, body)) \in Seq(Tokens)
      BY <3>1, TrimFacts
    <3>3. Decoded(Trim(From(4, body))) \in Seq(All)
      BY <3>2, DecodedFacts
    <3> QED
      BY <3>1, <3>3, Zenon
  <2>3. ASSUME command.name \in {"MAIL", "RCPT"}, NEW word \in Words \ {"<", ">"}, Dressed(word)
        PROVE  NormalizeAddress(data) = <<word>>
    <3>1. word \notin Blanks /\ word # "<" /\ word # ">"
      BY TokensAssumption
    <3>2. data \in Seq(All)
      BY <2>2, <2>3
    <3> HIDE DEF data, All
    <3> QED
      BY <2>3, <3>1, <3>2, BareAddress
  <2> QED
    BY <2>3, Zenon DEF AddressIsBare
<1> QED
  BY <1>1, LineTyped, PTL
================================================================================
