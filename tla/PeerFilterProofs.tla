---------------------------- MODULE PeerFilterProofs ----------------------------
(* The theorems about PeerFilter, for every set of rules.                     *)
EXTENDS PeerFilter, FiniteSetTheorems, WellFoundedInduction, SequenceTheorems, TLAPS

\* Numbers of a set that is not empty have a least one.
LEMMA LeastNumber ==
  ASSUME NEW S, S \subseteq Nat, S # {}
  PROVE  \E n \in S : \A m \in S : n <= m
<1>1. PICK n \in S : \A m \in S : ~(<<m, n>> \in OpToRel(<, Nat))
  BY WFMin, NatLessThanWellFounded, Zenon
<1>2. \A m \in S : ~(m < n)
  BY <1>1, Zenon DEF OpToRel
<1> QED
  BY <1>2

LEMMA ListIsSeq ==
  ASSUME NEW S, NEW n \in Nat, NEW s \in [1 .. n -> S]
  PROVE  s \in Seq(S)
<1>1. [1 .. n -> S] \in {[1 .. m -> S] : m \in Nat}
  OBVIOUS
<1>2. s \in UNION {[1 .. m -> S] : m \in Nat}
  BY <1>1, Zenon
<1> QED
  BY <1>2, SeqDef, Zenon

LEMMA RuleType ==
  ASSUME NEW rule \in FilterRules
  PROVE  /\ rule.action \in PeerActions
         /\ rule.target.len \in 0 .. 128
         /\ Ord(rule) \in 0 .. 257
<1>1. rule \in [action : PeerActions, target : Nets]
  BY FilterRulesAssumption
<1>2. rule.action \in PeerActions /\ rule.target \in Nets
  BY <1>1
<1>3. PICK f \in DOMAIN Width : rule.target \in [family : {f}, addr : Addrs(f), len : 0 .. Width[f]]
  BY <1>2 DEF Nets
<1>4. Width[f] \in 0 .. 128
  BY WidthAssumption
<1>5. rule.target.len \in 0 .. Width[f]
  BY <1>3
<1>6. rule.target.len \in 0 .. 128
  BY <1>4, <1>5
<1> QED
  BY <1>2, <1>6 DEF Ord

\* A position of the list holds a rule.
LEMMA PositionType ==
  ASSUME FilterTypeOK, NEW i \in DOMAIN rules
  PROVE  i \in Nat /\ rules[i] \in FilterRules
BY DEF FilterTypeOK

\* If any rule matches, one comes first.
LEMMA FirstMatchPrecedes ==
  ASSUME FilterTypeOK, NEW ip, Matching(ip) # {}
  PROVE  /\ FirstMatch(ip) \in Matching(ip)
         /\ \A j \in Matching(ip) \ {FirstMatch(ip)} : Precedes(FirstMatch(ip), j)
<1> DEFINE M == Matching(ip)
           Keys == {257 - Ord(rules[i]) : i \in M}
<1>1. \A i \in M : i \in Nat /\ rules[i] \in FilterRules /\ Ord(rules[i]) \in 0 .. 257
  BY PositionType, RuleType DEF Matching
<1>2. Keys \subseteq Nat /\ Keys # {}
  BY <1>1
<1>3. PICK k \in Keys : \A l \in Keys : k <= l
  BY <1>2, LeastNumber
<1> DEFINE Best == {i \in M : 257 - Ord(rules[i]) = k}
<1>4. Best \subseteq Nat /\ Best # {}
  BY <1>1, <1>3
<1>5. PICK i \in Best : \A j \in Best : i <= j
  BY <1>4, LeastNumber
<1>6. ASSUME NEW j \in M \ {i}  PROVE Precedes(i, j)
  <2>1. 257 - Ord(rules[j]) \in Keys
    OBVIOUS
  <2>2. 257 - Ord(rules[i]) <= 257 - Ord(rules[j])
    BY <1>3, <1>5, <2>1
  <2>3. Ord(rules[i]) \in Nat /\ Ord(rules[j]) \in Nat /\ i \in Nat /\ j \in Nat
    BY <1>1, <1>5
  <2>4. CASE Ord(rules[i]) > Ord(rules[j])
    BY <2>4 DEF Precedes
  <2>5. CASE Ord(rules[i]) = Ord(rules[j])
    <3>1. j \in Best
      BY <1>5, <2>5
    <3>2. i < j
      BY <1>5, <2>3, <3>1
    <3> QED
      BY <2>5, <3>2 DEF Precedes
  <2> QED
    BY <2>2, <2>3, <2>4, <2>5
<1> HIDE DEF M
<1>7. i \in M /\ \A j \in M \ {i} : Precedes(i, j)
  BY <1>5, <1>6
<1>8. FirstMatch(ip) = CHOOSE n \in M : \A j \in M \ {n} : Precedes(n, j)
  BY DEF FirstMatch, M
<1> QED
  BY <1>7, <1>8 DEF M

LEMMA LongestWins == ASSUME FilterTypeOK PROVE MostSpecificWins
<1> SUFFICES ASSUME NEW ip \in Ips
             PROVE  Evaluate(ip) = "Allow" <=>
                      \E i \in Matching(ip) :
                        /\ rules[i].action = "Allow"
                        /\ \A j \in Matching(ip) : rules[j].target.len <= rules[i].target.len
  BY DEF MostSpecificWins
<1>1. CASE Matching(ip) = {}
  BY <1>1 DEF Evaluate
<1>2. CASE Matching(ip) # {}
  <2> DEFINE f == FirstMatch(ip)
  <2>1. /\ f \in Matching(ip)
        /\ \A j \in Matching(ip) \ {f} : Precedes(f, j)
    BY <1>2, FirstMatchPrecedes
  <2>2. Evaluate(ip) = rules[f].action
    BY <1>2 DEF Evaluate
  <2> HIDE DEF f
  <2>3. \A j \in Matching(ip) :
          /\ rules[j].action \in {"Allow", "Deny"}
          /\ rules[j].target.len \in Nat
    BY PositionType, RuleType DEF Matching, PeerActions
  <2>4. \A j \in Matching(ip) : Ord(rules[j]) <= Ord(rules[f])
    <3> TAKE j \in Matching(ip)
    <3>1. Ord(rules[j]) \in Nat /\ Ord(rules[f]) \in Nat
      BY <2>1, <2>3 DEF Ord
    <3> QED
      BY <2>1, <3>1 DEF Precedes
  <2>5. ASSUME rules[f].action = "Allow"
        PROVE  \A j \in Matching(ip) : rules[j].target.len <= rules[f].target.len
    BY <2>1, <2>3, <2>4, <2>5 DEF Ord
  <2>6. ASSUME NEW i \in Matching(ip), rules[i].action = "Allow",
               \A j \in Matching(ip) : rules[j].target.len <= rules[i].target.len
        PROVE  rules[f].action = "Allow"
    <3>1. 2 * rules[i].target.len + 1 <= Ord(rules[f])
      BY <2>4, <2>6 DEF Ord
    <3>2. rules[f].target.len <= rules[i].target.len
      BY <2>1, <2>6
    <3> QED
      BY <2>1, <2>3, <3>1, <3>2 DEF Ord
  <2> QED
    BY <2>1, <2>2, <2>5, <2>6
<1> QED
  BY <1>1, <1>2

LEMMA AddType ==
  ASSUME FilterTypeOK, NEW rule \in FilterRules, AddRule(rule)
  PROVE  FilterTypeOK'
BY DEF FilterTypeOK, AddRule

\* What is left after a removal, and that nothing else is lost.
LEMMA RemoveKeeps ==
  ASSUME FilterTypeOK, NEW rule \in FilterRules, RemoveRule(rule)
  PROVE  /\ FilterTypeOK'
         /\ \A k \in DOMAIN rules' : \E i \in DOMAIN rules : rules[i] = rules'[k]
         /\ \A i \in DOMAIN rules : rules[i] # rule => \E k \in DOMAIN rules' : rules'[k] = rules[i]
<1> DEFINE kept == {i \in DOMAIN rules : rules[i] # rule}
<1>1. PICK pick \in Increasing(kept) : rules' = [k \in DOMAIN pick |-> rules[pick[k]]]
  BY DEF RemoveRule
<1>2. IsFiniteSet(kept)
  <2>1. DOMAIN rules = 1 .. Len(rules) /\ Len(rules) \in Nat
    BY DEF FilterTypeOK
  <2>2. IsFiniteSet(DOMAIN rules)
    BY <2>1, FS_Interval
  <2> QED
    BY <2>2, FS_Subset
<1>3. Cardinality(kept) \in Nat
  BY <1>2, FS_CardinalityType
<1>4. /\ pick \in [1 .. Cardinality(kept) -> kept]
      /\ \A p \in kept : \E k \in DOMAIN pick : pick[k] = p
  BY <1>1 DEF Increasing
<1>5. \A i \in kept : rules[i] \in FilterRules
  BY PositionType
<1>6. rules' \in [1 .. Cardinality(kept) -> FilterRules]
  BY <1>1, <1>4, <1>5
<1>7. FilterTypeOK'
  <2>1. rules' \in Seq(FilterRules)
    BY <1>3, <1>6, ListIsSeq
  <2> QED
    BY <2>1 DEF FilterTypeOK
<1> QED
  BY <1>1, <1>4, <1>7

\* PeerFilter: the list keeps its type.
THEOREM TypeCorrect == FilterSpec => []FilterTypeOK
<1>1. FilterInit => FilterTypeOK
  <2> SUFFICES ASSUME FilterInit  PROVE rules \in Seq(FilterRules)
    BY DEF FilterTypeOK
  <2>1. PICK n \in 0 .. 2 : rules \in [1 .. n -> FilterRules]
    BY Zenon DEF FilterInit
  <2>2. n \in Nat
    OBVIOUS
  <2> QED
    BY <2>1, <2>2, ListIsSeq
<1>2. FilterTypeOK /\ [FilterNext]_rules => FilterTypeOK'
  BY AddType, RemoveKeeps DEF FilterNext, FilterTypeOK
<1> QED
  BY <1>1, <1>2, PTL DEF FilterSpec

\* PeerFilter: for every list that edits can lead to, the sorted evaluation
\* picks the longest prefix, allow before deny.
THEOREM EvaluationIsLongestPrefix == FilterSpec => []MostSpecificWins
<1>1. FilterTypeOK => MostSpecificWins
  BY LongestWins
<1> QED
  BY <1>1, TypeCorrect, PTL

--------------------------------------------------------------------------------
(* Locality of edits *)

MatchedBy(ip) == {rules[i] : i \in Matching(ip)}

Wins(S) ==
  \E r \in S : r.action = "Allow" /\ \A q \in S : q.target.len <= r.target.len

\* The verdict depends on the rules that match alone.
LEMMA VerdictOfMatched ==
  ASSUME MostSpecificWins, NEW ip \in Ips
  PROVE  Evaluate(ip) = "Allow" <=> Wins(MatchedBy(ip))
BY DEF MostSpecificWins, Wins, MatchedBy

LEMMA VerdictType ==
  ASSUME FilterTypeOK, NEW ip \in Ips
  PROVE  Evaluate(ip) \in {"Allow", "Deny"}
<1>1. CASE Matching(ip) = {}
  BY <1>1 DEF Evaluate
<1>2. CASE Matching(ip) # {}
  <2>1. FirstMatch(ip) \in DOMAIN rules
    BY <1>2, FirstMatchPrecedes DEF Matching
  <2>2. rules[FirstMatch(ip)].action \in {"Allow", "Deny"}
    BY <2>1, PositionType, RuleType DEF PeerActions
  <2> QED
    BY <1>2, <2>2 DEF Evaluate
<1> QED
  BY <1>1, <1>2

LEMMA EditKeepsMatched ==
  ASSUME FilterTypeOK, NEW rule \in FilterRules, AddRule(rule) \/ RemoveRule(rule),
         NEW ip \in Ips, ~Contains(rule.target, ip)
  PROVE  MatchedBy(ip)' = MatchedBy(ip)
<1>1. CASE AddRule(rule)
  <2>1. CASE rules' = rules
    BY <2>1 DEF MatchedBy, Matching
  <2>2. CASE rules' = Append(rules, rule)
    <3>1. /\ DOMAIN rules' = DOMAIN rules \cup {Len(rules) + 1}
          /\ \A i \in DOMAIN rules : rules'[i] = rules[i]
          /\ rules'[Len(rules) + 1] = rule
          /\ Len(rules) + 1 \notin DOMAIN rules
      BY <2>2 DEF FilterTypeOK
    <3>2. Matching(ip)' = Matching(ip)
      BY <3>1 DEF Matching
    <3> QED
      BY <3>1, <3>2 DEF MatchedBy, Matching
  <2> QED
    BY <1>1, <2>1, <2>2 DEF AddRule
<1>2. CASE RemoveRule(rule)
  <2>1. /\ \A k \in DOMAIN rules' : \E i \in DOMAIN rules : rules[i] = rules'[k]
        /\ \A i \in DOMAIN rules : rules[i] # rule => \E k \in DOMAIN rules' : rules'[k] = rules[i]
    BY <1>2, RemoveKeeps
  <2> QED
    BY <2>1 DEF MatchedBy, Matching
<1> QED
  BY <1>1, <1>2

VerdictsFollowRules ==
  \A ip \in Ips :
    /\ Evaluate(ip) \in {"Allow", "Deny"}
    /\ Evaluate(ip) = "Allow" <=> Wins(MatchedBy(ip))

\* PeerFilter: an edit changes no verdict outside the subnet of its rule.
THEOREM EditsAreLocal == FilterSpec => ChangesAreLocal
<1>1. FilterTypeOK => VerdictsFollowRules
  BY LongestWins, VerdictOfMatched, VerdictType DEF VerdictsFollowRules
<1>2. ASSUME FilterTypeOK, VerdictsFollowRules, VerdictsFollowRules',
             NEW rule \in FilterRules, AddRule(rule) \/ RemoveRule(rule),
             NEW ip \in Ips, ~Contains(rule.target, ip)
      PROVE  Evaluate(ip)' = Evaluate(ip)
  <2>1. MatchedBy(ip)' = MatchedBy(ip)
    BY <1>2, EditKeepsMatched
  <2>2. Wins(MatchedBy(ip))' <=> Wins(MatchedBy(ip))
    BY <2>1 DEF Wins
  <2>3. /\ Evaluate(ip) \in {"Allow", "Deny"}
        /\ Evaluate(ip) = "Allow" <=> Wins(MatchedBy(ip))
    BY <1>2 DEF VerdictsFollowRules
  <2>4. /\ Evaluate(ip)' \in {"Allow", "Deny"}
        /\ Evaluate(ip)' = "Allow" <=> Wins(MatchedBy(ip))'
    BY <1>2 DEF VerdictsFollowRules
  <2> QED
    BY <2>2, <2>3, <2>4
<1>3. FilterTypeOK /\ VerdictsFollowRules /\ VerdictsFollowRules'
      => [\A rule \in FilterRules : AddRule(rule) \/ RemoveRule(rule) =>
            \A ip \in Ips : ~Contains(rule.target, ip) => (Evaluate(ip)' = Evaluate(ip))]_rules
  BY <1>2
<1> QED
  BY <1>1, <1>3, TypeCorrect, PTL DEF ChangesAreLocal
================================================================================
