------------------------------- MODULE PeerFilter -------------------------------
(***************************************************************************)
(* lib/mail_proxy/src/peer_filter.rs: a list of rules that allow or deny   *)
(* a subnet, edited by 'config smtp peers' and evaluated for each client.  *)
(*                                                                         *)
(* A network is an address with a prefix length, kept as it was written:   *)
(* 10.0.0.1/8 and 10.0.0.2/8 are the same subnet in two rules that differ. *)
(***************************************************************************)
EXTENDS Naturals, Sequences, FiniteSets

CONSTANTS
  Width,        \* the number of bits of an address, by address family
  FilterRules,  \* the rules considered
  MaxRules      \* bound of the model: the length of the list

PeerActions == {"Allow", "Deny"}
Addrs(f) == 0 .. 2 ^ Width[f] - 1
Ips == UNION {[family : {f}, addr : Addrs(f)] : f \in DOMAIN Width}
Nets == UNION {[family : {f}, addr : Addrs(f), len : 0 .. Width[f]] : f \in DOMAIN Width}

\* 32 bits of IPv4 and 128 of IPv6.
ASSUME WidthAssumption == \A f \in DOMAIN Width : Width[f] \in 0 .. 128
ASSUME FilterRulesAssumption == FilterRules \subseteq [action : PeerActions, target : Nets]

VARIABLE rules  \* PeerFilter::rules

\* IpNet::contains: equal network parts, within one family.
Contains(net, ip) ==
  LET hosts == 2 ^ (Width[net.family] - net.len) IN
  /\ net.family = ip.family
  /\ net.addr \div hosts = ip.addr \div hosts

\* Fault, for a mutant of Ord: deny before allow.
OrdDenyFirst(rule) == 2 * rule.target.len + (IF rule.action = "Deny" THEN 1 ELSE 0)

\* get_ord of filter_rule_cmp; the higher one is evaluated first.
Ord(rule) == 2 * rule.target.len + (IF rule.action = "Allow" THEN 1 ELSE 0)

\* The order of iter(), whose sort is stable.
Precedes(i, j) ==
  \/ Ord(rules[i]) > Ord(rules[j])
  \/ Ord(rules[i]) = Ord(rules[j]) /\ i < j

Matching(ip) == {i \in DOMAIN rules : Contains(rules[i].target, ip)}

FirstMatch(ip) ==
  CHOOSE i \in Matching(ip) : \A j \in Matching(ip) \ {i} : Precedes(i, j)

\* Fault, for a mutant of Evaluate: a filter without rules allows any peer.
EvaluateEmptyAllows(ip) ==
  IF rules = <<>> THEN "Allow"
  ELSE IF Matching(ip) = {} THEN "Deny" ELSE rules[FirstMatch(ip)].action

\* The first rule that matches decides; iter() ends with two that deny any
\* address.
Evaluate(ip) == IF Matching(ip) = {} THEN "Deny" ELSE rules[FirstMatch(ip)].action

--------------------------------------------------------------------------------
\* A list from a file, which may be edited by hand (so a rule may be there
\* twice): any two rules, those of new_allow_any among them, one or none.
FilterInit == rules \in UNION {[1 .. n -> FilterRules] : n \in 0 .. 2}

AddRule(rule) ==
  /\ Len(rules) < MaxRules
  /\ rules' = IF \E i \in DOMAIN rules : rules[i] = rule THEN rules ELSE Append(rules, rule)

\* The positions of 1 .. n in their order.
Increasing(positions) ==
  {pick \in [1 .. Cardinality(positions) -> positions] :
     /\ \A p \in positions : \E k \in DOMAIN pick : pick[k] = p
     /\ \A k, l \in DOMAIN pick : k < l => pick[k] < pick[l]}

\* Vec::retain: the other rules stay in their order.
RemoveRule(rule) ==
  \E pick \in Increasing({i \in DOMAIN rules : rules[i] # rule}) :
    rules' = [k \in DOMAIN pick |-> rules[pick[k]]]

FilterNext == \E rule \in FilterRules : AddRule(rule) \/ RemoveRule(rule)

FilterSpec == FilterInit /\ [][FilterNext]_rules

--------------------------------------------------------------------------------
(* Properties *)

\* The type of the list.
FilterTypeOK == rules \in Seq(FilterRules)

\* What the listing promises, whatever the order in which rules were added:
\* of the rules that match, those of the longest prefix count; among them one
\* that allows is enough; without a match a peer is denied.
MostSpecificWins ==
  \A ip \in Ips :
    Evaluate(ip) = "Allow" <=>
      \E i \in Matching(ip) :
        /\ rules[i].action = "Allow"
        /\ \A j \in Matching(ip) : rules[j].target.len <= rules[i].target.len

\* To add or remove a rule changes nothing for the peers outside its subnet.
ChangesAreLocal ==
  [][\A rule \in FilterRules : AddRule(rule) \/ RemoveRule(rule) =>
       \A ip \in Ips : ~Contains(rule.target, ip) => (Evaluate(ip)' = Evaluate(ip))]_rules
================================================================================
