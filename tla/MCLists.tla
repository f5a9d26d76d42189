-------------------------------- MODULE MCLists --------------------------------
(* Small instances of the two lists that 'config' commands edit entry by      *)
(* entry, one or the other at a time.  Users: two people, one of them written *)
(* in two ways, an address in two spellings and patterns for a domain and for *)
(* everything.  Peer rules: addresses of two bits in one family and of no     *)
(* bits in the other; a chain of subnets of every length, one beside it, and  *)
(* one that is written in two ways.                                           *)
EXTENDS UserList, PeerFilter, TLC

CONSTANTS AliceUpper, AliceLower, Bob, Example

VARIABLE scene

listVars == <<scene, vars, rules>>

At(local, domain) == [local |-> local, domain |-> domain]

MCWords == {AliceUpper, AliceLower, Bob, Example, Star, Empty, NoDomain}
MCLower == [w \in MCWords |-> IF w = AliceUpper THEN AliceLower ELSE w]
MCNames == {At(AliceUpper, Example), At(AliceLower, Example), At(Bob, NoDomain)}
MCSenders ==
  {At(AliceUpper, Example), At(AliceLower, Example), At(Star, Example), At(Star, Empty)}
PasswordSymmetry == Permutations(Passwords)
MCFileEntries ==
  [password : Passwords, sendAs : {{}, {At(AliceUpper, Example)}, {At(Star, Star)}}]

MCWidth == [ipv4 |-> 2, ipv6 |-> 0]
MCNets ==
  {[family |-> "ipv4", addr |-> n[1], len |-> n[2]] :
     n \in {<<0, 0>>, <<0, 1>>, <<1, 1>>, <<2, 1>>, <<1, 2>>}}
  \cup {[family |-> "ipv6", addr |-> 0, len |-> 0]}
MCFilterRules == [action : PeerActions, target : MCNets]

MCInit ==
  /\ Init /\ FilterInit
  /\ \/ scene = "users" /\ rules = <<>>
     \/ scene = "peers" /\ DOMAIN users = {}

MCNext ==
  /\ UNCHANGED scene
  /\ \/ scene = "users" /\ Next /\ UNCHANGED rules
     \/ scene = "peers" /\ FilterNext /\ UNCHANGED vars

MCSpec == MCInit /\ [][MCNext]_listVars
================================================================================
