----------------------------- MODULE ConnectionQuota -----------------------------
(***************************************************************************)
(* What Server::listen and ProxyHandler promise of connections: a peer has *)
(* at most MaxConnections admitted ones, and one may only be admitted when *)
(* the peer has, the new one and those still closing included, no more     *)
(* than that open.  Nothing is said of tables, ages or bans.               *)
(***************************************************************************)
EXTENDS Naturals, FiniteSets

CONSTANTS Conns, Peers, PeerOf, AllowedPeers, MaxConnections

VARIABLES open, admitted

Of(p, s) == {c \in s : PeerOf[c] = p}

QuotaInit == open = {} /\ admitted = {}

Reject(c) ==
  /\ c \notin open
  /\ open' = open \cup {c}
  /\ UNCHANGED admitted

Admit(c) ==
  /\ c \notin open
  /\ PeerOf[c] \in AllowedPeers
  /\ open' = open \cup {c}
  /\ admitted' = admitted \cup {c}
  /\ Cardinality(Of(PeerOf[c], open')) <= MaxConnections

Finish(c) ==
  /\ c \in admitted
  /\ admitted' = admitted \ {c}
  /\ UNCHANGED open

Close(c) ==
  /\ c \in open \ admitted
  /\ open' = open \ {c}
  /\ UNCHANGED admitted

\* The process ends.
DropAll == open' = {} /\ admitted' = {}

QuotaNext ==
  \/ \E c \in Conns : Reject(c) \/ Admit(c) \/ Finish(c) \/ Close(c)
  \/ DropAll

QuotaSpec == QuotaInit /\ [][QuotaNext]_<<open, admitted>>

================================================================================
