-------------------------------- MODULE Fail2Ban --------------------------------
(***************************************************************************)
(* The operations of lib/mail_proxy/src/fail2ban.rs on its table of peers. *)
(*                                                                         *)
(* A table is a function whose domain is the set of peers on record.  The  *)
(* Instant of a record is kept as the age it has now; ages stop at         *)
(* MaxAge + 1, which is already expired.                                   *)
(***************************************************************************)
EXTENDS Naturals

CONSTANTS
  Peers,           \* client addresses
  MaxConnections,  \* Fail2Ban::max_connections
  MaxFails,        \* Fail2Ban::max_fails
  MaxAge,          \* Fail2Ban::max_age, in ticks
  MaxU32           \* u32::MAX, a small number when model-checking

ASSUME Fail2BanAssumption ==
  MaxConnections \in Nat /\ MaxFails \in Nat /\ MaxAge \in Nat /\ MaxU32 \in Nat \ {0}

Ages == 0 .. MaxAge + 1
PeerInfo == [connections : 0 .. MaxU32, fails : 0 .. MaxU32, age : Ages]
IsTable(t) == DOMAIN t \subseteq Peers /\ t \in [DOMAIN t -> PeerInfo]
EmptyTable == [p \in {} |-> [connections |-> 0, fails |-> 0, age |-> 0]]

\* u32 addition and subtraction of 1 in a build without overflow checks.
Inc(n) == IF n = MaxU32 THEN 0 ELSE n + 1
DecUnbounded(n) == n - 1  \* fault, for a mutant of Dec
Dec(n) == IF n = 0 THEN MaxU32 ELSE n - 1

Older(age) == IF age > MaxAge THEN age ELSE age + 1

Record(t, p, info) == [q \in DOMAIN t \cup {p} |-> IF q = p THEN info ELSE t[q]]

\* Fault, for a mutant of PushConnection: the age of a known peer is kept.
PushConnectionKeepsAge(t, p) ==
  IF p \in DOMAIN t
  THEN Record(t, p, [t[p] EXCEPT !.connections = Inc(@)])
  ELSE Record(t, p, [connections |-> 1, fails |-> 0, age |-> 0])

PushConnection(t, p) ==
  IF p \in DOMAIN t
  THEN Record(t, p, [t[p] EXCEPT !.connections = Inc(@), !.age = 0])
  ELSE Record(t, p, [connections |-> 1, fails |-> 0, age |-> 0])

\* pop_connection panics where overflow is checked and nothing is counted.
PopOverflows(t, p) == p \in DOMAIN t /\ t[p].connections = 0

PopConnection(t, p) ==
  IF p \in DOMAIN t THEN Record(t, p, [t[p] EXCEPT !.connections = Dec(@)]) ELSE t

\* Fault, for a mutant of PushFail: a fail does not count as activity.
PushFailKeepsAge(t, p) ==
  IF p \in DOMAIN t THEN Record(t, p, [t[p] EXCEPT !.fails = Inc(@)]) ELSE t

PushFail(t, p) ==
  IF p \in DOMAIN t THEN Record(t, p, [t[p] EXCEPT !.fails = Inc(@), !.age = 0]) ELSE t

\* get_verdict first forgets every expired record, of whichever peer.
Evict(t) == [q \in {r \in DOMAIN t : t[r].age <= MaxAge} |-> t[q]]

\* Fault, for a mutant of Verdict: one connection too many.
VerdictOffByOne(t, p) ==
  IF p \notin DOMAIN t THEN "NoRecord"
  ELSE IF t[p].fails > MaxFails THEN "TooManyFails"
  ELSE IF t[p].connections > MaxConnections + 1 THEN "TooManyConnections"
  ELSE "Ok"

Verdict(t, p) ==
  IF p \notin DOMAIN t THEN "NoRecord"
  ELSE IF t[p].fails > MaxFails THEN "TooManyFails"
  ELSE IF t[p].connections > MaxConnections THEN "TooManyConnections"
  ELSE "Ok"

\* A tick of the clock.
Elapse(t) == [q \in DOMAIN t |-> [t[q] EXCEPT !.age = Older(@)]]
================================================================================
