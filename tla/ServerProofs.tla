------------------------------ MODULE ServerProofs ------------------------------
(* Proofs about Server, for every set of peers and connections.             *)
EXTENDS Server, TLAPS, FiniteSetTheorems

--------------------------------------------------------------------------------
(* The operations on the table *)

LEMMA IncDecType ==
  ASSUME NEW n \in 0 .. MaxU32
  PROVE  Inc(n) \in 0 .. MaxU32 /\ Dec(n) \in 0 .. MaxU32
BY Fail2BanAssumption DEF Inc, Dec

\* A record that is touched, with one of its counts changed.
LEMMA TouchType ==
  ASSUME NEW r \in PeerInfo, NEW n \in 0 .. MaxU32
  PROVE  /\ [r EXCEPT !.connections = n, !.age = 0] \in PeerInfo
         /\ [r EXCEPT !.connections = n, !.age = 0].age = 0
         /\ [r EXCEPT !.connections = n, !.age = 0].connections = n
         /\ [r EXCEPT !.connections = n] \in PeerInfo
         /\ [r EXCEPT !.connections = n].age = r.age
         /\ [r EXCEPT !.connections = n].connections = n
         /\ [r EXCEPT !.fails = n, !.age = 0] \in PeerInfo
         /\ [r EXCEPT !.fails = n, !.age = 0].age = 0
         /\ [r EXCEPT !.fails = n, !.age = 0].connections = r.connections
<1>1. 0 \in Ages
  BY Fail2BanAssumption DEF Ages
<1> QED
  BY <1>1 DEF PeerInfo

LEMMA RecordTable ==
  ASSUME NEW t, IsTable(t), NEW p \in Peers, NEW info \in PeerInfo
  PROVE  /\ IsTable(Record(t, p, info))
         /\ DOMAIN Record(t, p, info) = DOMAIN t \cup {p}
         /\ Record(t, p, info)[p] = info
         /\ \A q \in DOMAIN t \ {p} : Record(t, p, info)[q] = t[q]
BY DEF IsTable, Record

LEMMA PushConnectionTable ==
  ASSUME NEW t, IsTable(t), NEW p \in Peers
  PROVE  /\ IsTable(PushConnection(t, p))
         /\ DOMAIN PushConnection(t, p) = DOMAIN t \cup {p}
         /\ PushConnection(t, p)[p].age = 0
         /\ PushConnection(t, p)[p].connections =
              IF p \in DOMAIN t THEN Inc(t[p].connections) ELSE 1
         /\ \A q \in DOMAIN t \ {p} : PushConnection(t, p)[q] = t[q]
<1>1. CASE p \in DOMAIN t
  <2> DEFINE info == [t[p] EXCEPT !.connections = Inc(@), !.age = 0]
  <2>1. t[p] \in PeerInfo
    BY <1>1 DEF IsTable
  <2>2. Inc(t[p].connections) \in 0 .. MaxU32
    BY <2>1, IncDecType DEF PeerInfo
  <2>3. info \in PeerInfo /\ info.age = 0 /\ info.connections = Inc(t[p].connections)
    BY <2>1, <2>2, TouchType
  <2>4. PushConnection(t, p) = Record(t, p, info)
    BY <1>1 DEF PushConnection
  <2> HIDE DEF info
  <2>5. /\ IsTable(Record(t, p, info))
        /\ DOMAIN Record(t, p, info) = DOMAIN t \cup {p}
        /\ Record(t, p, info)[p] = info
        /\ \A q \in DOMAIN t \ {p} : Record(t, p, info)[q] = t[q]
    BY <2>3, RecordTable
  <2> QED
    BY <1>1, <2>3, <2>4, <2>5
<1>2. CASE p \notin DOMAIN t
  <2> DEFINE info == [connections |-> 1, fails |-> 0, age |-> 0]
  <2>1. info \in PeerInfo /\ info.age = 0 /\ info.connections = 1
    BY Fail2BanAssumption DEF PeerInfo, Ages
  <2>2. PushConnection(t, p) = Record(t, p, info)
    BY <1>2 DEF PushConnection
  <2> HIDE DEF info
  <2> QED
    BY <1>2, <2>1, <2>2, RecordTable
<1> QED
  BY <1>1, <1>2

LEMMA PopConnectionTable ==
  ASSUME NEW t, IsTable(t), NEW p \in Peers
  PROVE  /\ IsTable(PopConnection(t, p))
         /\ DOMAIN PopConnection(t, p) = DOMAIN t
         /\ p \in DOMAIN t =>
              /\ PopConnection(t, p)[p].connections = Dec(t[p].connections)
              /\ PopConnection(t, p)[p].age = t[p].age
         /\ \A q \in DOMAIN t \ {p} : PopConnection(t, p)[q] = t[q]
<1>1. CASE p \in DOMAIN t
  <2> DEFINE info == [t[p] EXCEPT !.connections = Dec(@)]
  <2>1. t[p] \in PeerInfo
    BY <1>1 DEF IsTable
  <2>2. Dec(t[p].connections) \in 0 .. MaxU32
    BY <2>1, IncDecType DEF PeerInfo
  <2>3. info \in PeerInfo /\ info.age = t[p].age /\ info.connections = Dec(t[p].connections)
    BY <2>1, <2>2, TouchType
  <2>4. PopConnection(t, p) = Record(t, p, info)
    BY <1>1 DEF PopConnection
  <2> HIDE DEF info
  <2>5. /\ IsTable(Record(t, p, info))
        /\ DOMAIN Record(t, p, info) = DOMAIN t \cup {p}
        /\ Record(t, p, info)[p] = info
        /\ \A q \in DOMAIN t \ {p} : Record(t, p, info)[q] = t[q]
    BY <2>3, RecordTable
  <2> QED
    BY <1>1, <2>3, <2>4, <2>5
<1>2. CASE p \notin DOMAIN t
  BY <1>2 DEF PopConnection
<1> QED
  BY <1>1, <1>2

LEMMA PushFailTable ==
  ASSUME NEW t, IsTable(t), NEW p \in Peers
  PROVE  /\ IsTable(PushFail(t, p))
         /\ DOMAIN PushFail(t, p) = DOMAIN t
         /\ p \in DOMAIN t =>
              /\ PushFail(t, p)[p].connections = t[p].connections
              /\ PushFail(t, p)[p].age = 0
         /\ \A q \in DOMAIN t \ {p} : PushFail(t, p)[q] = t[q]
<1>1. CASE p \in DOMAIN t
  <2> DEFINE info == [t[p] EXCEPT !.fails = Inc(@), !.age = 0]
  <2>1. t[p] \in PeerInfo
    BY <1>1 DEF IsTable
  <2>2. Inc(t[p].fails) \in 0 .. MaxU32
    BY <2>1, IncDecType DEF PeerInfo
  <2>3. info \in PeerInfo /\ info.age = 0 /\ info.connections = t[p].connections
    BY <2>1, <2>2, TouchType
  <2>4. PushFail(t, p) = Record(t, p, info)
    BY <1>1 DEF PushFail
  <2> HIDE DEF info
  <2>5. /\ IsTable(Record(t, p, info))
        /\ DOMAIN Record(t, p, info) = DOMAIN t \cup {p}
        /\ Record(t, p, info)[p] = info
        /\ \A q \in DOMAIN t \ {p} : Record(t, p, info)[q] = t[q]
    BY <2>3, RecordTable
  <2> QED
    BY <1>1, <2>3, <2>4, <2>5
<1>2. CASE p \notin DOMAIN t
  BY <1>2 DEF PushFail
<1> QED
  BY <1>1, <1>2

LEMMA EvictTable ==
  ASSUME NEW t, IsTable(t)
  PROVE  /\ IsTable(Evict(t))
         /\ \A q \in DOMAIN t : q \in DOMAIN Evict(t) <=> t[q].age <= MaxAge
         /\ \A q \in DOMAIN Evict(t) : q \in DOMAIN t /\ Evict(t)[q] = t[q]
BY DEF IsTable, Evict

LEMMA ElapseTable ==
  ASSUME NEW t, IsTable(t)
  PROVE  /\ IsTable(Elapse(t))
         /\ DOMAIN Elapse(t) = DOMAIN t
         /\ \A q \in DOMAIN t : /\ Elapse(t)[q].connections = t[q].connections
                                /\ Elapse(t)[q].age <= t[q].age + 1
<1>1. \A q \in DOMAIN t : /\ [t[q] EXCEPT !.age = Older(@)] \in PeerInfo
                          /\ [t[q] EXCEPT !.age = Older(@)].connections = t[q].connections
                          /\ [t[q] EXCEPT !.age = Older(@)].age <= t[q].age + 1
  <2> SUFFICES ASSUME NEW q \in DOMAIN t
               PROVE  /\ [t[q] EXCEPT !.age = Older(@)] \in PeerInfo
                      /\ [t[q] EXCEPT !.age = Older(@)].connections = t[q].connections
                      /\ [t[q] EXCEPT !.age = Older(@)].age <= t[q].age + 1
    OBVIOUS
  <2>1. t[q] \in PeerInfo
    BY DEF IsTable
  <2>2. Older(t[q].age) \in Ages /\ Older(t[q].age) <= t[q].age + 1
    BY <2>1, Fail2BanAssumption DEF PeerInfo, Ages, Older
  <2> QED
    BY <2>1, <2>2 DEF PeerInfo
<1> QED
  BY <1>1 DEF IsTable, Elapse

--------------------------------------------------------------------------------
(* Type correctness *)

LEMMA ClocksType ==
  /\ 0 \in Clocks
  /\ \A n \in Clocks : n \in Nat /\ (n < MaxLife => n + 1 \in Clocks) /\ Older(n) \in Clocks
BY Fail2BanAssumption, ServerAssumption DEF Clocks, Older

LEMMA TypeInit == Init => TypeOK
BY ClocksType, ServerAssumption DEF Init, TypeOK, EmptyTable, IsTable, Statuses

LEMMA TypeStep == TypeOK /\ [Next]_vars => TypeOK'
<1> SUFFICES ASSUME TypeOK, [Next]_vars PROVE TypeOK'
  OBVIOUS
<1> USE DEF TypeOK
<1>1. ASSUME NEW c \in Conns, OnConnect(c) PROVE TypeOK'
  <2>1. PeerOf[c] \in Peers
    BY ServerAssumption
  <2>2. IsTable(peers')
    BY <1>1, <2>1, PushConnectionTable, EvictTable DEF OnConnect
  <2> QED
    BY <1>1, <2>2, ClocksType DEF OnConnect, Statuses
<1>2. ASSUME NEW c \in Conns, NEW done \in BOOLEAN, SessionEnds(c, done) PROVE TypeOK'
  BY <1>2 DEF SessionEnds, Statuses
<1>3. ASSUME NEW c \in Conns, OnDisconnect(c) PROVE TypeOK'
  <2> DEFINE t == IF productive[c] THEN peers ELSE PushFail(peers, PeerOf[c])
  <2>1. PeerOf[c] \in Peers
    BY ServerAssumption
  <2>2. IsTable(t)
    BY <2>1, PushFailTable
  <2>3. IsTable(peers')
    BY <1>3, <2>1, <2>2, PopConnectionTable DEF OnDisconnect
  <2>4. task' \in [Conns -> Statuses] /\ clock' \in [Conns -> Clocks]
    BY <1>3, ClocksType DEF OnDisconnect, Statuses
  <2> QED
    BY <1>3, <2>3, <2>4 DEF OnDisconnect
<1>4. CASE Tick
  <2>1. IsTable(peers')
    BY <1>4, ElapseTable DEF Tick
  <2>2. clock' \in [Conns -> Clocks]
    <3>1. \A c \in Conns : /\ task[c] \in {"session", "closing"} => clock[c] + 1 \in Clocks
                           /\ Older(clock[c]) \in Clocks
                           /\ clock[c] \in Clocks
      BY <1>4, ClocksType DEF Tick
    <3> QED
      BY <1>4, <3>1 DEF Tick
  <2> QED
    BY <1>4, <2>1, <2>2 DEF Tick
<1>5. CASE ListenerFails
  BY <1>5 DEF ListenerFails, Statuses
<1>6. CASE Restart
  <2>1. IsTable(EmptyTable)
    BY DEF IsTable, EmptyTable
  <2> QED
    BY <1>6, <2>1 DEF Restart
<1>7. CASE UNCHANGED vars
  BY <1>7 DEF vars
<1> QED
  BY <1>1, <1>2, <1>3, <1>4, <1>5, <1>6, <1>7 DEF Next

\* Server: the server's state always has its type.
THEOREM TypeCorrect == Spec => []TypeOK
BY TypeInit, TypeStep, PTL DEF Spec

--------------------------------------------------------------------------------
(* The live connections of a peer *)

LEMMA LiveFinite ==
  ASSUME NEW p
  PROVE  /\ IsFiniteSet(Live(p)) /\ IsFiniteSet(Admitted(p))
         /\ Cardinality(Live(p)) \in Nat /\ Cardinality(Admitted(p)) \in Nat
         /\ Cardinality(Live(p)) <= Cardinality(Conns)
         /\ Cardinality(Conns) \in Nat
<1>1. Live(p) \subseteq Conns /\ Admitted(p) \subseteq Conns
  BY DEF Live, Admitted
<1> QED
  BY <1>1, FS_Subset, FS_CardinalityType, ServerAssumption

LEMMA AdmittedAreLive ==
  ASSUME NEW p
  PROVE  Cardinality(Admitted(p)) <= Cardinality(Live(p))
<1>1. Admitted(p) \subseteq Live(p)
  BY DEF Admitted, Live
<1> QED
  BY <1>1, LiveFinite, FS_Subset

\* The count of a peer with no live connection, and of one that has some.
LEMMA LiveCount ==
  ASSUME NEW p
  PROVE  Cardinality(Live(p)) = 0 <=> Live(p) = {}
BY LiveFinite, FS_EmptySet

--------------------------------------------------------------------------------
(* The inductive invariant, one lemma per action *)

\* The connections on record for a peer.
Counted(t, p) == IF p \in DOMAIN t THEN t[p].connections ELSE 0

LEMMA OnConnectInv ==
  ASSUME LongBan, ServerInv, TypeOK', NEW c \in Conns, OnConnect(c)
  PROVE  ServerInv'
<1> DEFINE p == PeerOf[c]
           t1 == PushConnection(peers, p)
<1>t. TypeOK /\ Fresh /\ ConnectionsExact /\ AdmissionLimit
  BY DEF ServerInv
<1>0. p \in Peers /\ running /\ running' /\ task[c] = "new" /\ IsTable(peers)
  BY <1>t, ServerAssumption DEF OnConnect, TypeOK
<1>1. /\ IsTable(t1)
      /\ DOMAIN t1 = DOMAIN peers \cup {p}
      /\ t1[p].age = 0
      /\ t1[p].connections = IF p \in DOMAIN peers THEN Inc(peers[p].connections) ELSE 1
      /\ \A q \in DOMAIN peers \ {p} : t1[q] = peers[q]
  BY <1>0, PushConnectionTable
<1>2. /\ \A q \in DOMAIN t1 : q \in DOMAIN peers' <=> t1[q].age <= MaxAge
      /\ \A q \in DOMAIN peers' : q \in DOMAIN t1 /\ peers'[q] = t1[q]
  BY <1>1, EvictTable DEF OnConnect
<1> HIDE DEF t1
<1>3. p \in DOMAIN peers' /\ peers'[p].age = 0
  BY <1>1, <1>2, Fail2BanAssumption
<1>4. /\ \A d \in Conns \ {c} : task'[d] = task[d] /\ clock'[d] = clock[d]
      /\ task'[c] \in {"session", "closing"}
      /\ clock'[c] = 0
  BY <1>t DEF OnConnect, TypeOK
<1>5. Fresh'
  <2> SUFFICES ASSUME NEW d \in Conns, task'[d] \in {"session", "closing"}
               PROVE  /\ PeerOf[d] \in DOMAIN peers'
                      /\ peers'[PeerOf[d]].age <= clock'[d]
                      /\ clock'[d] <= MaxLife
    BY <1>0 DEF Fresh
  <2>1. CASE d = c
    BY <1>3, <1>4, <2>1, ServerAssumption
  <2>2. CASE d # c
    <3>1. /\ PeerOf[d] \in DOMAIN peers
          /\ peers[PeerOf[d]].age <= clock[d]
          /\ clock[d] <= MaxLife
          /\ clock'[d] = clock[d]
      BY <1>t, <1>4, <2>2 DEF Fresh
    <3>2. clock[d] \in Nat /\ peers[PeerOf[d]].age \in Nat
      BY <1>t, <1>0, <3>1, ClocksType DEF TypeOK, IsTable, PeerInfo, Ages
    <3>3. CASE PeerOf[d] = p
      BY <1>3, <3>1, <3>2, <3>3
    <3>4. CASE PeerOf[d] # p
      <4>1. t1[PeerOf[d]] = peers[PeerOf[d]] /\ PeerOf[d] \in DOMAIN t1
        BY <1>1, <3>1, <3>4
      <4>2. peers[PeerOf[d]].age <= MaxAge
        BY <3>1, <3>2, Fail2BanAssumption, ServerAssumption DEF LongBan
      <4> QED
        BY <1>2, <3>1, <4>1, <4>2
    <3> QED
      BY <3>3, <3>4
  <2> QED
    BY <2>1, <2>2
<1>6. \A q : q # p => Live(q)' = Live(q)
  BY <1>4 DEF Live
<1>7. Live(p)' = Live(p) \cup {c} /\ c \notin Live(p)
  BY <1>0, <1>4 DEF Live
<1>8. Cardinality(Live(p)') = Cardinality(Live(p)) + 1
  BY <1>7, LiveFinite, FS_AddElement
<1>9. Cardinality(Live(p)') <= MaxU32
  <2>1. Live(p)' \subseteq Conns
    BY DEF Live
  <2>2. Cardinality(Live(p)') <= Cardinality(Conns)
    BY <2>1, FS_Subset, ServerAssumption
  <2> QED
    BY <1>8, <2>2, LiveFinite, Fail2BanAssumption DEF LongBan
<1>10. peers'[p].connections = Cardinality(Live(p)')
  <2>1. Cardinality(Live(p)) = Counted(peers, p)
    BY <1>t, <1>0 DEF ConnectionsExact, Counted
  <2>2. CASE p \in DOMAIN peers
    BY <1>1, <1>2, <1>3, <1>8, <1>9, <2>1, <2>2, LiveFinite, Fail2BanAssumption
       DEF Counted, Inc
  <2>3. CASE p \notin DOMAIN peers
    BY <1>1, <1>2, <1>3, <1>8, <2>1, <2>3 DEF Counted
  <2> QED
    BY <2>2, <2>3
<1>11. ConnectionsExact'
  <2> SUFFICES ASSUME NEW q \in Peers PROVE Cardinality(Live(q)') = Counted(peers', q)
    BY DEF ConnectionsExact, Counted
  <2>1. CASE q = p
    BY <1>3, <1>10, <2>1 DEF Counted
  <2>2. CASE q # p
    <3>1. Cardinality(Live(q)') = Counted(peers, q)
      BY <1>t, <1>0, <1>6, <2>2 DEF ConnectionsExact, Counted
    <3>2. CASE q \in DOMAIN peers'
      BY <1>1, <1>2, <2>2, <3>1, <3>2 DEF Counted
    <3>3. CASE q \notin DOMAIN peers'
      <4>1. Live(q) = {}
        <5> SUFFICES ASSUME NEW d \in Live(q) PROVE FALSE
          OBVIOUS
        <5>1. d \in Conns /\ PeerOf[d] = q /\ d # c /\ task[d] \in {"session", "closing"}
          BY <1>0, <2>2 DEF Live
        <5> QED
          BY <1>4, <1>5, <3>3, <5>1 DEF Fresh
      <4>2. Cardinality(Live(q)') = 0
        BY <1>6, <2>2, <4>1, FS_EmptySet
      <4> QED
        BY <3>3, <4>2 DEF Counted
    <3> QED
      BY <3>2, <3>3
  <2> QED
    BY <2>1, <2>2
<1>12. AdmissionLimit'
  <2> SUFFICES ASSUME NEW q \in Peers PROVE Cardinality(Admitted(q)') <= MaxConnections
    BY DEF AdmissionLimit
  <2>1. CASE q = p /\ task'[c] = "session"
    <3>1. Verdict(peers', p) = "Ok"
      BY <1>t, <2>1 DEF OnConnect, TypeOK
    <3>2. peers'[p].connections <= MaxConnections
      <4>1. peers'[p].connections \in Nat
        BY <1>8, <1>10, LiveFinite
      <4> QED
        BY <1>3, <3>1, <4>1, Fail2BanAssumption DEF Verdict
    <3>3. Cardinality(Admitted(p)') <= Cardinality(Live(p)')
      <4>1. Admitted(p)' \subseteq Live(p)' /\ Live(p)' \subseteq Conns
        BY DEF Admitted, Live
      <4> QED
        BY <4>1, FS_Subset, ServerAssumption
    <3>4. Cardinality(Admitted(p)') \in Nat
      <4>1. Admitted(p)' \subseteq Conns
        BY DEF Admitted
      <4> QED
        BY <4>1, FS_Subset, FS_CardinalityType, ServerAssumption
    <3> QED
      BY <1>8, <1>10, <2>1, <3>2, <3>3, <3>4, LiveFinite, Fail2BanAssumption
  <2>2. CASE ~(q = p /\ task'[c] = "session")
    <3>1. Admitted(q)' = Admitted(q)
      BY <1>0, <1>4, <2>2 DEF Admitted
    <3> QED
      BY <1>t, <3>1 DEF AdmissionLimit
  <2> QED
    BY <2>1, <2>2
<1> QED
  BY <1>5, <1>11, <1>12 DEF ServerInv

LEMMA SessionEndsInv ==
  ASSUME ServerInv, TypeOK', NEW c \in Conns, NEW done \in BOOLEAN, SessionEnds(c, done)
  PROVE  ServerInv'
<1>t. TypeOK /\ Fresh /\ ConnectionsExact /\ AdmissionLimit
  BY DEF ServerInv
<1>1. /\ task[c] = "session" /\ task'[c] = "closing"
      /\ \A d \in Conns \ {c} : task'[d] = task[d]
      /\ UNCHANGED <<running, peers, clock>>
  BY <1>t DEF SessionEnds, TypeOK
<1>2. Fresh'
  BY <1>t, <1>1 DEF Fresh
<1>3. \A q : Live(q)' = Live(q)
  BY <1>1 DEF Live
<1>4. ConnectionsExact'
  BY <1>t, <1>1, <1>3 DEF ConnectionsExact
<1>5. ASSUME NEW q \in Peers PROVE Cardinality(Admitted(q)') <= MaxConnections
  <2>1. Admitted(q)' \subseteq Admitted(q)
    BY <1>1 DEF Admitted
  <2>2. Cardinality(Admitted(q)') <= Cardinality(Admitted(q)) /\ Cardinality(Admitted(q)') \in Nat
    BY <2>1, LiveFinite, FS_Subset, FS_CardinalityType
  <2> QED
    BY <1>t, <2>2, LiveFinite, Fail2BanAssumption DEF AdmissionLimit
<1> QED
  BY <1>2, <1>4, <1>5 DEF ServerInv, AdmissionLimit

\* Under the invariant pop_connection never finds a count of 0.
LEMMA NoOverflow ==
  ASSUME ServerInv, NEW c \in Conns, task[c] = "closing"
  PROVE  /\ PeerOf[c] \in DOMAIN peers
         /\ peers[PeerOf[c]].connections = Cardinality(Live(PeerOf[c]))
         /\ peers[PeerOf[c]].connections # 0
<1>1. running /\ PeerOf[c] \in DOMAIN peers
  BY DEF ServerInv, Fresh
<1>2. peers[PeerOf[c]].connections = Cardinality(Live(PeerOf[c]))
  BY <1>1, ServerAssumption DEF ServerInv, ConnectionsExact
<1>3. c \in Live(PeerOf[c])
  BY DEF Live
<1> QED
  BY <1>1, <1>2, <1>3, LiveCount

LEMMA OnDisconnectInv ==
  ASSUME ServerInv, TypeOK', NEW c \in Conns, OnDisconnect(c)
  PROVE  ServerInv' /\ task'[c] = "done"
<1> DEFINE p == PeerOf[c]
           t == IF productive[c] THEN peers ELSE PushFail(peers, p)
<1>t. TypeOK /\ Fresh /\ ConnectionsExact /\ AdmissionLimit
  BY DEF ServerInv
<1>0. p \in Peers /\ running /\ running' /\ task[c] = "closing" /\ IsTable(peers)
  BY <1>t, ServerAssumption DEF OnDisconnect, TypeOK
<1>1. p \in DOMAIN peers /\ peers[p].connections = Cardinality(Live(p)) /\ peers[p].connections # 0
  BY <1>0, NoOverflow
<1>2. /\ IsTable(t)
      /\ DOMAIN t = DOMAIN peers
      /\ t[p].connections = peers[p].connections
      /\ t[p].age <= peers[p].age
      /\ \A q \in DOMAIN peers \ {p} : t[q] = peers[q]
  <2>1. peers[p].age \in Nat
    BY <1>0, <1>1 DEF IsTable, PeerInfo, Ages
  <2>2. CASE productive[c]
    BY <1>0, <2>1, <2>2
  <2>3. CASE ~productive[c]
    BY <1>0, <1>1, <2>1, <2>3, PushFailTable
  <2> QED
    BY <2>2, <2>3
<1>3. ~PopOverflows(t, p)
  BY <1>1, <1>2 DEF PopOverflows
<1>4. task' = [task EXCEPT ![c] = "done"] /\ peers' = PopConnection(t, p)
      /\ clock' = [clock EXCEPT ![c] = 0]
  BY <1>3 DEF OnDisconnect
<1>5. /\ DOMAIN peers' = DOMAIN peers
      /\ peers'[p].connections = Dec(peers[p].connections)
      /\ peers'[p].age <= peers[p].age
      /\ \A q \in DOMAIN peers \ {p} : peers'[q] = peers[q]
  <2> HIDE DEF t
  <2> QED
    BY <1>0, <1>1, <1>2, <1>4, PopConnectionTable
<1>6. task'[c] = "done" /\ \A d \in Conns \ {c} : task'[d] = task[d] /\ clock'[d] = clock[d]
  BY <1>t, <1>4 DEF TypeOK
<1>7. Fresh'
  <2> SUFFICES ASSUME NEW d \in Conns, task'[d] \in {"session", "closing"}
               PROVE  /\ PeerOf[d] \in DOMAIN peers'
                      /\ peers'[PeerOf[d]].age <= clock'[d]
                      /\ clock'[d] <= MaxLife
    BY <1>0 DEF Fresh
  <2>1. d # c
    BY <1>6
  <2>2. /\ PeerOf[d] \in DOMAIN peers
        /\ peers[PeerOf[d]].age <= clock[d]
        /\ clock[d] <= MaxLife
        /\ clock'[d] = clock[d]
    BY <1>t, <1>6, <2>1 DEF Fresh
  <2>3. peers[PeerOf[d]].age \in Nat /\ peers'[PeerOf[d]].age \in Nat /\ clock[d] \in Nat
    BY <1>t, <1>5, <2>2, ClocksType DEF TypeOK, IsTable, PeerInfo, Ages
  <2>4. CASE PeerOf[d] = p
    BY <1>5, <2>2, <2>3, <2>4
  <2>5. CASE PeerOf[d] # p
    BY <1>5, <2>2, <2>5
  <2> QED
    BY <2>4, <2>5
<1>8. \A q : q # p => Live(q)' = Live(q)
  BY <1>6 DEF Live
<1>9. Live(p)' = Live(p) \ {c} /\ c \in Live(p)
  BY <1>0, <1>6 DEF Live
<1>10. Cardinality(Live(p)') = Cardinality(Live(p)) - 1
  BY <1>9, LiveFinite, FS_RemoveElement
<1>11. ConnectionsExact'
  <2> SUFFICES ASSUME NEW q \in Peers PROVE Cardinality(Live(q)') = Counted(peers', q)
    BY DEF ConnectionsExact, Counted
  <2>1. CASE q = p
    BY <1>1, <1>5, <1>10, <2>1, LiveFinite DEF Counted, Dec
  <2>2. CASE q # p
    <3>1. Cardinality(Live(q)') = Counted(peers, q)
      BY <1>t, <1>0, <1>8, <2>2 DEF ConnectionsExact, Counted
    <3> QED
      BY <1>5, <2>2, <3>1 DEF Counted
  <2> QED
    BY <2>1, <2>2
<1>12. AdmissionLimit'
  <2>1. \A q : Admitted(q)' = Admitted(q)
    BY <1>0, <1>6 DEF Admitted
  <2> QED
    BY <1>t, <2>1 DEF AdmissionLimit
<1> QED
  BY <1>6, <1>7, <1>11, <1>12 DEF ServerInv

LEMMA TickInv == ASSUME ServerInv, TypeOK', Tick PROVE ServerInv'
<1>t. TypeOK /\ Fresh /\ ConnectionsExact /\ AdmissionLimit
  BY DEF ServerInv
<1>1. /\ DOMAIN peers' = DOMAIN peers
      /\ \A q \in DOMAIN peers : /\ peers'[q].connections = peers[q].connections
                                 /\ peers'[q].age <= peers[q].age + 1
  BY <1>t, ElapseTable DEF Tick, TypeOK
<1>2. task' = task /\ running' = running
  BY DEF Tick
<1>3. Fresh'
  <2> SUFFICES ASSUME NEW d \in Conns, task[d] \in {"session", "closing"}
               PROVE  /\ running
                      /\ PeerOf[d] \in DOMAIN peers'
                      /\ peers'[PeerOf[d]].age <= clock'[d]
                      /\ clock'[d] <= MaxLife
    BY <1>2 DEF Fresh
  <2>1. clock'[d] = clock[d] + 1 /\ clock[d] < MaxLife
    BY DEF Tick
  <2>2. running /\ PeerOf[d] \in DOMAIN peers /\ peers[PeerOf[d]].age <= clock[d]
    BY <1>t DEF Fresh
  <2>3. peers[PeerOf[d]].age \in Nat /\ peers'[PeerOf[d]].age \in Nat /\ clock[d] \in Nat
    BY <1>t, <1>1, <2>2, ClocksType DEF TypeOK, IsTable, PeerInfo, Ages
  <2> QED
    BY <1>1, <2>1, <2>2, <2>3, ServerAssumption
<1>4. \A q : Live(q)' = Live(q) /\ Admitted(q)' = Admitted(q)
  BY <1>2 DEF Live, Admitted
<1> QED
  BY <1>t, <1>1, <1>2, <1>3, <1>4 DEF ServerInv, ConnectionsExact, AdmissionLimit

\* After a failure of the listener, and after the restart, nothing is live.
LEMMA DownInv ==
  ASSUME ServerInv, TypeOK', ListenerFails \/ Restart
  PROVE  ServerInv'
<1>t. TypeOK /\ Fresh
  BY DEF ServerInv
<1>1. \A d \in Conns : task'[d] \notin {"session", "closing"}
  BY <1>t DEF ListenerFails, Restart, Fresh
<1>2. \A q : Live(q)' = {} /\ Admitted(q)' = {}
  BY <1>1 DEF Live, Admitted
<1>3. Fresh'
  BY <1>1 DEF Fresh
<1>4. ConnectionsExact'
  BY <1>2, FS_EmptySet DEF ConnectionsExact, ListenerFails, Restart, EmptyTable
<1>5. AdmissionLimit'
  BY <1>2, FS_EmptySet, Fail2BanAssumption DEF AdmissionLimit
<1> QED
  BY <1>3, <1>4, <1>5 DEF ServerInv

LEMMA ServerInvInit == Init => ServerInv
<1> SUFFICES ASSUME Init PROVE ServerInv
  OBVIOUS
<1>1. \A q : Live(q) = {} /\ Admitted(q) = {}
  BY DEF Init, Live, Admitted
<1>2. Fresh
  BY DEF Init, Fresh
<1>3. ConnectionsExact
  BY <1>1, FS_EmptySet DEF Init, ConnectionsExact, EmptyTable
<1>4. AdmissionLimit
  BY <1>1, FS_EmptySet, Fail2BanAssumption DEF AdmissionLimit
<1> QED
  BY <1>2, <1>3, <1>4, TypeInit DEF ServerInv

LEMMA ServerInvStep == ASSUME LongBan PROVE ServerInv /\ [Next]_vars => ServerInv'
<1> SUFFICES ASSUME ServerInv, [Next]_vars PROVE ServerInv'
  OBVIOUS
<1>t. TypeOK'
  BY TypeStep DEF ServerInv
<1>1. CASE UNCHANGED vars
  BY <1>1 DEF vars, ServerInv, TypeOK, Fresh, ConnectionsExact, AdmissionLimit, Live, Admitted
<1>2. CASE Next
  BY <1>t, <1>2, OnConnectInv, SessionEndsInv, OnDisconnectInv, TickInv, DownInv DEF Next
<1> QED
  BY <1>1, <1>2

\* Server: with every ban at least as long as the longest session, the count
\* on record for a peer is exactly the number of connections it holds.
THEOREM CountsExact == ASSUME LongBan PROVE Spec => []ConnectionsExact
<1>1. ServerInv => ConnectionsExact
  BY DEF ServerInv
<1>2. ServerInv /\ [Next]_vars => ServerInv'
  BY ServerInvStep
<1> QED
  BY <1>1, <1>2, ServerInvInit, PTL DEF Spec

\* Server: under the same condition no peer exceeds max_connections sessions.
THEOREM AdmissionLimited == ASSUME LongBan PROVE Spec => []AdmissionLimit
<1>1. ServerInv => AdmissionLimit
  BY DEF ServerInv
<1>2. ServerInv /\ [Next]_vars => ServerInv'
  BY ServerInvStep
<1> QED
  BY <1>1, <1>2, ServerInvInit, PTL DEF Spec

--------------------------------------------------------------------------------
(* Server implements ConnectionQuota *)

\* The two modules count alike.
LEMMA SameCardinality == \A S : Quota!Cardinality(S) = Cardinality(S)
BY DEF Quota!Cardinality, Cardinality

LEMMA QuotaStep ==
  ASSUME LongBan, ServerInv, ServerInv', [Next]_vars
  PROVE  [Quota!QuotaNext]_<<OpenConns, AdmittedConns>>
<1> USE DEF OpenConns, AdmittedConns
<1>t. TypeOK
  BY DEF ServerInv
<1>1. ASSUME NEW c \in Conns, OnConnect(c)
      PROVE  Quota!Reject(c) \/ Quota!Admit(c)
  <2> DEFINE p == PeerOf[c]
  <2>1. /\ task[c] = "new"
        /\ \A d \in Conns \ {c} : task'[d] = task[d]
        /\ task'[c] \in {"session", "closing"}
    BY <1>t, <1>1 DEF OnConnect, TypeOK
  <2>2. c \notin OpenConns /\ OpenConns' = OpenConns \cup {c}
    BY <2>1
  <2>3. CASE task'[c] = "closing"
    <3>1. AdmittedConns' = AdmittedConns
      BY <2>1, <2>3
    <3> QED
      BY <2>2, <3>1 DEF Quota!Reject
  <2>4. CASE task'[c] = "session"
    <3>1. AdmittedConns' = AdmittedConns \cup {c}
      BY <2>1, <2>4
    <3>2. Verdict(peers', p) = "Ok" /\ p \in AllowedPeers
      BY <1>t, <1>1, <2>4 DEF OnConnect, TypeOK
    <3>3. running' /\ p \in DOMAIN peers' /\ p \in Peers
      BY <2>4, ServerAssumption DEF ServerInv, Fresh
    <3>4. peers'[p].connections = Cardinality(Live(p)')
      BY <3>3 DEF ServerInv, ConnectionsExact
    <3>5. Quota!Of(p, OpenConns') = Live(p)'
      BY DEF Quota!Of, Live
    <3>6. peers'[p].connections \in Nat
      <4>1. peers' \in [DOMAIN peers' -> PeerInfo]
        BY DEF ServerInv, TypeOK, IsTable
      <4> QED
        BY <3>3, <4>1 DEF PeerInfo
    <3>7. Quota!Cardinality(Quota!Of(p, OpenConns')) <= MaxConnections
      BY SameCardinality, <3>2, <3>3, <3>4, <3>5, <3>6, Fail2BanAssumption DEF Verdict
    <3> QED
      BY <2>2, <3>1, <3>2, <3>7 DEF Quota!Admit
  <2> QED
    BY <2>1, <2>3, <2>4
<1>2. ASSUME NEW c \in Conns, NEW done \in BOOLEAN, SessionEnds(c, done)
      PROVE  Quota!Finish(c)
  BY <1>t, <1>2 DEF SessionEnds, TypeOK, Quota!Finish
<1>3. ASSUME NEW c \in Conns, OnDisconnect(c)
      PROVE  Quota!Close(c)
  <2>1. task'[c] = "done" /\ task[c] = "closing"
    BY <1>3, OnDisconnectInv DEF OnDisconnect, ServerInv
  <2>2. \A d \in Conns \ {c} : task'[d] = task[d]
    BY <1>t, <1>3 DEF OnDisconnect, TypeOK
  <2> QED
    BY <2>1, <2>2 DEF Quota!Close
<1>4. CASE Tick \/ UNCHANGED vars
  BY <1>4 DEF Tick, vars
<1>5. CASE ListenerFails
  BY <1>5 DEF ListenerFails, Quota!DropAll, Quota!QuotaNext
<1>6. CASE Restart
  BY <1>6 DEF Restart
<1> QED
  BY <1>1, <1>2, <1>3, <1>4, <1>5, <1>6 DEF Next, Quota!QuotaNext

\* Server implements the connection quota of ConnectionQuota, whatever the
\* interleaving of its tasks, when no ban is shorter than a session.
THEOREM QuotaImplemented == ASSUME LongBan PROVE Spec => ImplementsQuota
<1>1. Init => Quota!QuotaInit
  BY DEF Init, Quota!QuotaInit, OpenConns, AdmittedConns
<1>2. ServerInv /\ [Next]_vars => ServerInv'
  BY ServerInvStep
<1>3. ServerInv /\ ServerInv' /\ [Next]_vars
        => [Quota!QuotaNext]_<<OpenConns, AdmittedConns>>
  BY QuotaStep
<1> QED
  BY <1>1, <1>2, <1>3, ServerInvInit, PTL DEF Spec, ImplementsQuota, Quota!QuotaSpec

--------------------------------------------------------------------------------
(* What holds of the accounts whatever the ban: fails and, where overflow is  *)
(* checked, connections are never on record without a cause                   *)

LEMMA PushConnectionFails ==
  ASSUME NEW t, IsTable(t), NEW p \in Peers
  PROVE  PushConnection(t, p)[p].fails = IF p \in DOMAIN t THEN t[p].fails ELSE 0
<1>1. CASE p \in DOMAIN t
  <2>1. t[p] \in PeerInfo
    BY <1>1 DEF IsTable
  <2> QED
    BY <1>1, <2>1 DEF PushConnection, Record, PeerInfo
<1>2. CASE p \notin DOMAIN t
  BY <1>2 DEF PushConnection, Record
<1> QED
  BY <1>1, <1>2

LEMMA PopConnectionFails ==
  ASSUME NEW t, IsTable(t), NEW p \in DOMAIN t
  PROVE  PopConnection(t, p)[p].fails = t[p].fails
<1>1. t[p] \in PeerInfo
  BY DEF IsTable
<1> QED
  BY <1>1 DEF PopConnection, Record, PeerInfo

LEMMA PushFailFails ==
  ASSUME NEW t, IsTable(t), NEW p \in DOMAIN t
  PROVE  PushFail(t, p)[p].fails = Inc(t[p].fails)
<1>1. t[p] \in PeerInfo
  BY DEF IsTable
<1> QED
  BY <1>1 DEF PushFail, Record, PeerInfo

LEMMA ElapseFails ==
  ASSUME NEW t, IsTable(t), NEW p \in DOMAIN t
  PROVE  Elapse(t)[p].fails = t[p].fails
<1>1. t[p] \in PeerInfo
  BY DEF IsTable
<1> QED
  BY <1>1 DEF Elapse, PeerInfo

\* The table after a connection: no peer has more fails, only the one that
\* connects has more connections, and one more at that.
LEMMA OnConnectTable ==
  ASSUME TypeOK, NEW c \in Conns, OnConnect(c), NEW q \in DOMAIN peers'
  PROVE  /\ q \in DOMAIN peers => /\ peers'[q].fails = peers[q].fails
                                  /\ q # PeerOf[c] => peers'[q] = peers[q]
                                  /\ q = PeerOf[c] => peers'[q].connections = Inc(peers[q].connections)
         /\ q \notin DOMAIN peers => /\ q = PeerOf[c]
                                     /\ peers'[q].fails = 0
                                     /\ peers'[q].connections = 1
<1> DEFINE p == PeerOf[c]
           t == PushConnection(peers, p)
<1>1. p \in Peers /\ IsTable(peers)
  BY ServerAssumption DEF TypeOK
<1>2. /\ IsTable(t)
      /\ DOMAIN t = DOMAIN peers \cup {p}
      /\ t[p].connections = IF p \in DOMAIN peers THEN Inc(peers[p].connections) ELSE 1
      /\ t[p].fails = IF p \in DOMAIN peers THEN peers[p].fails ELSE 0
      /\ \A r \in DOMAIN peers \ {p} : t[r] = peers[r]
  BY <1>1, PushConnectionTable, PushConnectionFails
<1>3. q \in DOMAIN t /\ peers'[q] = t[q]
  BY <1>2, EvictTable DEF OnConnect
<1> HIDE DEF t
<1> QED
  BY <1>2, <1>3

\* The table after a disconnection, which a panic may have cut short.
LEMMA OnDisconnectTable ==
  ASSUME TypeOK, NEW c \in Conns, OnDisconnect(c)
  PROVE  /\ DOMAIN peers' = DOMAIN peers
         /\ \A q \in DOMAIN peers \ {PeerOf[c]} : peers'[q] = peers[q]
         /\ PeerOf[c] \in DOMAIN peers =>
              LET old == peers[PeerOf[c]]
                  new == peers'[PeerOf[c]]
              IN  /\ new.fails = IF productive[c] THEN old.fails ELSE Inc(old.fails)
                  /\ overflowChecks =>
                       new.connections = IF old.connections = 0 THEN 0 ELSE old.connections - 1
<1> DEFINE p == PeerOf[c]
           t == IF productive[c] THEN peers ELSE PushFail(peers, p)
<1>1. p \in Peers /\ IsTable(peers)
  BY ServerAssumption DEF TypeOK
<1>2. /\ IsTable(t)
      /\ DOMAIN t = DOMAIN peers
      /\ \A q \in DOMAIN peers \ {p} : t[q] = peers[q]
      /\ p \in DOMAIN peers =>
           /\ t[p].connections = peers[p].connections
           /\ t[p].fails = IF productive[c] THEN peers[p].fails ELSE Inc(peers[p].fails)
  BY <1>1, PushFailTable, PushFailFails
<1>3. \/ /\ overflowChecks /\ PopOverflows(t, p)
         /\ peers' = t
      \/ /\ ~(overflowChecks /\ PopOverflows(t, p))
         /\ peers' = PopConnection(t, p)
  BY DEF OnDisconnect
<1> HIDE DEF t
<1>4. CASE overflowChecks /\ PopOverflows(t, p) /\ peers' = t
  BY <1>2, <1>4 DEF PopOverflows
<1>5. CASE ~(overflowChecks /\ PopOverflows(t, p)) /\ peers' = PopConnection(t, p)
  <2>1. /\ DOMAIN peers' = DOMAIN t
        /\ \A q \in DOMAIN t \ {p} : peers'[q] = t[q]
        /\ p \in DOMAIN t => peers'[p].connections = Dec(t[p].connections)
    BY <1>1, <1>2, <1>5, PopConnectionTable
  <2>2. p \in DOMAIN t => peers'[p].fails = t[p].fails
    BY <1>2, <1>5, PopConnectionFails
  <2>3. p \in DOMAIN t /\ overflowChecks => t[p].connections # 0
    BY <1>5 DEF PopOverflows
  <2> QED
    BY <1>2, <2>1, <2>2, <2>3 DEF Dec
<1> QED
  BY <1>3, <1>4, <1>5

\* The tasks of a peer that ended without a mail, or in a panic.
Ended(p) == Failed(p) \cup {c \in Conns : PeerOf[c] = p /\ task[c] = "panicked"}

LEMMA EndedFinite ==
  ASSUME NEW p
  PROVE  IsFiniteSet(Ended(p)) /\ Cardinality(Ended(p)) \in Nat
<1>1. Ended(p) \subseteq Conns
  BY DEF Ended, Failed
<1> QED
  BY <1>1, FS_Subset, FS_CardinalityType, ServerAssumption

LEMMA FailsStep == ASSUME TypeOK, FailsAccounted, [Next]_vars PROVE FailsAccounted'
<1> SUFFICES ASSUME running', NEW p \in DOMAIN peers'
             PROVE  peers'[p].fails <= Cardinality(Ended(p)')
  BY DEF FailsAccounted, Ended, Failed
<1>t. p \in Peers
  BY TypeStep DEF TypeOK, IsTable
<1>f. running /\ p \in DOMAIN peers => /\ peers[p].fails <= Cardinality(Ended(p))
                                       /\ peers[p].fails \in 0 .. MaxU32
  BY DEF FailsAccounted, Ended, Failed, TypeOK, IsTable, PeerInfo
<1>e. Cardinality(Ended(p)) \in Nat /\ Cardinality(Ended(p)') \in Nat
  <2>1. Ended(p)' \subseteq Conns
    BY DEF Ended, Failed
  <2> QED
    BY <2>1, EndedFinite, FS_Subset, FS_CardinalityType, ServerAssumption
<1>1. ASSUME NEW c \in Conns, OnConnect(c)
      PROVE  peers'[p].fails <= Cardinality(Ended(p)')
  <2>1. Ended(p)' = Ended(p)
    BY <1>1 DEF OnConnect, Ended, Failed, TypeOK
  <2>2. p \in DOMAIN peers => peers'[p].fails = peers[p].fails
    BY <1>1, OnConnectTable
  <2>3. p \notin DOMAIN peers => peers'[p].fails = 0
    BY <1>1, OnConnectTable
  <2> QED
    BY <1>1, <1>e, <1>f, <2>1, <2>2, <2>3 DEF OnConnect
<1>2. ASSUME NEW c \in Conns, NEW done \in BOOLEAN, SessionEnds(c, done)
      PROVE  peers'[p].fails <= Cardinality(Ended(p)')
  <2>1. Ended(p)' = Ended(p)
    BY <1>2 DEF SessionEnds, Ended, Failed, TypeOK
  <2> QED
    BY <1>2, <1>f, <2>1 DEF SessionEnds
<1>3. ASSUME NEW c \in Conns, OnDisconnect(c)
      PROVE  peers'[p].fails <= Cardinality(Ended(p)')
  <2>1. /\ task[c] = "closing" /\ task'[c] \in {"done", "panicked"}
        /\ \A d \in Conns \ {c} : task'[d] = task[d]
        /\ productive' = productive /\ running
    BY <1>3 DEF OnDisconnect, TypeOK
  <2>2. p \in DOMAIN peers /\ (p # PeerOf[c] => peers'[p] = peers[p])
    BY <1>3, OnDisconnectTable
  <2>3. Ended(p) \subseteq Ended(p)'
    BY <2>1 DEF Ended, Failed
  <2>4. Cardinality(Ended(p)) <= Cardinality(Ended(p)')
    <3>1. Ended(p)' \subseteq Conns
      BY DEF Ended, Failed
    <3>2. IsFiniteSet(Ended(p)')
      BY <3>1, FS_Subset, ServerAssumption
    <3> QED
      BY <2>3, <3>2, FS_Subset
  <2>5. CASE p # PeerOf[c] \/ productive[c]
    <3>1. peers'[p].fails = peers[p].fails
      BY <1>3, <2>2, <2>5, OnDisconnectTable
    <3> QED
      BY <1>e, <1>f, <2>1, <2>2, <2>4, <3>1
  <2>6. CASE p = PeerOf[c] /\ ~productive[c]
    <3>1. peers'[p].fails = Inc(peers[p].fails)
      BY <1>3, <2>2, <2>6, OnDisconnectTable
    <3>2. Ended(p)' = Ended(p) \cup {c} /\ c \notin Ended(p)
      BY <2>1, <2>6 DEF Ended, Failed
    <3>3. Cardinality(Ended(p)') = Cardinality(Ended(p)) + 1
      BY <3>2, EndedFinite, FS_AddElement
    <3> QED
      BY <1>e, <1>f, <2>1, <2>2, <3>1, <3>3, Fail2BanAssumption DEF Inc
  <2> QED
    BY <2>5, <2>6
<1>4. CASE Tick
  <2>1. Ended(p)' = Ended(p)
    BY <1>4 DEF Tick, Ended, Failed
  <2>2. p \in DOMAIN peers /\ peers'[p].fails = peers[p].fails
    BY <1>4, ElapseTable, ElapseFails DEF Tick, TypeOK
  <2> QED
    BY <1>4, <1>f, <2>1, <2>2 DEF Tick
<1>5. CASE ListenerFails \/ Restart
  BY <1>5 DEF ListenerFails, Restart, EmptyTable
<1>6. CASE UNCHANGED vars
  <2>1. Ended(p)' = Ended(p)
    BY <1>6 DEF vars, Ended, Failed
  <2> QED
    BY <1>6, <1>f, <2>1 DEF vars
<1> QED
  BY <1>1, <1>2, <1>3, <1>4, <1>5, <1>6 DEF Next

LEMMA FailsInit == Init => FailsAccounted
BY DEF Init, FailsAccounted, EmptyTable

\* Server: no peer has more fails on record than sessions of its own that ended
\* without a mail or in a panic, in any build and whatever is forgotten.
THEOREM FailsHaveCauses == Spec => []FailsAccounted
<1>1. TypeOK /\ FailsAccounted /\ [Next]_vars => TypeOK' /\ FailsAccounted'
  BY TypeStep, FailsStep
<1> QED
  BY <1>1, TypeInit, FailsInit, PTL DEF Spec

LEMMA CountStep == ASSUME TypeOK, CountNeverHigh, [Next]_vars PROVE CountNeverHigh'
<1> SUFFICES ASSUME running', overflowChecks', NEW p \in DOMAIN peers'
             PROVE  peers'[p].connections <= Cardinality(Live(p)')
  BY DEF CountNeverHigh
<1>t. p \in Peers
  BY TypeStep DEF TypeOK, IsTable
<1>o. overflowChecks
  BY DEF Next, OnConnect, SessionEnds, OnDisconnect, Tick, ListenerFails, Restart, vars
<1>f. running /\ p \in DOMAIN peers => /\ peers[p].connections <= Cardinality(Live(p))
                                       /\ peers[p].connections \in 0 .. MaxU32
  BY <1>o DEF CountNeverHigh, TypeOK, IsTable, PeerInfo
<1>e. Cardinality(Live(p)) \in Nat /\ Cardinality(Live(p)') \in Nat
  <2>1. Live(p)' \subseteq Conns
    BY DEF Live
  <2> QED
    BY <2>1, LiveFinite, FS_Subset, FS_CardinalityType, ServerAssumption
<1>1. ASSUME NEW c \in Conns, OnConnect(c)
      PROVE  peers'[p].connections <= Cardinality(Live(p)')
  <2>1. /\ task[c] = "new" /\ task'[c] \in {"session", "closing"}
        /\ \A d \in Conns \ {c} : task'[d] = task[d]
    BY <1>1 DEF OnConnect, TypeOK
  <2>2. running
    BY <1>1 DEF OnConnect
  <2>3. CASE p # PeerOf[c]
    <3>1. Live(p)' = Live(p)
      BY <2>1, <2>3 DEF Live
    <3>2. p \in DOMAIN peers /\ peers'[p] = peers[p]
      BY <1>1, <2>3, OnConnectTable
    <3> QED
      BY <1>f, <2>2, <3>1, <3>2
  <2>4. CASE p = PeerOf[c]
    <3>1. Live(p)' = Live(p) \cup {c} /\ c \notin Live(p)
      BY <2>1, <2>4 DEF Live
    <3>2. Cardinality(Live(p)') = Cardinality(Live(p)) + 1
      BY <3>1, LiveFinite, FS_AddElement
    <3>3. peers'[p].connections = IF p \in DOMAIN peers THEN Inc(peers[p].connections) ELSE 1
      BY <1>1, <2>4, OnConnectTable
    <3> QED
      BY <1>e, <1>f, <2>2, <3>2, <3>3, Fail2BanAssumption DEF Inc
  <2> QED
    BY <2>3, <2>4
<1>2. ASSUME NEW c \in Conns, NEW done \in BOOLEAN, SessionEnds(c, done)
      PROVE  peers'[p].connections <= Cardinality(Live(p)')
  <2>1. Live(p)' = Live(p)
    BY <1>2 DEF SessionEnds, Live, TypeOK
  <2> QED
    BY <1>2, <1>f, <2>1 DEF SessionEnds
<1>3. ASSUME NEW c \in Conns, OnDisconnect(c)
      PROVE  peers'[p].connections <= Cardinality(Live(p)')
  <2>1. /\ task[c] = "closing" /\ task'[c] \in {"done", "panicked"}
        /\ \A d \in Conns \ {c} : task'[d] = task[d]
        /\ running
    BY <1>3 DEF OnDisconnect, TypeOK
  <2>2. p \in DOMAIN peers
    BY <1>3, OnDisconnectTable
  <2>3. CASE p # PeerOf[c]
    <3>1. Live(p)' = Live(p)
      BY <2>1, <2>3 DEF Live
    <3>2. peers'[p] = peers[p]
      BY <1>3, <2>2, <2>3, OnDisconnectTable
    <3> QED
      BY <1>f, <2>1, <2>2, <3>1, <3>2
  <2>4. CASE p = PeerOf[c]
    <3>1. Live(p)' = Live(p) \ {c} /\ c \in Live(p)
      BY <2>1, <2>4 DEF Live
    <3>2. Cardinality(Live(p)') = Cardinality(Live(p)) - 1
      BY <3>1, LiveFinite, FS_RemoveElement
    <3>3. peers'[p].connections =
            IF peers[p].connections = 0 THEN 0 ELSE peers[p].connections - 1
      BY <1>3, <1>o, <2>2, <2>4, OnDisconnectTable
    <3> QED
      BY <1>e, <1>f, <2>1, <2>2, <3>2, <3>3
  <2> QED
    BY <2>3, <2>4
<1>4. CASE Tick
  <2>1. Live(p)' = Live(p)
    BY <1>4 DEF Tick, Live
  <2>2. p \in DOMAIN peers /\ peers'[p].connections = peers[p].connections
    BY <1>4, ElapseTable DEF Tick, TypeOK
  <2> QED
    BY <1>4, <1>f, <2>1, <2>2 DEF Tick
<1>5. CASE ListenerFails \/ Restart
  BY <1>5 DEF ListenerFails, Restart, EmptyTable
<1>6. CASE UNCHANGED vars
  <2>1. Live(p)' = Live(p)
    BY <1>6 DEF vars, Live
  <2> QED
    BY <1>6, <1>f, <2>1 DEF vars
<1> QED
  BY <1>1, <1>2, <1>3, <1>4, <1>5, <1>6 DEF Next

LEMMA CountInit == Init => CountNeverHigh
BY DEF Init, CountNeverHigh, EmptyTable

\* Server: where overflow is checked a peer never has more connections on
\* record than it holds, even if a ban shorter than a session loses some.
THEOREM CountsNeverHigh == Spec => []CountNeverHigh
<1>1. TypeOK /\ CountNeverHigh /\ [Next]_vars => TypeOK' /\ CountNeverHigh'
  BY TypeStep, CountStep
<1> QED
  BY <1>1, TypeInit, CountInit, PTL DEF Spec

--------------------------------------------------------------------------------
(* Verdicts: a rejection has a cause of the peer's own, and a ban is enforced *)

\* Under LongBan no task panics, as no count is ever lost.
NoPanic == \A c \in Conns : task[c] # "panicked"

\* The record of a peer outlives what it has to remember: the failed sessions
\* of the last max_age are no older than the record, and all counted in it.
Remembered ==
  \A c \in Conns : running /\ task[c] = "done" /\ ~productive[c] /\ clock[c] <= MaxAge =>
    /\ PeerOf[c] \in DOMAIN peers
    /\ peers[PeerOf[c]].age <= clock[c]

RecentOnRecord ==
  running =>
    \A p \in DOMAIN peers : Cardinality(RecentlyFailed(p)) <= peers[p].fails

\* While the process is down no task is left.
Down == ~running => \A c \in Conns : task[c] \in {"new", "lost"}

FailsInv == ServerInv /\ FailsAccounted /\ NoPanic /\ Down /\ Remembered /\ RecentOnRecord

LEMMA NoPanicStep == ASSUME ServerInv, ServerInv', NoPanic, [Next]_vars PROVE NoPanic'
<1>t. TypeOK /\ TypeOK'
  BY DEF ServerInv
<1>1. ASSUME NEW c \in Conns, OnConnect(c) PROVE NoPanic'
  BY <1>1, <1>t DEF OnConnect, NoPanic, TypeOK
<1>2. ASSUME NEW c \in Conns, NEW done \in BOOLEAN, SessionEnds(c, done) PROVE NoPanic'
  BY <1>2, <1>t DEF SessionEnds, NoPanic, TypeOK
<1>3. ASSUME NEW c \in Conns, OnDisconnect(c) PROVE NoPanic'
  <2>1. task'[c] = "done"
    BY <1>3, <1>t, OnDisconnectInv
  <2>2. \A d \in Conns \ {c} : task'[d] = task[d]
    BY <1>3, <1>t DEF OnDisconnect, TypeOK
  <2> QED
    BY <2>1, <2>2 DEF NoPanic
<1>4. CASE Tick \/ ListenerFails \/ Restart \/ UNCHANGED vars
  BY <1>4, <1>t DEF Tick, ListenerFails, Restart, vars, NoPanic
<1> QED
  BY <1>1, <1>2, <1>3, <1>4 DEF Next

LEMMA RecentlyFailedFinite ==
  ASSUME NEW p
  PROVE  /\ IsFiniteSet(RecentlyFailed(p)) /\ Cardinality(RecentlyFailed(p)) \in Nat
         /\ IsFiniteSet(RecentlyFailed(p)') /\ Cardinality(RecentlyFailed(p)') \in Nat
<1>1. RecentlyFailed(p) \subseteq Conns /\ RecentlyFailed(p)' \subseteq Conns
  BY DEF RecentlyFailed, Failed
<1> QED
  BY <1>1, FS_Subset, FS_CardinalityType, ServerAssumption

\* A peer that is not on record has no recent fail.
LEMMA NothingForgotten ==
  ASSUME Remembered, running, NEW p, p \notin DOMAIN peers
  PROVE  RecentlyFailed(p) = {} /\ Cardinality(RecentlyFailed(p)) = 0
<1>1. RecentlyFailed(p) = {}
  BY DEF Remembered, RecentlyFailed, Failed
<1> QED
  BY <1>1, FS_EmptySet

\* Under LongBan the count of fails never wraps: with the session that ends
\* there are as many connections as the count may come to.
LEMMA FailsNeverWrap ==
  ASSUME LongBan, ServerInv, FailsAccounted, running,
         NEW c \in Conns, task[c] = "closing", PeerOf[c] \in DOMAIN peers
  PROVE  Inc(peers[PeerOf[c]].fails) = peers[PeerOf[c]].fails + 1
<1> DEFINE p == PeerOf[c]
<1>1. peers[p].fails <= Cardinality(Ended(p)) /\ peers[p].fails \in Nat
  BY DEF FailsAccounted, Ended, Failed, ServerInv, TypeOK, IsTable, PeerInfo
<1>2. Ended(p) \cup {c} \subseteq Conns /\ c \notin Ended(p)
  BY DEF Ended, Failed
<1>3. Cardinality(Ended(p) \cup {c}) = Cardinality(Ended(p)) + 1
  BY <1>2, EndedFinite, FS_AddElement
<1>4. Cardinality(Ended(p) \cup {c}) <= Cardinality(Conns)
  BY <1>2, FS_Subset, ServerAssumption
<1> QED
  BY <1>1, <1>3, <1>4, EndedFinite, LiveFinite, Fail2BanAssumption DEF Inc, LongBan

LEMMA RememberedOnConnect ==
  ASSUME FailsInv, NEW c \in Conns, OnConnect(c)
  PROVE  Remembered' /\ RecentOnRecord'
<1> DEFINE p == PeerOf[c]
           t == PushConnection(peers, p)
<1>t. /\ TypeOK /\ Remembered /\ RecentOnRecord /\ running /\ IsTable(peers) /\ p \in Peers
      /\ task[c] = "new"
  BY ServerAssumption DEF FailsInv, ServerInv, TypeOK, OnConnect
<1>1. /\ task'[c] \in {"session", "closing"}
      /\ \A d \in Conns \ {c} : /\ task'[d] = task[d]
                                /\ productive'[d] = productive[d]
                                /\ clock'[d] = clock[d]
  BY <1>t DEF OnConnect, TypeOK
<1>2. /\ IsTable(t) /\ DOMAIN t = DOMAIN peers \cup {p} /\ t[p].age = 0
      /\ \A q \in DOMAIN peers \ {p} : t[q] = peers[q]
  BY <1>t, PushConnectionTable
<1>3. /\ \A q \in DOMAIN t : q \in DOMAIN peers' <=> t[q].age <= MaxAge
      /\ \A q \in DOMAIN peers' : q \in DOMAIN t /\ peers'[q] = t[q]
  BY <1>2, EvictTable DEF OnConnect
<1> HIDE DEF t
<1>4. p \in DOMAIN peers' /\ peers'[p].age = 0
  BY <1>2, <1>3, Fail2BanAssumption
<1>5. Remembered'
  <2> SUFFICES ASSUME NEW d \in Conns, task'[d] = "done", ~productive'[d], clock'[d] <= MaxAge
               PROVE  PeerOf[d] \in DOMAIN peers' /\ peers'[PeerOf[d]].age <= clock'[d]
    BY DEF Remembered
  <2>1. d # c
    BY <1>1
  <2>2. /\ PeerOf[d] \in DOMAIN peers /\ peers[PeerOf[d]].age <= clock[d]
        /\ clock[d] <= MaxAge /\ clock'[d] = clock[d]
    BY <1>t, <1>1, <2>1 DEF Remembered
  <2>3. clock[d] \in Nat /\ peers[PeerOf[d]].age \in Nat
    BY <1>t, <2>2, ClocksType DEF TypeOK, IsTable, PeerInfo, Ages
  <2>4. CASE PeerOf[d] = p
    BY <1>4, <2>2, <2>3, <2>4
  <2>5. CASE PeerOf[d] # p
    BY <1>2, <1>3, <2>2, <2>3, <2>5, Fail2BanAssumption
  <2> QED
    BY <2>4, <2>5
<1>6. RecentOnRecord'
  <2> SUFFICES ASSUME NEW q \in DOMAIN peers'
               PROVE  Cardinality(RecentlyFailed(q)') <= peers'[q].fails
    BY DEF RecentOnRecord
  <2>1. RecentlyFailed(q)' = RecentlyFailed(q)
    BY <1>t, <1>1 DEF RecentlyFailed, Failed
  <2>2. CASE q \in DOMAIN peers
    <3>1. peers'[q].fails = peers[q].fails
      BY <1>t, <2>2, OnConnectTable
    <3> QED
      BY <1>t, <2>1, <2>2, <3>1 DEF RecentOnRecord
  <2>3. CASE q \notin DOMAIN peers
    <3>1. peers'[q].fails = 0
      BY <1>t, <2>3, OnConnectTable
    <3> QED
      BY <1>t, <2>1, <2>3, <3>1, NothingForgotten
  <2> QED
    BY <2>2, <2>3
<1> QED
  BY <1>5, <1>6

LEMMA RememberedOnDisconnect ==
  ASSUME LongBan, FailsInv, NEW c \in Conns, OnDisconnect(c)
  PROVE  Remembered' /\ RecentOnRecord'
<1> DEFINE p == PeerOf[c]
           t == IF productive[c] THEN peers ELSE PushFail(peers, p)
<1>t. /\ ServerInv /\ TypeOK /\ FailsAccounted /\ Remembered /\ RecentOnRecord
      /\ running /\ IsTable(peers) /\ p \in Peers /\ task[c] = "closing"
      /\ productive' = productive
  BY ServerAssumption DEF FailsInv, ServerInv, TypeOK, OnDisconnect
<1>1. p \in DOMAIN peers /\ peers[p].connections # 0
  BY <1>t, NoOverflow
<1>2. /\ task'[c] = "done" /\ clock'[c] = 0
      /\ \A d \in Conns \ {c} : task'[d] = task[d] /\ clock'[d] = clock[d]
  <2>1. task'[c] = "done"
    BY <1>t, TypeStep, OnDisconnectInv DEF Next
  <2> QED
    BY <1>t, <2>1 DEF OnDisconnect, TypeOK
<1>3. /\ IsTable(t) /\ DOMAIN t = DOMAIN peers
      /\ t[p].connections = peers[p].connections
      /\ t[p].age = IF productive[c] THEN peers[p].age ELSE 0
      /\ \A q \in DOMAIN peers \ {p} : t[q] = peers[q]
  BY <1>t, <1>1, PushFailTable
<1>4. peers' = PopConnection(t, p)
  BY <1>1, <1>3 DEF OnDisconnect, PopOverflows
<1>5. /\ DOMAIN peers' = DOMAIN peers
      /\ peers'[p].age = IF productive[c] THEN peers[p].age ELSE 0
      /\ \A q \in DOMAIN peers \ {p} : peers'[q] = peers[q]
  <2> HIDE DEF t
  <2> QED
    BY <1>t, <1>1, <1>3, <1>4, PopConnectionTable
<1>6. Remembered'
  <2> SUFFICES ASSUME NEW d \in Conns, task'[d] = "done", ~productive'[d], clock'[d] <= MaxAge
               PROVE  PeerOf[d] \in DOMAIN peers' /\ peers'[PeerOf[d]].age <= clock'[d]
    BY DEF Remembered
  <2>1. CASE d = c
    BY <1>t, <1>1, <1>2, <1>5, <2>1
  <2>2. CASE d # c
    <3>1. /\ PeerOf[d] \in DOMAIN peers /\ peers[PeerOf[d]].age <= clock[d]
          /\ clock'[d] = clock[d] /\ clock[d] \in Nat
      BY <1>t, <1>2, <2>2, ClocksType DEF Remembered, TypeOK
    <3> QED
      BY <1>5, <3>1
  <2> QED
    BY <2>1, <2>2
<1>7. RecentOnRecord'
  <2> SUFFICES ASSUME NEW q \in DOMAIN peers
               PROVE  Cardinality(RecentlyFailed(q)') <= peers'[q].fails
    BY <1>5 DEF RecentOnRecord
  <2>0. Cardinality(RecentlyFailed(q)) <= peers[q].fails /\ peers[q].fails \in Nat
    BY <1>t DEF RecentOnRecord, IsTable, PeerInfo
  <2>1. CASE q # p \/ productive[c]
    <3>1. RecentlyFailed(q)' = RecentlyFailed(q)
      BY <1>t, <1>2, <2>1 DEF RecentlyFailed, Failed
    <3>2. peers'[q].fails = peers[q].fails
      BY <1>t, <2>1, OnDisconnectTable
    <3> QED
      BY <2>0, <3>1, <3>2
  <2>2. CASE q = p /\ ~productive[c]
    <3>1. RecentlyFailed(q)' = RecentlyFailed(q) \cup {c} /\ c \notin RecentlyFailed(q)
      BY <1>t, <1>2, <2>2, Fail2BanAssumption DEF RecentlyFailed, Failed
    <3>2. Cardinality(RecentlyFailed(q)') = Cardinality(RecentlyFailed(q)) + 1
      BY <3>1, RecentlyFailedFinite, FS_AddElement
    <3>3. peers'[q].fails = Inc(peers[q].fails)
      BY <1>t, <2>2, OnDisconnectTable
    <3>4. Inc(peers[q].fails) = peers[q].fails + 1
      BY <1>t, <1>1, <2>2, FailsNeverWrap
    <3> QED
      BY <2>0, <3>2, <3>3, <3>4, RecentlyFailedFinite
  <2> QED
    BY <2>1, <2>2
<1> QED
  BY <1>6, <1>7

LEMMA RememberedTick ==
  ASSUME FailsInv, Tick
  PROVE  Remembered' /\ RecentOnRecord'
<1>t. TypeOK /\ Remembered /\ RecentOnRecord /\ running /\ IsTable(peers)
  BY DEF FailsInv, ServerInv, TypeOK, Tick
<1>1. DOMAIN peers' = DOMAIN peers /\ task' = task /\ productive' = productive
  BY <1>t, ElapseTable DEF Tick
<1>2. \A q \in DOMAIN peers : /\ peers'[q].fails = peers[q].fails
                              /\ peers'[q].age <= peers[q].age + 1
                              /\ peers'[q].age \in Nat /\ peers[q].age \in Nat
  BY <1>t, <1>1, ElapseTable, ElapseFails DEF Tick, IsTable, PeerInfo, Ages
<1>3. \A d \in Conns : task[d] = "done" /\ clock'[d] <= MaxAge =>
        clock[d] <= MaxAge /\ clock[d] \in Nat /\ clock'[d] = clock[d] + 1
  BY <1>t, ClocksType, Fail2BanAssumption DEF Tick, TypeOK, Older
<1>4. Remembered'
  <2> SUFFICES ASSUME NEW d \in Conns, task[d] = "done", ~productive[d], clock'[d] <= MaxAge
               PROVE  PeerOf[d] \in DOMAIN peers' /\ peers'[PeerOf[d]].age <= clock'[d]
    BY <1>1 DEF Remembered
  <2>1. PeerOf[d] \in DOMAIN peers /\ peers[PeerOf[d]].age <= clock[d]
    BY <1>t, <1>3 DEF Remembered
  <2> QED
    BY <1>1, <1>2, <1>3, <2>1
<1>5. RecentOnRecord'
  <2> SUFFICES ASSUME NEW q \in DOMAIN peers
               PROVE  Cardinality(RecentlyFailed(q)') <= peers[q].fails
    BY <1>1, <1>2 DEF RecentOnRecord
  <2>1. RecentlyFailed(q)' \subseteq RecentlyFailed(q)
    BY <1>1, <1>3 DEF RecentlyFailed, Failed
  <2>2. Cardinality(RecentlyFailed(q)') <= Cardinality(RecentlyFailed(q))
    BY <2>1, RecentlyFailedFinite, FS_Subset
  <2>3. Cardinality(RecentlyFailed(q)) <= peers[q].fails /\ peers[q].fails \in Nat
    BY <1>t DEF RecentOnRecord, IsTable, PeerInfo
  <2> QED
    BY <2>2, <2>3, RecentlyFailedFinite
<1> QED
  BY <1>4, <1>5

\* The remaining steps change no fail that is remembered: the end of a session
\* is not yet that of its task, and a restart knows no finished task.
LEMMA RememberedOther ==
  ASSUME FailsInv,
         \/ \E c \in Conns, done \in BOOLEAN : SessionEnds(c, done)
         \/ ListenerFails
         \/ Restart
         \/ UNCHANGED vars
  PROVE  Remembered' /\ RecentOnRecord'
<1>t. TypeOK /\ Remembered /\ RecentOnRecord
  BY DEF FailsInv, ServerInv
<1>1. ASSUME NEW c \in Conns, NEW done \in BOOLEAN, SessionEnds(c, done)
      PROVE  Remembered' /\ RecentOnRecord'
  <2>1. /\ UNCHANGED <<running, peers, clock>>
        /\ task[c] = "session" /\ task'[c] = "closing"
        /\ \A d \in Conns \ {c} : task'[d] = task[d] /\ productive'[d] = productive[d]
    BY <1>1, <1>t DEF SessionEnds, TypeOK
  <2>2. \A q : RecentlyFailed(q)' = RecentlyFailed(q)
    BY <2>1 DEF RecentlyFailed, Failed
  <2>3. Remembered'
    BY <1>t, <2>1 DEF Remembered
  <2> QED
    BY <1>t, <2>1, <2>2, <2>3 DEF RecentOnRecord
<1>2. CASE ListenerFails
  BY <1>2 DEF ListenerFails, Remembered, RecentOnRecord
<1>3. CASE Restart
  <2>1. \A d \in Conns : task'[d] # "done"
    BY <1>3 DEF FailsInv, Down, Restart
  <2> QED
    BY <1>3, <2>1 DEF Restart, EmptyTable, Remembered, RecentOnRecord
<1>4. CASE UNCHANGED vars
  <2>1. \A q : RecentlyFailed(q)' = RecentlyFailed(q)
    BY <1>4 DEF vars, RecentlyFailed, Failed
  <2> QED
    BY <1>t, <1>4, <2>1 DEF vars, Remembered, RecentOnRecord
<1> QED
  BY <1>1, <1>2, <1>3, <1>4

LEMMA DownStep == ASSUME TypeOK, Down, [Next]_vars PROVE Down'
<1>1. ASSUME NEW c \in Conns, OnConnect(c) PROVE Down'
  BY <1>1 DEF OnConnect, Down
<1>2. ASSUME NEW c \in Conns, NEW done \in BOOLEAN, SessionEnds(c, done) PROVE Down'
  BY <1>2 DEF SessionEnds, Down
<1>3. ASSUME NEW c \in Conns, OnDisconnect(c) PROVE Down'
  BY <1>3 DEF OnDisconnect, Down
<1>4. CASE Tick \/ ListenerFails \/ Restart \/ UNCHANGED vars
  BY <1>4 DEF Tick, ListenerFails, Restart, vars, Down
<1> QED
  BY <1>1, <1>2, <1>3, <1>4 DEF Next

LEMMA FailsInvInit == Init => FailsInv
<1> SUFFICES ASSUME Init PROVE FailsInv
  OBVIOUS
<1>1. NoPanic /\ Down /\ Remembered /\ RecentOnRecord
  BY DEF Init, NoPanic, Down, Remembered, RecentOnRecord, EmptyTable
<1> QED
  BY <1>1, ServerInvInit, FailsInit DEF FailsInv

LEMMA FailsInvStep == ASSUME LongBan PROVE FailsInv /\ [Next]_vars => FailsInv'
<1> SUFFICES ASSUME FailsInv, [Next]_vars PROVE FailsInv'
  OBVIOUS
<1>1. ServerInv' /\ FailsAccounted' /\ Down'
  BY ServerInvStep, FailsStep, DownStep DEF FailsInv, ServerInv
<1>2. NoPanic'
  BY <1>1, NoPanicStep DEF FailsInv
<1>3. Remembered' /\ RecentOnRecord'
  BY RememberedOnConnect, RememberedOnDisconnect, RememberedTick, RememberedOther DEF Next
<1> QED
  BY <1>1, <1>2, <1>3 DEF FailsInv

\* What the verdict on a new connection rests on: its own record, with all its
\* connections, this one included, and no more fails than its sessions caused.
LEMMA VerdictGrounds ==
  ASSUME LongBan, FailsInv, NEW c \in Conns, OnConnect(c)
  PROVE  LET p == PeerOf[c] IN
         /\ p \in DOMAIN peers'
         /\ peers'[p].connections = Cardinality(Live(p)) + 1
         /\ peers'[p].fails \in Nat
         /\ peers'[p].fails <= Cardinality(Failed(p))
         /\ Cardinality(RecentlyFailed(p)) <= peers'[p].fails
<1> DEFINE p == PeerOf[c]
<1>t. /\ ServerInv /\ TypeOK /\ FailsAccounted /\ NoPanic /\ Remembered /\ RecentOnRecord
      /\ running /\ running' /\ p \in Peers /\ task[c] = "new"
  BY ServerAssumption DEF FailsInv, ServerInv, OnConnect
<1>1. FailsInv'
  BY FailsInvStep DEF Next
<1>2. /\ task'[c] \in {"session", "closing"}
      /\ \A d \in Conns \ {c} : /\ task'[d] = task[d]
                                /\ productive'[d] = productive[d]
                                /\ clock'[d] = clock[d]
  BY <1>t DEF OnConnect, TypeOK
<1>3. p \in DOMAIN peers'
  BY <1>1, <1>2, <1>t DEF FailsInv, ServerInv, Fresh
<1>4. peers'[p].connections = Cardinality(Live(p)')
  BY <1>1, <1>3, <1>t DEF FailsInv, ServerInv, ConnectionsExact
<1>5. Cardinality(Live(p)') = Cardinality(Live(p)) + 1
  <2>1. Live(p)' = Live(p) \cup {c} /\ c \notin Live(p)
    BY <1>t, <1>2 DEF Live
  <2> QED
    BY <2>1, LiveFinite, FS_AddElement
<1>6. /\ peers'[p].fails \in Nat
      /\ peers'[p].fails <= Cardinality(Ended(p)')
      /\ Cardinality(RecentlyFailed(p)') <= peers'[p].fails
  BY <1>1, <1>3, <1>t
  DEF FailsInv, ServerInv, TypeOK, IsTable, PeerInfo, FailsAccounted, Ended, Failed, RecentOnRecord
<1>7. Ended(p)' = Failed(p) /\ RecentlyFailed(p)' = RecentlyFailed(p)
  <2>1. \A d \in Conns : task'[d] # "panicked"
    BY <1>1 DEF FailsInv, NoPanic
  <2> QED
    BY <1>t, <1>2, <2>1 DEF Ended, Failed, RecentlyFailed
<1> QED
  BY <1>3, <1>4, <1>5, <1>6, <1>7

\* The other steps leave a connection that is not yet there as it is.
LEMMA OnlyOnConnectDecides ==
  ASSUME TypeOK, [Next]_vars, NEW c \in Conns, task[c] = "new",
         task'[c] \in {"session", "closing"}
  PROVE  OnConnect(c)
<1>1. ASSUME NEW d \in Conns, OnConnect(d), d # c PROVE FALSE
  BY <1>1 DEF OnConnect, TypeOK
<1>2. ASSUME NEW d \in Conns, NEW done \in BOOLEAN, SessionEnds(d, done) PROVE FALSE
  BY <1>2 DEF SessionEnds, TypeOK
<1>3. ASSUME NEW d \in Conns, OnDisconnect(d) PROVE FALSE
  BY <1>3 DEF OnDisconnect, TypeOK
<1>4. CASE Tick \/ ListenerFails \/ Restart \/ UNCHANGED vars
  BY <1>4 DEF Tick, ListenerFails, Restart, vars
<1> QED
  BY <1>1, <1>2, <1>3, <1>4 DEF Next

LEMMA RejectionStep ==
  ASSUME LongBan, FailsInv, [Next]_vars, NEW c \in Conns,
         task[c] = "new", task'[c] = "closing"
  PROVE  \/ PeerOf[c] \notin AllowedPeers
         \/ Cardinality(Live(PeerOf[c])) >= MaxConnections
         \/ Cardinality(Failed(PeerOf[c])) > MaxFails
<1> DEFINE p == PeerOf[c]
<1>t. TypeOK
  BY DEF FailsInv, ServerInv
<1>1. OnConnect(c)
  BY <1>t, OnlyOnConnectDecides
<1>2. Verdict(peers', p) # "Ok" \/ p \notin AllowedPeers
  BY <1>t, <1>1 DEF OnConnect, TypeOK
<1>3. /\ p \in DOMAIN peers'
      /\ peers'[p].connections = Cardinality(Live(p)) + 1
      /\ peers'[p].fails \in Nat
      /\ peers'[p].fails <= Cardinality(Failed(p))
  BY <1>1, VerdictGrounds
<1>4. Cardinality(Failed(p)) \in Nat
  <2>1. Failed(p) \subseteq Conns
    BY DEF Failed
  <2> QED
    BY <2>1, FS_Subset, FS_CardinalityType, ServerAssumption
<1> QED
  BY <1>2, <1>3, <1>4, LiveFinite, Fail2BanAssumption DEF Verdict

\* Server: with every ban at least as long as the longest session, a connection
\* is only rejected by the peer filter or for what its own peer did.
THEOREM RejectionHasCause == ASSUME LongBan PROVE Spec => RejectedForCause
<1>1. FailsInv /\ [Next]_vars => FailsInv'
  BY FailsInvStep
<1>2. FailsInv /\ [Next]_vars =>
        [\A c \in Conns :
           task[c] = "new" /\ task'[c] = "closing" =>
             \/ PeerOf[c] \notin AllowedPeers
             \/ Cardinality(Live(PeerOf[c])) >= MaxConnections
             \/ Cardinality(Failed(PeerOf[c])) > MaxFails]_vars
  BY RejectionStep
<1> QED
  BY <1>1, <1>2, FailsInvInit, PTL DEF Spec, RejectedForCause

LEMMA AdmissionStep ==
  ASSUME LongBan, FailsInv, [Next]_vars, NEW c \in Conns,
         task[c] = "new", task'[c] = "session"
  PROVE  Cardinality(RecentlyFailed(PeerOf[c])) <= MaxFails
<1> DEFINE p == PeerOf[c]
<1>t. TypeOK
  BY DEF FailsInv, ServerInv
<1>1. OnConnect(c)
  BY <1>t, OnlyOnConnectDecides
<1>2. Verdict(peers', p) = "Ok"
  BY <1>t, <1>1 DEF OnConnect, TypeOK
<1>3. /\ p \in DOMAIN peers'
      /\ peers'[p].fails \in Nat
      /\ Cardinality(RecentlyFailed(p)) <= peers'[p].fails
  BY <1>1, VerdictGrounds
<1> QED
  BY <1>2, <1>3, RecentlyFailedFinite, Fail2BanAssumption DEF Verdict

\* Server: under the same condition nobody is admitted with more than max_fails
\* failed sessions in the last max_age, whatever the table has forgotten.
THEOREM BansEnforced == ASSUME LongBan PROVE Spec => BanEnforced
<1>1. FailsInv /\ [Next]_vars => FailsInv'
  BY FailsInvStep
<1>2. FailsInv /\ [Next]_vars =>
        [\A c \in Conns :
           task[c] = "new" /\ task'[c] = "session" =>
             Cardinality(RecentlyFailed(PeerOf[c])) <= MaxFails]_vars
  BY AdmissionStep
<1> QED
  BY <1>1, <1>2, FailsInvInit, PTL DEF Spec, BanEnforced

================================================================================
