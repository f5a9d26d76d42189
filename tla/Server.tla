--------------------------------- MODULE Server ---------------------------------
(***************************************************************************)
(* Server::listen of lib/smtp/src/server.rs: one task per connection, all  *)
(* of them sharing one Fail2Ban table through the on_connect and           *)
(* on_disconnect of ProxyHandler (lib/mail_proxy/src/proxy.rs).            *)
(*                                                                         *)
(* Each of the two handlers holds the mutex from its first access to its   *)
(* end, so each is one action; tasks interleave between them.  Time passes *)
(* in ticks.  A task has to be over MaxLife ticks after its connection was *)
(* accepted: SESSION_MAX_DURATION cuts the session off, and on_disconnect  *)
(* only waits for the mutex.                                               *)
(*                                                                         *)
(* A connection is an element of Conns and is used once; the bound on the  *)
(* behaviours is the number of connections.                                *)
(***************************************************************************)
EXTENDS Fail2Ban, FiniteSets

CONSTANTS
  Conns,         \* connections, each of which is attempted at most once
  PeerOf,        \* the peer a connection comes from
  AllowedPeers,  \* the peers PeerFilter::evaluate allows
  MaxLife,       \* SESSION_MAX_DURATION, in ticks
  Builds         \* whether u32 overflow panics (debug) or wraps (release)

ASSUME ServerAssumption ==
  /\ IsFiniteSet(Conns)
  /\ PeerOf \in [Conns -> Peers]
  /\ AllowedPeers \subseteq Peers
  /\ MaxLife \in Nat
  /\ Builds \subseteq BOOLEAN

VARIABLES
  overflowChecks,  \* the build that runs
  running,         \* the accept loop and its runtime are up
  peers,           \* Fail2Ban::peers
  task,            \* the state of each connection's task
  productive,      \* ProxyHandler::productive of each task
  clock            \* ticks since the task started or, once done, since its end

vars == <<overflowChecks, running, peers, task, productive, clock>>

Statuses == {"new", "session", "closing", "done", "panicked", "lost"}
Clocks == 0 .. (IF MaxLife > MaxAge THEN MaxLife ELSE MaxAge + 1)

\* Tasks that on_connect has counted and that on_disconnect still has to.
Live(p) == {c \in Conns : PeerOf[c] = p /\ task[c] \in {"session", "closing"}}
Admitted(p) == {c \in Conns : PeerOf[c] = p /\ task[c] = "session"}
Failed(p) == {c \in Conns : PeerOf[c] = p /\ task[c] = "done" /\ ~productive[c]}
RecentlyFailed(p) == {c \in Failed(p) : clock[c] <= MaxAge}

Init ==
  /\ overflowChecks \in Builds
  /\ running = TRUE
  /\ peers = EmptyTable
  /\ task = [c \in Conns |-> "new"]
  /\ productive = [c \in Conns |-> FALSE]
  /\ clock = [c \in Conns |-> 0]

\* accept, spawn and ProxyHandler::on_connect: the connection is counted
\* before the verdict, and the peer filter is asked after it.
OnConnect(c) ==
  LET p == PeerOf[c]
      t == Evict(PushConnection(peers, p))
      ok == Verdict(t, p) = "Ok" /\ p \in AllowedPeers
  IN
  /\ running
  /\ task[c] = "new"
  /\ peers' = t
  /\ task' = [task EXCEPT ![c] = IF ok THEN "session" ELSE "closing"]
  /\ productive' = [productive EXCEPT ![c] = FALSE]
  /\ clock' = [clock EXCEPT ![c] = 0]
  /\ UNCHANGED <<overflowChecks, running>>

\* Session::handle returns or is cut off by the session timeout; done says
\* whether on_mail was called for an acceptable mail.
SessionEnds(c, done) ==
  /\ running
  /\ task[c] = "session"
  /\ task' = [task EXCEPT ![c] = "closing"]
  /\ productive' = [productive EXCEPT ![c] = done]
  /\ UNCHANGED <<overflowChecks, running, peers, clock>>

\* Faults, for mutants of OnDisconnect: a fail is recorded instead of the
\* disconnection, a fail is recorded in any case, a productive task is left.
OnDisconnectOneOrOther(c) ==
  /\ running
  /\ task[c] = "closing"
  /\ task' = [task EXCEPT ![c] = "done"]
  /\ peers' = IF productive[c] THEN PopConnection(peers, PeerOf[c])
              ELSE PushFail(peers, PeerOf[c])
  /\ clock' = [clock EXCEPT ![c] = 0]
  /\ UNCHANGED <<overflowChecks, running, productive>>

OnDisconnectAlwaysFails(c) ==
  /\ running
  /\ task[c] = "closing"
  /\ task' = [task EXCEPT ![c] = "done"]
  /\ peers' = PopConnection(PushFail(peers, PeerOf[c]), PeerOf[c])
  /\ clock' = [clock EXCEPT ![c] = 0]
  /\ UNCHANGED <<overflowChecks, running, productive>>

OnDisconnectOfFailed(c) ==
  /\ ~productive[c]
  /\ OnDisconnectAlwaysFails(c)

\* ProxyHandler::on_disconnect.  A panic in it unwinds the task after the
\* fail was recorded; the mutex is released and is not poisoned.
OnDisconnect(c) ==
  LET p == PeerOf[c]
      t == IF productive[c] THEN peers ELSE PushFail(peers, p)
  IN
  /\ running
  /\ task[c] = "closing"
  /\ \/ /\ overflowChecks /\ PopOverflows(t, p)
        /\ task' = [task EXCEPT ![c] = "panicked"]
        /\ peers' = t
     \/ /\ ~(overflowChecks /\ PopOverflows(t, p))
        /\ task' = [task EXCEPT ![c] = "done"]
        /\ peers' = PopConnection(t, p)
  /\ clock' = [clock EXCEPT ![c] = 0]
  /\ UNCHANGED <<overflowChecks, running, productive>>

\* Time passes, unless a task is due to end.
Tick ==
  /\ running
  /\ \A c \in Conns : task[c] \in {"session", "closing"} => clock[c] < MaxLife
  /\ peers' = Elapse(peers)
  /\ clock' = [c \in Conns |->
                 CASE task[c] \in {"session", "closing"} -> clock[c] + 1
                   [] task[c] = "done" -> Older(clock[c])
                   [] OTHER -> clock[c]]
  /\ UNCHANGED <<overflowChecks, running, task, productive>>

\* accept fails: listen returns its error, the process ends and every task
\* is dropped where it is, without its on_disconnect.
ListenerFails ==
  /\ running
  /\ running' = FALSE
  /\ task' = [c \in Conns |-> IF task[c] = "new" THEN "new" ELSE "lost"]
  /\ UNCHANGED <<overflowChecks, peers, productive, clock>>

\* The service manager starts the program again; the table was in memory.
Restart ==
  /\ ~running
  /\ running' = TRUE
  /\ peers' = EmptyTable
  /\ UNCHANGED <<overflowChecks, task, productive, clock>>

Next ==
  \/ \E c \in Conns :
       \/ OnConnect(c)
       \/ \E done \in BOOLEAN : SessionEnds(c, done)
       \/ OnDisconnect(c)
  \/ Tick
  \/ ListenerFails
  \/ Restart

Spec == Init /\ [][Next]_vars

\* The session timeout ends every session, and the mutex is fair.
Fairness ==
  \A c \in Conns : WF_vars(\E done \in BOOLEAN : SessionEnds(c, done)) /\ WF_vars(OnDisconnect(c))

FairSpec == Spec /\ Fairness

--------------------------------------------------------------------------------
(* What the server implements *)

OpenConns == {c \in Conns : task[c] \in {"session", "closing"}}
AdmittedConns == {c \in Conns : task[c] = "session"}

Quota == INSTANCE ConnectionQuota WITH open <- OpenConns, admitted <- AdmittedConns

\* The server is a quota on sessions (ConnectionQuota), for every way its
\* bookkeeping in the Fail2Ban table can interleave with time and eviction.
ImplementsQuota == Quota!QuotaSpec

--------------------------------------------------------------------------------
(* Properties *)

\* The type of the server's state.
TypeOK ==
  /\ overflowChecks \in BOOLEAN
  /\ running \in BOOLEAN
  /\ IsTable(peers)
  /\ task \in [Conns -> Statuses]
  /\ productive \in [Conns -> BOOLEAN]
  /\ clock \in [Conns -> Clocks]

\* The doc of PeerInfo::connections: "how many active connections this peer
\* is currently holding", rejected ones that are still closing included.
\* Eviction, of this peer or by another one, must never lose a live count.
ConnectionsExact ==
  running =>
    \A p \in Peers :
      Cardinality(Live(p)) = IF p \in DOMAIN peers THEN peers[p].connections ELSE 0

\* No peer has more sessions at a time than max_connections.
AdmissionLimit == \A p \in Peers : Cardinality(Admitted(p)) <= MaxConnections

\* No session is admitted while more than max_fails sessions of its peer have
\* ended unproductively within the last max_age.
BanEnforced ==
  [][\A c \in Conns :
       task[c] = "new" /\ task'[c] = "session" =>
         Cardinality(RecentlyFailed(PeerOf[c])) <= MaxFails]_vars

\* A connection is rejected only for a reason: the peer filter, or as many
\* connections of its own as it may hold, or more fails of its own than it may
\* have.  What other peers do never matters.
RejectedForCause ==
  [][\A c \in Conns :
       task[c] = "new" /\ task'[c] = "closing" =>
         \/ PeerOf[c] \notin AllowedPeers
         \/ Cardinality(Live(PeerOf[c])) >= MaxConnections
         \/ Cardinality(Failed(PeerOf[c])) > MaxFails]_vars

\* Where overflow panics, a lost count errs on the side of the peer: never
\* more connections on record than there are.
CountNeverHigh ==
  running /\ overflowChecks =>
    \A p \in DOMAIN peers : peers[p].connections <= Cardinality(Live(p))

\* The table never holds more fails of a peer than sessions of its own that
\* ended unproductively.
FailsAccounted ==
  running =>
    \A p \in DOMAIN peers :
      peers[p].fails <= Cardinality(Failed(p) \cup
        {c \in Conns : PeerOf[c] = p /\ task[c] = "panicked"})

\* Every ban is at least as long as the longest session, and the counters are
\* wide enough for the connections there are.
LongBan == MaxLife <= MaxAge /\ Cardinality(Conns) <= MaxU32

\* The connections that are on record for a peer.
Recorded(p) == IF p \in DOMAIN peers THEN peers[p].connections ELSE 0

\* Every connection gives its slot back, whether it ends, is cut off, is rejected or
\* its task panics in on_disconnect: it is over in the end, and from then on the
\* record of its peer has no more connections than are left.  With a ban shorter
\* than a session this is only so where overflow panics: wrapped, the count of a
\* peer without connections can stay near u32::MAX (see ConnectionsExact).
SlotReleased ==
  \A c \in Conns :
    task[c] \in {"session", "closing"} /\ (LongBan \/ overflowChecks) ~>
      [](/\ task[c] \notin {"session", "closing"}
         /\ running => Recorded(PeerOf[c]) <= Cardinality(Live(PeerOf[c])))

\* The doc of Fail2Ban::max_age ("time before a peers fails are forgotten")
\* and of the ban_duration option ("How long a client IP remains banned"): a
\* peer that was idle for longer than max_age is not rejected for old fails.
BanExpires ==
  [][\A c \in Conns :
       LET p == PeerOf[c] IN
       /\ task[c] = "new" /\ task'[c] \in {"session", "closing"}
       /\ p \in DOMAIN peers /\ peers[p].age > MaxAge
       /\ Live(p) = {} /\ p \in AllowedPeers
       => task'[c] = "session"]_vars

--------------------------------------------------------------------------------
(* The inductive strengthening of ConnectionsExact and AdmissionLimit *)

\* A live connection keeps its peer on record: the record is no older than the
\* connection, and no connection outlives max_age.  This is what fails when
\* the ban is shorter than a session.
Fresh ==
  \A c \in Conns : task[c] \in {"session", "closing"} =>
    /\ running
    /\ PeerOf[c] \in DOMAIN peers
    /\ peers[PeerOf[c]].age <= clock[c]
    /\ clock[c] <= MaxLife

ServerInv == TypeOK /\ Fresh /\ ConnectionsExact /\ AdmissionLimit
================================================================================
