------------------------------ MODULE GraphClient ------------------------------
(***************************************************************************)
(* Client::send_mail of lib/ms_graph/src/client.rs with the token request  *)
(* of auth.rs, and the Graph service as far as the client can tell: a      *)
(* request that was sent is taken or refused at any later time, or never,  *)
(* and its answer may be lost.  A client belongs to one session, which     *)
(* awaits its calls one at a time and may drop the one under way.          *)
(***************************************************************************)
EXTENDS Naturals, Sequences

VARIABLES
  token,     \* Client::token: "none", "valid" or "expired"
  call,      \* send_mail: "idle", or what it awaits or does next
  inFlight,  \* sendMail requests the service has not decided on
  accepted   \* external: the requests the service took, in that order

graphVars == <<token, call, inFlight, accepted>>

Tokens == {"none", "valid", "expired"}
Calls == {"idle", "token", "build", "post"}

GraphInit == token = "none" /\ call = "idle" /\ inFlight = {} /\ accepted = <<>>

\* send_mail up to its first await: authenticate asks for a token unless there
\* is one that is not expired.
SendMail ==
  /\ call = "idle"
  /\ call' = IF token = "valid" THEN "build" ELSE "token"
  /\ UNCHANGED <<token, inFlight, accepted>>

\* AccessToken::get_client_credentials; on an error the old token stays.
TokenGranted ==
  /\ call = "token"
  /\ token' = "valid"
  /\ call' = "build"
  /\ UNCHANGED <<inFlight, accepted>>

TokenFails ==
  /\ call = "token"
  /\ call' = "idle"
  /\ UNCHANGED <<token, inFlight, accepted>>

\* get_authentication checks the token again when the request is built.
Post(request) ==
  /\ call = "build" /\ token = "valid"
  /\ call' = "post"
  /\ inFlight' = inFlight \cup {request}
  /\ UNCHANGED <<token, accepted>>

TokenFoundExpired ==
  /\ call = "build" /\ token # "valid"
  /\ call' = "idle"
  /\ UNCHANGED <<token, inFlight, accepted>>

IsAccepted(n) == \E i \in DOMAIN accepted : accepted[i].n = n

PostSucceededAnyStatus(n) == ~\E r \in inFlight : r.n = n  \* fault, for a mutant

\* The answer to request n is a success (error_for_status).
PostSucceeded(n) == IsAccepted(n)

PostReturnsOk(n) ==
  /\ call = "post"
  /\ PostSucceeded(n)
  /\ call' = "idle"
  /\ UNCHANGED <<token, inFlight, accepted>>

\* An error status, a lost answer or the timeout of the HTTP client, whatever
\* became of the request.
PostFails ==
  /\ call = "post"
  /\ call' = "idle"
  /\ UNCHANGED <<token, inFlight, accepted>>

\* AccessToken::is_expired turns true.
TokenExpires ==
  /\ token = "valid"
  /\ token' = "expired"
  /\ UNCHANGED <<call, inFlight, accepted>>

\* The service takes or refuses a request, which the client may no longer await.
ServiceAccepts(request) ==
  /\ request \in inFlight
  /\ inFlight' = inFlight \ {request}
  /\ accepted' = Append(accepted, request)
  /\ UNCHANGED <<token, call>>

ServiceRefuses(request) ==
  /\ request \in inFlight
  /\ inFlight' = inFlight \ {request}
  /\ UNCHANGED <<token, call, accepted>>

\* The future of the call is dropped with its session.
Dropped == call' = "idle" /\ UNCHANGED <<token, inFlight, accepted>>
================================================================================
