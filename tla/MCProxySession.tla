---------------------------- MODULE MCProxySession -----------------------------
(* A small instance of ProxySession: two users who may each send as one of    *)
(* two addresses, one message line, and every setup but that of TLS without   *)
(* users.                                                                     *)
EXTENDS ProxySession

CONSTANTS alice, bob, anna, bert

MCConfigs == [authMode : AuthModes, acceptor : BOOLEAN]
MCSetups == {setup \in [hasUsers : BOOLEAN, tls : BOOLEAN, allowInsecure : BOOLEAN] :
               setup.tls => setup.hasUsers}
MCBodyLines == {[dots |-> 1, len |-> 2]}
MCSendAs == {<<alice, anna>>, <<bob, bert>>}
================================================================================
