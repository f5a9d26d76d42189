------------------------------ MODULE MCSmtpSession ------------------------------
(* A small instance of SmtpSession for TLC: every authentication mode, with  *)
(* and without a TLS acceptor, a short line, a long line and a line that     *)
(* starts with a dot, and a size limit two lines can exceed.                 *)
EXTENDS SmtpSession

MCConfigs == [authMode : AuthModes, acceptor : BOOLEAN]
MCBodyLines == {[dots |-> 0, len |-> 2], [dots |-> 0, len |-> 3], [dots |-> 1, len |-> 2]}
================================================================================
