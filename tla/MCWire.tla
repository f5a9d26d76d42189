-------------------------------- MODULE MCWire ---------------------------------
(* What lies between a client's socket and a session, for TLC: the bytes that *)
(* become lines (Connection), the lines that become commands (CommandParser)  *)
(* and the replies that become lines again (Replies).  A behaviour is one of  *)
(* the three.                                                                 *)
EXTENDS Connection, MCCommandParser, Replies

VARIABLE part

wireVars == <<part, vars, written, repliesVars>>

\* The other two parts have one start each.
MCInit ==
  /\ part \in {"bytes", "lines", "replies"}
  /\ Init /\ LineInit /\ RepliesInit
  /\ part # "lines" => written = <<"QUIT">>
  /\ part # "replies" => config = [name |-> "", auth |-> FALSE, acceptor |-> FALSE]

MCNext ==
  /\ UNCHANGED part
  /\ \/ part = "bytes" /\ Next /\ UNCHANGED <<written, repliesVars>>
     \/ part = "lines" /\ LineNext /\ UNCHANGED <<vars, repliesVars>>
     \/ part = "replies" /\ RepliesNext /\ UNCHANGED <<vars, written>>

MCSpec == MCInit /\ [][MCNext]_wireVars /\ WF_vars(part = "bytes" /\ ReadSteps)
================================================================================
