-------------------------------- MODULE MCServer --------------------------------
(* Small instances of Server: three connections of one peer and one of        *)
(* another, or two and one.                                                   *)
EXTENDS Server, TLC

CONSTANTS p1, p2, c1, c2, c3, c4

MCPeerOf == c1 :> p1 @@ c2 :> p1 @@ c3 :> p1 @@ c4 :> p2
MCPeerOfThree == c1 :> p1 @@ c2 :> p1 @@ c4 :> p2
================================================================================
