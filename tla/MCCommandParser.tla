---------------------------- MODULE MCCommandParser ----------------------------
(* Words for TLC: every verb, one of each kind in lower case as well.         *)
EXTENDS CommandParser

Lower == [helo |-> "HELO", starttls |-> "STARTTLS", auth |-> "AUTH", mail |-> "MAIL",
          rcpt |-> "RCPT", quit |-> "QUIT", plain |-> "PLAIN", a |-> "A"]
Plain == Names \cup {"FROM:", "TO:", "PLAIN", "LOGIN", "A", "<", ">", "SIZE=1", "FROM:lower",
                     "invalid", "replacement"}

MCWords == Plain \cup DOMAIN Lower
MCUpper ==
  [w \in MCWords |-> IF w \in DOMAIN Lower THEN Lower[w]
                     ELSE IF w = "FROM:lower" THEN "FROM:" ELSE w]

MCOpeners == Names \cup DOMAIN Lower \cup {"SP"}
MCPieces ==
  {<<"SP">>, <<"CR">>, <<"LF">>, <<"CR", "LF">>, <<"a">>, <<"invalid">>, <<"<">>, <<">">>,
   <<"<", "SP", "a", ">", "TAB", "LF">>,
   <<"SP", "FROM:">>, <<"SP", "FROM:lower">>, <<"SP", "TO:">>, <<"SP", "plain">>, <<"SP", "LOGIN">>}

MCSizeOpeners == {"MAIL"}
MCSizePieces == {<<"SP", "FROM:">>, <<"<", "a", ">">>, <<"SP", "SIZE=1">>, <<"CR", "LF">>}
================================================================================
