--------------------------- MODULE MCNegotiation ---------------------------
(***************************************************************************)
(* Two options.  The client asks for ECHO on the server's end; BINARY is   *)
(* offered and withdrawn by the client, and asked for and offered by the   *)
(* server.                                                                 *)
(***************************************************************************)
EXTENDS Negotiation

MCOption == {"BINARY", "ECHO"}

MCTables == {[o \in MCOption |-> {}], [o \in MCOption |-> {"LOCAL", "REMOTE"}]}

MCAppCmds ==
    {<<"client", "DO", "ECHO">>,
     <<"client", "WILL", "BINARY">>, <<"client", "WONT", "BINARY">>,
     <<"server", "DO", "BINARY">>, <<"server", "WILL", "BINARY">>}

\* Both ends offer BINARY and the client withdraws; it asks for ECHO.
ReportAppCmds ==
    {<<"client", "DO", "ECHO">>, <<"client", "WILL", "BINARY">>,
     <<"client", "WONT", "BINARY">>, <<"server", "WILL", "BINARY">>}

=============================================================================
