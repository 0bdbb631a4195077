------------------------------ MODULE MC_TcpCurl ------------------------------
EXTENDS TcpCurl
CONSTANTS G, S, H1, H2
MCOthers == {H1}
(* Two other hosts: enough new addresses to fill a two-entry cache after  *)
(* the gateway.                                                            *)
MCOthers2 == {H1, H2}
=============================================================================
