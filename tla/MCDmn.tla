-------------------------------- MODULE MCDmn --------------------------------
(* Two of the daemons that use wifi_nif, whose subscribers wait for the    *)
(* close (WIFISubscriber::waitForCloseComplete).                           *)
EXTENDS DmnConn

CONSTANTS quipc, msapm

Daemons == {quipc, msapm}

ASSUME WifiAssumption == WaitForClose /\ EnforceSingle
=============================================================================
