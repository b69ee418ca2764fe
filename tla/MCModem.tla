------------------------------ MODULE MCModem --------------------------------
(* A small instance of ModemCalls: a call that looks at its arguments and  *)
(* one that asks, besides the settings, three of which share an            *)
(* indication; parts of two bytes, a counter that wraps at four.           *)
EXTENDS ModemCalls

SomeCalls == {atlOpenStatus, getGpsLock}
=============================================================================
