------------------------------- MODULE MCMsgQ -------------------------------
(* MsgQ with a handful of messages.                                        *)
EXTENDS MsgQ

CONSTANTS m1, m2, m3, m4

FourMessages == {m1, m2, m3, m4}
=============================================================================
