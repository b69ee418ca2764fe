-------------------------------- MODULE MCDs --------------------------------
(* Instances of DSStateMachine small enough for TLC.                       *)
EXTENDS DSStateMachine

CONSTANTS c1, c2

TwoClients == {c1, c2}
=============================================================================
