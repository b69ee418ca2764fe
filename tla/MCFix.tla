------------------------------- MODULE MCFix --------------------------------
(* Small instances of FixSession.                                          *)
EXTENDS FixSession

CONSTANTS k1, k2

OneKind  == {k1}
TwoKinds == {k1, k2}
=============================================================================
