------------------------------ MODULE MCLocApi ------------------------------
(* Instances of LocApi small enough for TLC.                               *)
EXTENDS LocApi, TLC

CONSTANTS a1, a2, p1, p2, h1, h2, e1, e2, e3

MCAdapter == {a1, a2}
MCAddr    == {p1, p2}
MCHandle  == {h1, h2}
MCEvent   == {e1, e2, e3}
MCWants   == (a1 :> {e1, e3}) @@ (a2 :> {e2})
MCExcluded == {e3}
=============================================================================
