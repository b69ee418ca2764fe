----------------------------- MODULE MCDataCall -----------------------------
(* Instances of DataCall small enough for TLC.                             *)
EXTENDS DataCall

CONSTANTS s1, s2, s3, d1, d2

MCSession == {s1, s2, s3}
MCDsi     == {d1, d2}

(* All lists of up to two profiles, over settings that differ in what they *)
(* carry.                                                                  *)
MCSettings ==
    {[emergency |-> e, pdp |-> p] : e \in {"absent", "no", "yes"}, p \in {"absent", "ipv6"}}
      \cup {[emergency |-> "yes", pdp |-> p] : p \in {"ipv4", "ipv4v6", "ppp"}}
MCLists    == UNION {[1 .. n -> MCSettings] : n \in 0 .. 2}
=============================================================================
