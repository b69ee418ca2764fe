------------------------------- MODULE MCSync -------------------------------
(* SyncReq with fewer slots than threads.                                  *)
EXTENDS SyncReq, TLC

CONSTANTS c1, c2, c3, i1, i2

ThreeCallers == {c1, c2, c3}
TwoIds       == {i1, i2}

Symmetry == Permutations(ThreeCallers) \cup Permutations(TwoIds)
=============================================================================
