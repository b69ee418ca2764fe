-------------------------------- MODULE MCNi --------------------------------
(* NiSession with the few requests a run follows through.                  *)
EXTENDS NiSession
=============================================================================
