------------------------------- MODULE MCAgps -------------------------------
(* Three clients of agnss_nif, whose subscribers are ATL clients: they do  *)
(* not wait for the close and may be many, so nobody is refused and the    *)
(* machine is never Releasing (both happen in MCDmn).                      *)
EXTENDS AgpsStateMachine

CONSTANTS c1, c2, c3

ThreeClients == {c1, c2, c3}

ASSUME AtlAssumption == ~WaitForClose /\ ~EnforceSingle

AtlNext ==
    \/ \E c \in Client : Subscribe(c) \/ Unsubscribe(c)
    \/ PendingGranted \/ PendingDenied \/ AcquiredReleased \/ IgnoreEvent
    \/ EngineRestart
    \/ NifRequest \/ NifRelease \/ NifAnswer \/ NifLost

AtlSpec == Init /\ [][AtlNext]_vars /\ Fairness
=============================================================================
