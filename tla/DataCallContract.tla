-------------------------- MODULE DataCallContract --------------------------
(***************************************************************************)
(* The data call DSStateMachine relies on: there is one call, it is not    *)
(* started again while it lives, it is stopped when told to, and each of   *)
(* its two changes is reported once, in order.                             *)
(***************************************************************************)
EXTENDS Sequences

VARIABLES call, events

vars == <<call, events>>

Init == call = "none" /\ events = <<>>

Start == call = "none" /\ call' = "starting" /\ UNCHANGED events

Stop == call \in {"starting", "up"} /\ call' = "stopping" /\ UNCHANGED events

Up   == call = "starting" /\ call' = "up" /\ events' = Append(events, "opened")

Gone == call # "none" /\ call' = "none" /\ events' = Append(events, "closed")

Taken == events # <<>> /\ events' = Tail(events)

(* What was reported may be taken by the step that starts or stops a call. *)
Next == Start \/ Stop \/ Up \/ Gone \/ (Taken /\ UNCHANGED call)

Spec == Init /\ [][Next]_vars
=============================================================================
