---------------------------- MODULE NifContract ----------------------------
(***************************************************************************)
(* What an AgpsStateMachine promises its clients, without lists, states or *)
(* queues: one shared resource that is held or not, and for each client    *)
(* the last thing it was told.  AgpsStateMachine implements it.            *)
(***************************************************************************)
CONSTANT Client

VARIABLES
    held,    \* the NIF is at the clients' disposal
    phase    \* what each client was last told

vars == <<held, phase>>

Phase == {"idle", "requested", "open", "closing", "refused"}

Clients(p) == {c \in Client : phase[c] = p}

Told(S, p) == phase' = [c \in Client |-> IF c \in S THEN p ELSE phase[c]]

Init == held = FALSE /\ phase = [c \in Client |-> "idle"]

(* A client asks: it is served at once if the NIF is held, refused if it   *)
(* may not share it, and waits otherwise.                                  *)
Ask(c) ==
    /\ phase[c] \in {"idle", "refused"}
    /\ \/ held /\ Told({c}, "open")
       \/ ~held /\ Told({c}, "requested")
       \/ Told({c}, "refused")
    /\ UNCHANGED held

(* The NIF arrives: everybody who waits is served in the same step.        *)
Grant ==
    /\ ~held /\ held' = TRUE
    /\ Told(Clients("requested"), "open")

(* It is refused: everybody who waits is told.                             *)
Refuse ==
    /\ ~held /\ UNCHANGED held
    /\ Told(Clients("requested"), "refused")

(* It is taken away: everybody who uses it is told.                        *)
Lose ==
    /\ held /\ held' = FALSE
    /\ Told(Clients("open"), "idle")

(* A client leaves; the NIF stays held as long as another client uses it,  *)
(* and the last one to leave gives it up.                                  *)
Leave(c) ==
    /\ phase[c] \in {"requested", "open", "closing"}
    /\ \/ Told({c}, "idle")
       \/ Told({c}, "closing")
    /\ held' = (held /\ Clients("open") \ {c} # {})

(* The close of those who left completes.                                  *)
Closed ==
    /\ ~held /\ UNCHANGED held
    /\ \/ Told(Clients("closing"), "idle")
       \/ Told(Clients("closing"), "refused")

(* The modem restarts and forgets every handle.                            *)
Forget ==
    /\ phase' = [c \in Client |-> "idle"]
    /\ UNCHANGED held

Next ==
    \/ \E c \in Client : Ask(c) \/ Leave(c)
    \/ Grant \/ Refuse \/ Lose \/ Closed \/ Forget

Spec == Init /\ [][Next]_vars

(* Nobody is told it may use a NIF that is not held, and nobody waits for  *)
(* one that is.                                                            *)
Consistent ==
    \A c \in Client :
        /\ phase[c] = "open" => held
        /\ phase[c] = "requested" => ~held
=============================================================================
