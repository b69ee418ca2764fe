-------------------------------- MODULE Fifo --------------------------------
(***************************************************************************)
(* What a MsgTask promises to those who send it messages: they are handled *)
(* one at a time in the order in which they were accepted, none twice and  *)
(* none left out, until the task is closed; then those not handled yet are *)
(* dropped.  DSStateMachine and FixSession rely on it for their queues.    *)
(***************************************************************************)
EXTENDS Sequences

CONSTANTS LocMsg, NULL

VARIABLES
    queue,     \* accepted, in this order, and not yet handled
    open,      \* messages are accepted
    current    \* the message in the hands of its handler

vars == <<queue, open, current>>

Init == queue = <<>> /\ open = TRUE /\ current = NULL

Accept(m) ==
    /\ open
    /\ queue' = Append(queue, m)
    /\ UNCHANGED <<open, current>>

Take ==
    /\ queue # <<>> /\ current = NULL
    /\ current' = Head(queue)
    /\ queue' = Tail(queue)
    /\ UNCHANGED open

Finish ==
    /\ current # NULL /\ current' = NULL
    /\ UNCHANGED <<queue, open>>

Close == open /\ open' = FALSE /\ UNCHANGED <<queue, current>>

Drop == ~open /\ queue' = <<>> /\ UNCHANGED <<open, current>>

Next == (\E m \in LocMsg : Accept(m)) \/ Take \/ Finish \/ Close \/ Drop

Spec == Init /\ [][Next]_vars
=============================================================================
