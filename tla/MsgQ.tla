-------------------------------- MODULE MsgQ --------------------------------
(***************************************************************************)
(* The queue of a MsgTask: the doubly linked list (linked_list.c), the     *)
(* mutex, the condition variable and the unblocked flag around it          *)
(* (msg_q.c), and the thread that works it off (MsgTask::loopMain).        *)
(*                                                                         *)
(* A step is what a thread does with list_mutex held.  Any thread sends,   *)
(* the handlers of messages too.  Every message is sent once, so the list  *)
(* element malloc'ed for it is named after it.                             *)
(***************************************************************************)
EXTENDS Naturals, Sequences

CONSTANTS
    LocMsg,      \* the messages
    Deleted      \* the MsgTask object may be deleted; nothing in src/ does

NULL == "NULL"
FREE == "FREE"      \* the pointers of an element that is not allocated

ASSUME MsgAssumption == {NULL, FREE} \cap LocMsg = {} /\ Deleted \in BOOLEAN

VARIABLES
    p_head, p_tail,   \* of list_state
    next, prev,       \* of every list_element
    unblocked,
    alive,            \* the msg_q has not been freed
    loop,             \* where loopMain is
    msg,              \* the message it handles
    unsent,           \* messages nobody has sent yet
    order             \* what the list stands for: accepted messages, oldest first

list == <<p_head, p_tail, next, prev>>
queueVars == <<list, unblocked, alive, loop, msg, unsent, order>>

QueueTypeOK ==
    /\ p_head \in LocMsg \cup {NULL}
    /\ p_tail \in LocMsg \cup {NULL}
    /\ next \in [LocMsg -> LocMsg \cup {NULL, FREE}]
    /\ prev \in [LocMsg -> LocMsg \cup {NULL, FREE}]
    /\ unblocked \in BOOLEAN
    /\ alive \in BOOLEAN
    /\ loop \in {"listening", "waiting", "woken", "proc", "failed", "gone"}
    /\ msg \in LocMsg \cup {NULL}
    /\ unsent \in SUBSET LocMsg
    /\ order \in Seq(LocMsg)

(* msg_q_init, and the thread just started.                                *)
QueueInit ==
    /\ p_head = NULL /\ p_tail = NULL
    /\ next = [m \in LocMsg |-> FREE]
    /\ prev = [m \in LocMsg |-> FREE]
    /\ unblocked = FALSE
    /\ alive = TRUE
    /\ loop = "listening"
    /\ msg = NULL
    /\ unsent = LocMsg
    /\ order = <<>>

-----------------------------------------------------------------------------
(* linked_list.c.                                                          *)

(* Mutant: the new element is put at the end from which others are taken.  *)
ListAddAtTail(m) ==
    /\ p_tail' = m
    /\ prev' = [prev EXCEPT ![m] = p_tail]
    /\ next' = [e \in LocMsg |-> IF e = m THEN NULL ELSE IF e = p_tail THEN m ELSE next[e]]
    /\ p_head' = IF p_tail = NULL THEN m ELSE p_head

(* linked_list_add: the new element becomes the head.                      *)
ListAdd(m) ==
    /\ p_head' = m
    /\ next' = [next EXCEPT ![m] = p_head]
    /\ prev' = [e \in LocMsg |-> IF e = m THEN NULL ELSE IF e = p_head THEN m ELSE prev[e]]
    /\ p_tail' = IF p_head = NULL THEN m ELSE p_tail

(* Mutant: the head of a list that becomes empty is left standing.         *)
ListRemoveKeepsHead ==
    /\ p_tail' = prev[p_tail]
    /\ next' = [e \in LocMsg |-> IF e = p_tail THEN FREE
                                 ELSE IF e = prev[p_tail] THEN NULL ELSE next[e]]
    /\ prev' = [prev EXCEPT ![p_tail] = FREE]
    /\ UNCHANGED p_head

(* linked_list_remove, of a list with a tail: the tail is given out.       *)
ListRemove ==
    /\ p_tail' = prev[p_tail]
    /\ p_head' = IF prev[p_tail] = NULL THEN NULL ELSE p_head
    /\ next' = [e \in LocMsg |-> IF e = p_tail THEN FREE
                                 ELSE IF e = prev[p_tail] THEN NULL ELSE next[e]]
    /\ prev' = [prev EXCEPT ![p_tail] = FREE]

(* linked_list_flush: every element and every message in it is freed.      *)
ListFlush ==
    /\ p_head' = NULL /\ p_tail' = NULL
    /\ next' = [m \in LocMsg |-> FREE]
    /\ prev' = [m \in LocMsg |-> FREE]

-----------------------------------------------------------------------------
(* msg_q_snd.                                                              *)

(* Mutant: the receiver is only woken when the list was not empty before.  *)
MsgSendLate(m) ==
    /\ alive /\ ~unblocked
    /\ m \in unsent /\ unsent' = unsent \ {m}
    /\ loop' = IF loop = "waiting" /\ p_head # NULL THEN "woken" ELSE loop
    /\ ListAdd(m)
    /\ order' = Append(order, m)
    /\ UNCHANGED <<unblocked, alive, msg>>

MsgSend(m) ==
    /\ alive /\ ~unblocked
    /\ m \in unsent /\ unsent' = unsent \ {m}
    /\ ListAdd(m)
    /\ loop' = IF loop = "waiting" THEN "woken" ELSE loop
    /\ order' = Append(order, m)
    /\ UNCHANGED <<unblocked, alive, msg>>

(* A send that was on its way when the task was told to stop.  sendMsg does*)
(* not look at the result: the message is lost.                            *)
SendRefused(m) ==
    /\ alive /\ unblocked
    /\ m \in unsent /\ unsent' = unsent \ {m}
    /\ UNCHANGED <<list, unblocked, alive, loop, msg, order>>

-----------------------------------------------------------------------------
(* loopMain: msg_q_rcv and what follows.                                   *)

(* In the function with the lock, past its test of unblocked.              *)
Receiving == loop = "woken" \/ (loop = "listening" /\ ~unblocked)

ReceiveRefused ==
    /\ loop = "listening" /\ unblocked
    /\ loop' = "failed"
    /\ UNCHANGED <<list, unblocked, alive, msg, unsent, order>>

ReceiveWaits ==
    /\ Receiving /\ p_head = NULL /\ ~unblocked
    /\ loop' = "waiting"
    /\ UNCHANGED <<list, unblocked, alive, msg, unsent, order>>

(* pthread_cond_wait may return without a signal.                          *)
WakesOddly ==
    /\ loop = "waiting" /\ loop' = "woken"
    /\ UNCHANGED <<list, unblocked, alive, msg, unsent, order>>

ReceiveTakes ==
    /\ Receiving /\ p_head # NULL /\ p_tail # NULL
    /\ ListRemove
    /\ msg' = p_tail
    /\ loop' = "proc"
    /\ order' = Tail(order)
    /\ UNCHANGED <<unblocked, alive, unsent>>

(* Unblocked with nothing in the list, or with no tail where a head is.    *)
ReceiveFails ==
    /\ Receiving /\ (p_head # NULL \/ unblocked) /\ p_tail = NULL
    /\ loop' = "failed"
    /\ UNCHANGED <<list, unblocked, alive, msg, unsent, order>>

(* msg->proc() and the delete of the message.                              *)
Proc ==
    /\ loop = "proc" /\ loop' = "listening"
    /\ msg' = NULL
    /\ UNCHANGED <<list, unblocked, alive, unsent, order>>

(* msg_q_destroy, and the end of the thread.  The flag is reset with memory*)
(* that is freed next; here it keeps its value, for nobody to read.        *)
Destroy ==
    /\ loop = "failed" /\ loop' = "gone"
    /\ ListFlush
    /\ alive' = FALSE
    /\ order' = <<>>
    /\ UNCHANGED <<unblocked, msg, unsent>>

-----------------------------------------------------------------------------
(* ~MsgTask: msg_q_unblock, which wakes the thread if it sleeps.           *)
Unblock ==
    /\ Deleted /\ alive /\ ~unblocked
    /\ unblocked' = TRUE
    /\ loop' = IF loop = "waiting" THEN "woken" ELSE loop
    /\ UNCHANGED <<list, alive, msg, unsent, order>>

-----------------------------------------------------------------------------
Loop ==
    \/ ReceiveRefused \/ ReceiveWaits \/ ReceiveTakes \/ ReceiveFails
    \/ Proc \/ Destroy

QueueNext ==
    \/ \E m \in LocMsg : MsgSend(m) \/ SendRefused(m)
    \/ Loop \/ WakesOddly
    \/ Unblock

QueueSpec == QueueInit /\ [][QueueNext]_queueVars

(* The thread goes on whenever it can; nobody has to send anything.        *)
FairQueueSpec == QueueSpec /\ WF_queueVars(Loop)

-----------------------------------------------------------------------------
(* Properties.                                                             *)

Listed(m) == \E i \in DOMAIN order : order[i] = m

(* The pointers stand for the order: from the tail along prev and from the *)
(* head along next one meets the same elements, and no pointer leads to an *)
(* element that was freed.                                                 *)
ListShape ==
    /\ p_tail = IF order = <<>> THEN NULL ELSE order[1]
    /\ p_head = IF order = <<>> THEN NULL ELSE order[Len(order)]
    /\ \A i \in DOMAIN order :
          /\ prev[order[i]] = IF i = Len(order) THEN NULL ELSE order[i + 1]
          /\ next[order[i]] = IF i = 1 THEN NULL ELSE order[i - 1]
    /\ \A m \in LocMsg : ~Listed(m) => next[m] = FREE /\ prev[m] = FREE

(* No wake-up is lost: the thread does not sleep while there is a message, *)
(* nor after the queue was unblocked.                                      *)
NoLostWakeup == loop = "waiting" => p_head = NULL /\ ~unblocked

(* The thread gives up only when it was told to: a failed receive ends it  *)
(* for good and every later message would be lost.                         *)
EndsWhenTold == loop \in {"failed", "gone"} => unblocked

(* Every accepted message is handled, unless the task is deleted.          *)
MessageHandled == \A m \in LocMsg : Listed(m) ~> msg = m \/ ~alive

(* The queue keeps the promise of Fifo.                                    *)
Promise == INSTANCE Fifo WITH queue <- order, open <- ~unblocked, current <- msg

ImplementsFifo == Promise!Spec

(* Why: messages are sent once and are in one place.                       *)
MessagesFit ==
    /\ \A i, j \in DOMAIN order : order[i] = order[j] => i = j
    /\ \A i \in DOMAIN order : order[i] \notin unsent /\ order[i] # msg
    /\ msg \notin unsent
    /\ msg # NULL <=> loop = "proc"
    /\ alive <=> loop # "gone"

QueueInv ==
    /\ QueueTypeOK
    /\ MessagesFit
    /\ ListShape
    /\ NoLostWakeup
    /\ EndsWhenTold
=============================================================================
