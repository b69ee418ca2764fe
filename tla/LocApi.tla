------------------------------- MODULE LocApi -------------------------------
(***************************************************************************)
(* The modem interface as its adapters see it: the registry of adapters of *)
(* LocApiBase.cpp, the event mask and the client handle of LocApiV02, and  *)
(* the LocOpenMsg and LocSsrMsg that the MsgTask runs, over the QMI client *)
(* of LocClient.                                                           *)
(*                                                                         *)
(* Three kinds of thread: those that create and destroy adapters, the      *)
(* MsgTask, which opens the client, registers masks and waits in both, and *)
(* the QCCI thread, whose error callback asks for a restart.  Adapters are *)
(* created and destroyed one at a time, and the last one not while the     *)
(* MsgTask is inside locClientOpen.  The events wanted only in a session   *)
(* (adjustMaskForNoSession) are in FixSession.                             *)
(***************************************************************************)
EXTENDS LocClient

CONSTANTS
    Adapter,
    Wants,        \* mEvtMask of each adapter
    Excluded,     \* mExcludedMask of this LocApi
    MaxAdapters,  \* MAX_ADAPTERS
    MaxQueue      \* bound: messages queued when an adapter comes or goes

ASSUME LocApiAssumption ==
    /\ None \notin Adapter
    /\ Wants \in [Adapter -> SUBSET Event]
    /\ Excluded \in SUBSET Event
    /\ MaxAdapters \in Nat \ {0}
    /\ MaxQueue \in Nat

VARIABLES
    slots,      \* mLocAdapters
    queue,      \* the MsgTask's queue: masks to open with, and restarts
    mMask,      \* the mask this LocApi believes registered
    handle,     \* clientHandle: the address of the callback data
    task,       \* where the MsgTask is inside open()
    failed      \* history: an open or a registration failed since the last
                \* restart that worked

api  == <<slots, queue, mMask, handle, task, failed>>
vars == <<client, api>>

Slot == 1 .. MaxAdapters
Msg  == [type : {"open"}, mask : SUBSET Event] \cup [type : {"ssr"}]
Task ==
    [pc : {"idle"}]
      \cup [pc : {"connect", "register", "keep", "fill", "update", "updated"},
            mask : SUBSET Event, ssr : BOOLEAN]

Registered == {a \in Adapter : \E i \in Slot : slots[i] = a}

TypeOK ==
    /\ ClientTypeOK
    /\ slots \in [Slot -> Adapter \cup {None}]
    /\ queue \in Seq(Msg)
    /\ mMask \in SUBSET Event
    /\ handle \in Addr \cup {None}
    /\ task \in Task
    /\ failed \in BOOLEAN

Ready == [pc |-> "idle"]

Init ==
    /\ ClientInit
    /\ slots = [i \in Slot |-> None]
    /\ queue = <<>>
    /\ mMask = {}
    /\ handle = None
    /\ task = Ready
    /\ failed = FALSE

-----------------------------------------------------------------------------
(* The registry.                                                           *)

OpenMsg(m) == [type |-> "open", mask |-> m]
SsrMsg     == [type |-> "ssr"]

(* LocApiBase::getEvtMask.                                                 *)
EvtMask(s) == (UNION {Wants[s[i]] : i \in {j \in Slot : s[j] # None}}) \ Excluded

(* The first slot from which on the array holds nothing.                   *)
FirstFree(s) == CHOOSE i \in 1 .. MaxAdapters + 1 :
    /\ \A j \in 1 .. i - 1 : s[j] # None
    /\ i <= MaxAdapters => s[i] = None

(* LocApiBase::addAdapter, called by the constructor of the adapter; with  *)
(* the array full the adapter stays out of it.                             *)
AddAdapter(a) ==
    /\ a \notin Registered
    /\ Len(queue) < MaxQueue
    /\ FirstFree(slots) \in Slot
    /\ slots' = [slots EXCEPT ![FirstFree(slots)] = a]
    /\ queue' = Append(queue, OpenMsg(Wants[a]))
    /\ UNCHANGED <<client, mMask, handle, task, failed>>

(* LocApiV02::close.                                                       *)
Close ==
    /\ IF handle = None THEN UNCHANGED client ELSE Release(handle)
    /\ mMask' = {} /\ handle' = None

(* The array without the adapter of slot i: the last one takes its place.  *)
Without(s, i) == [s EXCEPT ![i] = s[FirstFree(s) - 1], ![FirstFree(s) - 1] = None]

(* LocApiBase::removeAdapter, called by the destructor: the last adapter   *)
(* closes the client at once, on its own thread.                           *)
RemoveAdapter(i) ==
    /\ slots[i] # None
    /\ Len(queue) < MaxQueue
    /\ slots' = Without(slots, i)
    /\ IF slots' = [j \in Slot |-> None]
         THEN task = Ready /\ Close /\ UNCHANGED queue
         ELSE /\ queue' = Append(queue, OpenMsg(EvtMask(slots')))
              /\ UNCHANGED <<client, mMask, handle>>
    /\ UNCHANGED <<task, failed>>

-----------------------------------------------------------------------------
(* The MsgTask.                                                            *)

Take(type) ==
    /\ task = Ready
    /\ queue # <<>> /\ Head(queue).type = type
    /\ queue' = Tail(queue)

Step(pc, mask, ssr) == task' = [pc |-> pc, mask |-> mask, ssr |-> ssr]

(* Mutant: the mask of the message replaces the mask registered so far.    *)
NewMaskReplaces(m) == m \ Excluded

(* The mask LocApiV02::open works with: bits are added, never removed.     *)
NewMask(m) == mMask \cup (m \ Excluded)

(* LocOpenMsg::proc, into LocApiV02::open: without a client it opens one,  *)
(* with one it registers the mask if that changes anything.                *)
TakeOpen ==
    /\ Take("open")
    /\ LET m == NewMask(Head(queue).mask) IN
         IF handle = None THEN Step("connect", m, FALSE)
         ELSE IF m # mMask THEN Step("update", m, FALSE) ELSE UNCHANGED task
    /\ UNCHANGED <<client, slots, mMask, handle, failed>>

(* LocSsrMsg::proc: close, then open with the events of all adapters.      *)
TakeSsr ==
    /\ Take("ssr")
    /\ Close
    /\ Step("connect", EvtMask(slots), TRUE)
    /\ UNCHANGED <<slots, failed>>

(* locClientOpen: the handle is given out before the callbacks are set.    *)
Connect ==
    /\ task.pc = "connect"
    /\ \E a \in Addr, h \in Handle : CtrlPointInit(a, h) /\ handle' = a
    /\ Step("register", task.mask, task.ssr)
    /\ UNCHANGED <<slots, queue, mMask, failed>>

OpenFailed == mMask' = {} /\ handle' = None /\ task' = Ready /\ failed' = TRUE

(* No service until the time out, or QCCI could not be initialised: then   *)
(* nothing is left.  Or it could, and the error callback was refused.      *)
ConnectFailed ==
    /\ task.pc = "connect"
    /\ OpenFailed
    /\ UNCHANGED client \/ \E a \in Addr, h \in Handle : CtrlPointLeft(a, h)
    /\ UNCHANGED <<slots, queue>>

(* qmi_client_send_msg_sync of the mask, in an open and in an update.      *)
Register ==
    /\ task.pc \in {"register", "update"}
    /\ SendMask(handle, task.mask)
    /\ task' = [task EXCEPT !.pc = IF task.pc = "register" THEN "keep" ELSE "updated"]
    /\ UNCHANGED <<slots, queue, mMask, handle, failed>>

Keep ==
    /\ task.pc = "keep"
    /\ KeepMask(handle, task.mask)
    /\ task' = [task EXCEPT !.pc = "fill"]
    /\ UNCHANGED <<slots, queue, mMask, handle, failed>>

(* The request failed, or its acknowledgement did not come in time: the    *)
(* open gives the client up.                                               *)
RegisterFailed ==
    /\ task.pc \in {"register", "keep"}
    /\ Release(handle)
    /\ OpenFailed
    /\ UNCHANGED <<slots, queue>>

(* The end of locClientOpen and of LocApiV02::open.                        *)
Opened ==
    /\ task.pc = "fill"
    /\ FillIn(handle, task.mask)
    /\ mMask' = task.mask
    /\ task' = Ready
    /\ failed' = (failed /\ ~task.ssr)
    /\ UNCHANGED <<slots, queue, handle>>

Updated ==
    /\ task.pc = "updated"
    /\ KeepMask(handle, task.mask)
    /\ mMask' = task.mask
    /\ task' = Ready
    /\ UNCHANGED <<slots, queue, handle, failed>>

(* Mutant: mMask is updated although the registration failed.              *)
UpdateFailedKept ==
    /\ task.pc \in {"update", "updated"}
    /\ mMask' = task.mask
    /\ task' = Ready
    /\ failed' = TRUE
    /\ UNCHANGED <<client, slots, queue, handle>>

(* "we do not update mMask here, because it did not change as the mask     *)
(* update has failed".                                                     *)
UpdateFailed ==
    /\ task.pc \in {"update", "updated"}
    /\ task' = Ready
    /\ failed' = TRUE
    /\ UNCHANGED <<client, slots, queue, mMask, handle>>

-----------------------------------------------------------------------------
(* The QCCI thread in the LocApi.                                          *)

(* Mutant: the restart is not asked for.                                   *)
CallbackSilent ==
    /\ RxDone
    /\ UNCHANGED api

(* globalErrorCb, errorCb, handleEngineDownEvent and handleEngineUpEvent   *)
(* ask for a restart.                                                      *)
Callback ==
    /\ RxDone
    /\ queue' = IF RxCalled THEN Append(queue, SsrMsg) ELSE queue
    /\ UNCHANGED <<slots, mMask, handle, task, failed>>

MsgTask ==
    \/ TakeOpen \/ TakeSsr
    \/ Connect \/ ConnectFailed
    \/ Register \/ Keep \/ RegisterFailed \/ Opened
    \/ Updated \/ UpdateFailed

Qcci ==
    \/ (RxError \/ RxErrorCopy) /\ UNCHANGED api
    \/ Callback

Next ==
    \/ \E a \in Adapter : AddAdapter(a)
    \/ \E i \in Slot : RemoveAdapter(i)
    \/ MsgTask
    \/ Qcci
    \/ (ServiceLost \/ ServiceBack) /\ UNCHANGED api

(* The MsgTask takes its messages and never waits for ever inside an open; *)
(* the QCCI thread calls every error callback that is due, and ends every  *)
(* callback it began.                                                      *)
Fairness == WF_vars(MsgTask) /\ WF_vars(Qcci)

Spec     == Init /\ [][Next]_vars
FairSpec == Spec /\ Fairness
-----------------------------------------------------------------------------
(* Properties.                                                             *)

(* What adapter a asked for reaches it: the client is open with its        *)
(* callbacks, modem, client and LocApi agree on a mask that has it, and     *)
(* TO_ALL_ADAPTERS gets as far as a's slot.                                *)
Served(a) ==
    /\ handle # None /\ data[handle].cbs
    /\ Wants[a] \ Excluded \subseteq mMask
    /\ data[handle].mask = mMask
    /\ data[handle].user \in dead \/ reg[data[handle].user] = mMask
    /\ \E i \in Slot : slots[i] = a /\ \A j \in 1 .. i : slots[j] # None

Settled == queue = <<>> /\ task = Ready

(* After any order of adapters coming and going, registrations, losses of  *)
(* the service and restarts, no adapter is left without the events it asked *)
(* for once the queue is empty, unless an open or a registration failed and *)
(* no restart came since, or the loss of the service is not yet known.     *)
EveryAdapterServed ==
    Settled /\ ~failed => \A a \in Registered : Served(a)

(* Only the client that the LocApi holds is called: no callback data lives *)
(* that nobody will free, and a client whose error callback QCCI has, or    *)
(* for which the modem has events, has its own callback data, not memory    *)
(* that was freed or given to another.  (A client whose error callback was  *)
(* refused stays in QCCI with an address that was freed,                    *)
(* loc_api_v02_client.c:2010-2020 and 2106-2112; it has neither.)           *)
Called(h) == h \in watched \/ reg[h] # {}

OneListener ==
    /\ \A a \in Addr : data[a] # Zeroed => a = handle /\ data[a].user \in Open
    /\ \A h \in Open : Called(h) => data[conn[h]].user = h
    /\ handle # None => data[handle].user \in watched

(* The LocApi never believes more registered than the modem has: else the  *)
(* next open with these bits would be skipped and nobody would get them.   *)
MaskHonest ==
    /\ handle = None => mMask = {}
    /\ handle # None /\ data[handle].user \notin dead
          => mMask \subseteq reg[data[handle].user]

(* A loss that QCCI reports to a client with callbacks is followed by its  *)
(* end: the LocApi does not stay with a client whose service has gone.     *)
LossNoticed ==
    \A h \in Handle :
        (h \in errors /\ data[conn[h]].cbs) ~> h \notin dead

=============================================================================
