------------------------------ MODULE SyncReq -------------------------------
(***************************************************************************)
(* Blocking requests to the modem (loc_api_sync_req.c).  A thread that     *)
(* calls loc_sync_send_req takes a slot of loc_sync_array, sends the       *)
(* request and waits in the slot; the QMI callback thread calls            *)
(* loc_sync_process_ind for every indication and gives it to the first     *)
(* slot that waits for its id.  loc_sync_call_mutex guards slot_in_use and *)
(* in_use, and is held by loc_sync_process_ind throughout; sync_req_lock   *)
(* guards a slot.  One step is what a thread does under one lock.  All     *)
(* calls use one client handle, and pass a buffer for the payload.         *)
(***************************************************************************)
EXTENDS Naturals, FiniteSets

CONSTANTS
    Caller,                     \* threads that make requests
    IndId,                      \* indications they wait for
    LOC_SYNC_REQ_BUFFER_SIZE,
    MaxCalls                    \* bound: calls made in all

ASSUME SizeAssumption ==
    /\ LOC_SYNC_REQ_BUFFER_SIZE \in Nat \ {0} /\ MaxCalls \in Nat
    /\ "none" \notin IndId /\ "none" \notin Caller

Slots == 0 .. LOC_SYNC_REQ_BUFFER_SIZE - 1
NULL  == 0

VARIABLES
    calls,        \* calls made so far
    in_use,
    slot_in_use,
    slots,        \* [ind, ptr, waiting, arrived, signalled] of each slot
    pc,           \* where each thread is
    call,         \* the number of its current or last call
    ind,          \* the indication that call asked for
    select_id,
    result,       \* what the call returns
    got,          \* the call whose answer lies in the caller's buffer
    air,          \* the answers on their way from the modem
    oddly,        \* threads that woke without a signal
    disturbed     \* indications two calls waited for at once, or a call gave up:
                  \* a timeout, an odd wake, a send whose acknowledgement is late

thread == <<pc, call, ind, select_id>>
ghost  == <<oddly, disturbed>>
vars   == <<calls, in_use, slot_in_use, slots, thread, result, got, air, ghost>>

None     == "none"
FreeData == [ind |-> None, ptr |-> None, waiting |-> FALSE, arrived |-> FALSE,
             signalled |-> FALSE]

Running(c) == pc[c] # "idle"

SlotData ==
    [ind : IndId \cup {None}, ptr : Caller \cup {None},
     waiting : BOOLEAN, arrived : BOOLEAN, signalled : BOOLEAN]

Answer == [call : 0 .. MaxCalls, ind : IndId \cup {None}]

Places  == {"idle", "alloc", "filled", "sent", "waiting", "freeing"}
Results == {None, "success", "timeout", "failure"}

TypeOK ==
    /\ calls \in 0 .. MaxCalls
    /\ in_use \in BOOLEAN
    /\ slot_in_use \in [Slots -> BOOLEAN]
    /\ slots \in [Slots -> SlotData]
    /\ pc \in [Caller -> Places]
    /\ call \in [Caller -> 0 .. MaxCalls]
    /\ ind \in [Caller -> IndId \cup {None}]
    /\ select_id \in [Caller -> Slots]
    /\ result \in [Caller -> Results]
    /\ got \in [Caller -> 0 .. MaxCalls]
    /\ air \in SUBSET Answer
    /\ oddly \in SUBSET Caller
    /\ disturbed \in SUBSET (IndId \cup {None})

(* loc_sync_req_init.                                                      *)
Init ==
    /\ calls = 0
    /\ in_use = FALSE
    /\ slot_in_use = [s \in Slots |-> FALSE]
    /\ slots = [s \in Slots |-> FreeData]
    /\ pc = [c \in Caller |-> "idle"]
    /\ call = [c \in Caller |-> NULL]
    /\ ind = [c \in Caller |-> None]
    /\ select_id = [c \in Caller |-> 0]
    /\ result = [c \in Caller |-> None]
    /\ got = [c \in Caller |-> NULL]
    /\ air = {}
    /\ oddly = {}
    /\ disturbed = {}

-----------------------------------------------------------------------------
(* loc_sync_send_req.                                                      *)

(* A new call of a thread.                                                 *)
Begins(c, i) ==
    /\ pc[c] = "idle" /\ calls < MaxCalls
    /\ calls' = calls + 1
    /\ call' = [call EXCEPT ![c] = calls']
    /\ ind' = [ind EXCEPT ![c] = i]
    /\ got' = [got EXCEPT ![c] = NULL]
    /\ oddly' = oddly \ {c}

(* loc_alloc_slot: the first slot that is free.                            *)
AllocSlot(c, i) ==
    /\ Begins(c, i)
    /\ \E s \in Slots :
          /\ ~slot_in_use[s] /\ \A t \in Slots : t < s => slot_in_use[t]
          /\ slot_in_use' = [slot_in_use EXCEPT ![s] = TRUE]
          /\ select_id' = [select_id EXCEPT ![c] = s]
    /\ in_use' = TRUE
    /\ pc' = [pc EXCEPT ![c] = "alloc"]
    /\ result' = [result EXCEPT ![c] = None]
    /\ disturbed' = IF \E d \in Caller : Running(d) /\ ind[d] = i THEN disturbed \cup {i}
                                                                   ELSE disturbed
    /\ UNCHANGED <<slots, air>>

(* No slot is free: status is still eLOC_CLIENT_SUCCESS.                   *)
BufferFull(c, i) ==
    /\ Begins(c, i)
    /\ \A s \in Slots : slot_in_use[s]
    /\ result' = [result EXCEPT ![c] = "success"]
    /\ UNCHANGED <<in_use, slot_in_use, slots, pc, select_id, air, disturbed>>

Goes(c, from, to) == pc[c] = from /\ pc' = [pc EXCEPT ![c] = to]

Data(c) == slots[select_id[c]]

(* The rest of loc_sync_select_ind.                                        *)
FillSlot(c) ==
    /\ Goes(c, "alloc", "filled")
    /\ slots' = [slots EXCEPT ![select_id[c]] =
                    [FreeData EXCEPT !.ind = ind[c], !.ptr = c]]
    /\ UNCHANGED <<calls, in_use, slot_in_use, call, ind, select_id, result, got, air, ghost>>

SendReq(c) ==
    /\ Goes(c, "filled", "sent")
    /\ air' = air \cup {[call |-> call[c], ind |-> ind[c]]}
    /\ UNCHANGED <<calls, in_use, slot_in_use, slots, call, ind, select_id, result, got, ghost>>

(* A request that failed: the modem never had it, or it has, and only its  *)
(* acknowledgement came too late (locClientSendReq); then the answer comes *)
(* all the same.                                                           *)
MayBeTaken(c) ==
    /\ result' = [result EXCEPT ![c] = "failure"]
    /\ \/ UNCHANGED <<air, disturbed>>
       \/ /\ air' = air \cup {[call |-> call[c], ind |-> ind[c]]}
          /\ disturbed' = disturbed \cup {ind[c]}
    /\ UNCHANGED <<calls, in_use, slot_in_use, slots, call, ind, select_id, got, oddly>>

(* Mutant: the slot is not freed.                                          *)
SendReqFailsKeepsSlot(c) == Goes(c, "filled", "idle") /\ MayBeTaken(c)

SendReqFails(c) == Goes(c, "filled", "freeing") /\ MayBeTaken(c)

-----------------------------------------------------------------------------
(* loc_sync_wait_for_ind.                                                  *)

(* The answer was there before the wait.                                   *)
AnsweredBefore(c) ==
    /\ Data(c).arrived
    /\ Goes(c, "sent", "freeing")
    /\ result' = [result EXCEPT ![c] = "success"]
    /\ UNCHANGED <<calls, in_use, slot_in_use, slots, call, ind, select_id, got, air, ghost>>

Wait(c) ==
    /\ ~Data(c).arrived
    /\ Goes(c, "sent", "waiting")
    /\ slots' = [slots EXCEPT ![select_id[c]] = [Data(c) EXCEPT !.waiting = TRUE]]
    /\ UNCHANGED <<calls, in_use, slot_in_use, call, ind, select_id, result, got, air, ghost>>

(* pthread_cond_timedwait returns, and loc_sync_wait_for_ind with it.      *)
WaitEnds(c, r) ==
    /\ Goes(c, "waiting", "freeing")
    /\ slots' = [slots EXCEPT ![select_id[c]] =
                    [Data(c) EXCEPT !.waiting = FALSE, !.signalled = FALSE]]
    /\ result' = [result EXCEPT ![c] = r]
    /\ UNCHANGED <<calls, in_use, slot_in_use, call, ind, select_id, got, air>>

Woken(c) ==
    /\ Data(c).signalled
    /\ WaitEnds(c, "success")
    /\ UNCHANGED ghost

(* It may also return without a signal; the code does not look again.      *)
WokenOddly(c) ==
    /\ ~Data(c).signalled
    /\ WaitEnds(c, "success")
    /\ oddly' = oddly \cup {c}
    /\ disturbed' = disturbed \cup {ind[c]}

(* Mutant: a timeout is not an error.                                      *)
TimedOutSucceeds(c) ==
    /\ WaitEnds(c, "success")
    /\ disturbed' = disturbed \cup {ind[c]}
    /\ UNCHANGED oddly

(* A timeout counts even when a signal came with it.                       *)
TimedOut(c) ==
    /\ WaitEnds(c, "timeout")
    /\ disturbed' = disturbed \cup {ind[c]}
    /\ UNCHANGED oddly

(* Mutant: what the slot waits for is left in it.                          *)
FreeSlotKeepsData(c) ==
    /\ Goes(c, "freeing", "idle")
    /\ select_id' = [select_id EXCEPT ![c] = 0]
    /\ slot_in_use' = [slot_in_use EXCEPT ![select_id[c]] = FALSE]
    /\ in_use' = \E s \in Slots : slot_in_use'[s]
    /\ UNCHANGED <<calls, slots, call, ind, result, got, air, ghost>>

(* loc_free_slot; select_id is gone with the call.                         *)
FreeSlot(c) ==
    /\ Goes(c, "freeing", "idle")
    /\ select_id' = [select_id EXCEPT ![c] = 0]
    /\ slot_in_use' = [slot_in_use EXCEPT ![select_id[c]] = FALSE]
    /\ slots' = [slots EXCEPT ![select_id[c]] = FreeData]
    /\ in_use' = \E s \in Slots : slot_in_use'[s]
    /\ UNCHANGED <<calls, call, ind, result, got, air, ghost>>

-----------------------------------------------------------------------------
(* loc_sync_process_ind.                                                   *)

(* The slots an answer a can go to.                                        *)
Matching(a) == {s \in Slots : slot_in_use[s] /\ slots[s].ind = a.ind /\ ~slots[s].arrived}

(* Mutant: the search goes on after the answer was consumed.               *)
IndToAll(a) ==
    /\ in_use /\ Matching(a) # {}
    /\ got' = [c \in Caller |-> IF \E s \in Matching(a) : slots[s].ptr = c THEN a.call ELSE got[c]]
    /\ slots' = [s \in Slots |->
                    IF s \notin Matching(a) THEN slots[s]
                    ELSE IF slots[s].waiting THEN [slots[s] EXCEPT !.signalled = TRUE]
                    ELSE [slots[s] EXCEPT !.arrived = TRUE]]
    /\ air' = air \ {a}
    /\ UNCHANGED <<calls, in_use, slot_in_use, thread, result, ghost>>

(* It goes to the first of them.                                           *)
IndTaken(a) ==
    /\ in_use
    /\ \E s \in Matching(a) :
          /\ \A t \in Matching(a) : s <= t
          /\ got' = [got EXCEPT ![slots[s].ptr] = a.call]
          /\ slots' = [slots EXCEPT ![s] = IF slots[s].waiting
                                           THEN [slots[s] EXCEPT !.signalled = TRUE]
                                           ELSE [slots[s] EXCEPT !.arrived = TRUE]]
    /\ air' = air \ {a}
    /\ UNCHANGED <<calls, in_use, slot_in_use, thread, result, ghost>>

(* Nobody waits for it: it is dropped.                                     *)
IndDropped(a) ==
    /\ ~in_use \/ Matching(a) = {}
    /\ in_use' = (in_use /\ \E s \in Slots : slot_in_use[s])
    /\ air' = air \ {a}
    /\ UNCHANGED <<calls, slot_in_use, slots, thread, result, got, ghost>>

-----------------------------------------------------------------------------
Thread(c) ==
    \/ FillSlot(c) \/ SendReq(c) \/ SendReqFails(c)
    \/ AnsweredBefore(c) \/ Wait(c) \/ Woken(c) \/ WokenOddly(c) \/ TimedOut(c)
    \/ FreeSlot(c)

Next ==
    \/ \E c \in Caller : Thread(c) \/ \E i \in IndId : AllocSlot(c, i) \/ BufferFull(c, i)
    \/ \E a \in air : IndTaken(a) \/ IndDropped(a)

Spec == Init /\ [][Next]_vars
-----------------------------------------------------------------------------
(* Properties.                                                             *)

(* A slot in use belongs to the one call that will free it, and the buffer *)
(* an indication is copied to is always that of a call that has not        *)
(* returned, whatever timed out, failed or came late.                      *)
SlotHasCaller ==
    /\ \A s \in Slots : slot_in_use[s] => \E c \in Caller : Running(c) /\ select_id[c] = s
    /\ \A c \in Caller : Running(c) => slot_in_use[select_id[c]]
    /\ \A c, d \in Caller : Running(c) /\ Running(d) /\ select_id[c] = select_id[d] => c = d
    /\ \A s \in Slots : slots[s].ptr # None => Running(slots[s].ptr) /\ select_id[slots[s].ptr] = s

(* in_use, which loc_sync_process_ind trusts before it looks at any slot,  *)
(* is never clear while a slot is in use: no answer is dropped that a      *)
(* thread waits for.                                                       *)
InUseFits == in_use <=> \E s \in Slots : slot_in_use[s]

(* loc_sync_wait_for_ind never finds its slot unused or somebody waiting   *)
(* in it (-EINVAL, -EBUSY), and an answer that came before the wait is     *)
(* remembered there.                                                       *)
WaitNeverRefused ==
    \A c \in Caller :
        /\ pc[c] \in {"filled", "sent"} => slot_in_use[select_id[c]] /\ ~Data(c).waiting
        /\ pc[c] = "sent" => (Data(c).arrived <=> got[c] # NULL)
        /\ pc[c] = "waiting" => Data(c).waiting /\ (Data(c).signalled <=> got[c] # NULL)

(* Why: a slot that is not in use is reset, and one that is fits what its  *)
(* caller has done.                                                        *)
CallerFits(c) ==
    /\ pc[c] = "alloc" => Data(c) = FreeData /\ got[c] = NULL
    /\ pc[c] \in {"filled", "sent", "waiting", "freeing"} => Data(c).ptr = c /\ Data(c).ind = ind[c]
    /\ pc[c] \in {"filled", "sent"} => (Data(c).arrived <=> got[c] # NULL)
    /\ pc[c] = "waiting" =>
          Data(c).waiting /\ ~Data(c).arrived /\ (Data(c).signalled <=> got[c] # NULL)
    /\ pc[c] \in {"filled", "sent", "freeing"} => ~Data(c).waiting /\ ~Data(c).signalled

Named ==
    /\ \A c \in Caller : Running(c) => call[c] # NULL /\ ind[c] # None
    /\ \A a \in air : a.call # NULL /\ a.ind # None

SlotInv ==
    /\ Named
    /\ SlotHasCaller
    /\ InUseFits
    /\ \A s \in Slots : ~slot_in_use[s] => slots[s] = FreeData
    /\ \A c \in Caller : CallerFits(c)

(* One answer ends one call.                                               *)
OneTakerPerAnswer ==
    \A c, d \in Caller : got[c] = got[d] /\ got[c] # NULL => c = d

(* A call that reports success was answered, but for a wake without a      *)
(* signal and for a call that found no slot.                               *)
SuccessIsAnswered ==
    \A c \in Caller :
        pc[c] = "freeing" /\ result[c] = "success" => got[c] # NULL \/ c \in oddly

(* Indications are matched by their id alone.  That is enough as long as   *)
(* no two calls wait for the same one and no call was given up after the   *)
(* modem had its request, by its timeout or because the acknowledgement of *)
(* the request was late (loc_api_v02_client.c:2361-2377): then every       *)
(* answer is that of the call that gets it.                                *)
AnswerIsOwn ==
    \A c \in Caller : ind[c] \notin disturbed => got[c] \in {NULL, call[c]}

(* Why: calls and answers are numbered apart, and the answer of an         *)
(* undisturbed indication has a call that still waits for it.              *)
AnswerInv ==
    /\ \A c \in Caller : call[c] <= calls /\ got[c] <= calls
    /\ \A c, d \in Caller : call[c] = call[d] /\ call[c] # NULL => c = d
    /\ \A c \in Caller : pc[c] \in {"alloc", "filled"} =>
          /\ \A a \in air : a.call # call[c]
          /\ \A d \in Caller : got[d] # call[c]
    /\ \A a \in air : a.call <= calls /\ \A c \in Caller : got[c] # a.call
    /\ \A a, b \in air : a.call = b.call => a = b
    /\ \A c, d \in Caller :
          Running(c) /\ Running(d) /\ ind[c] = ind[d] /\ ind[c] \notin disturbed => c = d
    /\ \A a \in air : a.ind \notin disturbed =>
          \E c \in Caller : /\ call[c] = a.call /\ ind[c] = a.ind
                            /\ pc[c] \in {"sent", "waiting"} /\ got[c] = NULL
    /\ OneTakerPerAnswer
    /\ AnswerIsOwn
=============================================================================
