--------------------------- MODULE DSStateMachine ---------------------------
(***************************************************************************)
(* The emergency SUPL connection: DSStateMachine (loc_eng_agps.cpp), the   *)
(* AgpsStateMachine whose NIF is a data call of the data-services client   *)
(* (LocApiV02, ds_client), composed with agnss_nif, to which a client is   *)
(* handed over when no data call can be had.                               *)
(*                                                                         *)
(* The handlers run one at a time on the MsgTask thread, which takes the   *)
(* messages from the FIFO `msgs'.  The modem posts requests and releases,  *)
(* the retry timer posts a request from a thread of its own, the data call *)
(* posts its events, and informStatus posts a request to agnss_nif.        *)
(***************************************************************************)
EXTENDS Naturals, Sequences, FiniteSets

CONSTANTS
    Client,      \* connection handles of the modem
    MAX_START_DATA_CALL_RETRIES,
    DsiStopMayFail,   \* dsi_stop_data_call may return an error
    EngineRestarts,   \* the modem may restart
    MaxMsgs,     \* bound: messages in the queue when another one is posted
    MaxTimers    \* bound: retry timers running at once

ASSUME BoundAssumption ==
    /\ MAX_START_DATA_CALL_RETRIES \in Nat
    /\ MaxMsgs \in Nat
    /\ MaxTimers \in Nat
    /\ DsiStopMayFail \in BOOLEAN
    /\ EngineRestarts \in BOOLEAN

(* A connection handle is a 32-bit number.                                 *)
ASSUME ClientAssumption == IsFiniteSet(Client)

VARIABLES
    state,      \* mStatePtr
    subs,       \* the clients on the list mSubscribers
    inactive,   \* those with mIsInactive
    retries,    \* mRetries
    timers,     \* loc_timer threads that will run retryCallback
    msgs,       \* the MsgTask queue
    call,       \* the data call behind dsClientHandle (external)
    conn,       \* the modem's view of each of its connections
    held,       \* agnss_nif, as NifContract describes it: its NIF ...
    atl         \* ... and what it told each client

hal   == <<state, subs, inactive, retries>>
agnss == <<held, atl>>
vars  == <<state, subs, inactive, retries, timers, msgs, call, conn, held, atl>>

Agnss == INSTANCE NifContract WITH phase <- atl

Message == ({"supl_es", "atl", "release"} \X Client) \cup ({"opened", "closed"} \X {"call"})

TypeOK ==
    /\ state \in {"released", "pending", "acquired", "releasing"}
    /\ subs \in SUBSET Client
    /\ inactive \in SUBSET subs
    /\ retries \in Nat
    /\ timers \in 0 .. MaxTimers
    /\ msgs \in Seq(Message)
    /\ call \in {"none", "starting", "up", "stopping"}
    /\ conn \in [Client -> {"closed", "opening", "open", "closing"}]
    /\ held \in BOOLEAN
    /\ atl \in [Client -> Agnss!Phase]

Init ==
    /\ state = "released"
    /\ subs = {} /\ inactive = {}
    /\ retries = 0 /\ timers = 0
    /\ msgs = <<>>
    /\ call = "none"
    /\ conn = [c \in Client |-> "closed"]
    /\ Agnss!Init

-----------------------------------------------------------------------------
(* The list, the queue and the modem.                                      *)

(* hasActiveSubscribers; the search for the first active subscriber finds  *)
(* the newest one, here any of them.                                       *)
Active == subs \ inactive

(* The orders in which a broadcast can reach the clients of S.             *)
Orders(S) == {q \in [1 .. Cardinality(S) -> S] : \A c \in S : \E i \in DOMAIN q : q[i] = c}

Room    == Len(msgs) < MaxMsgs
Post(m) == Room /\ msgs' = Append(msgs, m)

(* A handler takes its message from the queue and may leave others at the  *)
(* end of it.                                                              *)
Take(m)      == msgs # <<>> /\ Head(msgs) = m
Leaving(out) == msgs' = Tail(msgs) \o out

(* What the modem makes of atlOpenStatus(c, 1 or 0) and atlCloseStatus(c). *)
Heard(view, status) ==
    IF status = "open" THEN (IF view = "closing" THEN view ELSE "open")
    ELSE IF status = "refused" /\ view # "opening" THEN view ELSE "closed"

TellModem(S, status) ==
    conn' = [c \in Client |-> IF c \in S THEN Heard(conn[c], status) ELSE conn[c]]

-----------------------------------------------------------------------------
(* sendRsrcRequest and what it does with the answer of                     *)
(* LocApiV02::openAndStartDataCall.                                        *)

(* informStatus(RSRC_DENIED) of the clients in S: each is handed to         *)
(* agnss_nif by a message to the HAL itself.                                *)
FallBack(S) ==
    /\ retries' = 0
    /\ \E q \in Orders(S) : Leaving([i \in DOMAIN q |-> <<"atl", q[i]>>])

StartDataCall ==
    /\ call' = "starting"
    /\ Leaving(<<>>)
    /\ UNCHANGED <<retries, timers>>

(* LOC_API_ADAPTER_ERR_ENGINE_BUSY.                                        *)
RetryLater(c) ==
    /\ IF retries + 1 > MAX_START_DATA_CALL_RETRIES
         THEN FallBack({c}) /\ UNCHANGED timers
         ELSE /\ timers < MaxTimers /\ timers' = timers + 1
              /\ retries' = retries + 1
              /\ Leaving(<<>>)
    /\ UNCHANGED call

(* LOC_API_ADAPTER_ERR_UNSUPPORTED.                                        *)
GiveUp(c) == FallBack({c}) /\ UNCHANGED <<timers, call>>

(* stopDataCall: its failures are logged and dropped.                      *)
StopDataCall ==
    \/ call \in {"starting", "up"} /\ call' = "stopping"
    \/ (DsiStopMayFail \/ call \notin {"starting", "up"}) /\ UNCHANGED call

-----------------------------------------------------------------------------
(* LocEngRequestSuplEs: subscribeRsrc.                                     *)

(* A data call that could not be set up is retried in Released.            *)
SubscribeReleased(c) ==
    /\ state = "released" /\ Take(<<"supl_es", c>>)
    /\ subs' = subs \cup {c}
    /\ \/ state' = "pending" /\ StartDataCall
       \/ UNCHANGED state /\ \E d \in subs' \ inactive : RetryLater(d) \/ GiveUp(d)
    /\ UNCHANGED <<inactive, conn, agnss>>

(* Mutant: a request in Pending asks for the data call again.              *)
SubscribeWaitingStarts(c) ==
    /\ state \in {"pending", "releasing"} /\ Take(<<"supl_es", c>>)
    /\ subs' = subs \cup {c}
    /\ StartDataCall
    /\ UNCHANGED <<state, inactive, conn, agnss>>

SubscribeWaiting(c) ==
    /\ state \in {"pending", "releasing"} /\ Take(<<"supl_es", c>>)
    /\ subs' = subs \cup {c}
    /\ Leaving(<<>>)
    /\ UNCHANGED <<state, inactive, retries, timers, call, conn, agnss>>

SubscribeAcquired(c) ==
    /\ state = "acquired" /\ Take(<<"supl_es", c>>)
    /\ TellModem({c}, "open")
    /\ subs' = subs \cup {c}
    /\ Leaving(<<>>)
    /\ UNCHANGED <<state, inactive, retries, timers, call, agnss>>

-----------------------------------------------------------------------------
(* LocEngReleaseATL: agnss_nif is asked first, then ds_nif.                *)

ReleaseFromAgnss(c) ==
    /\ Take(<<"release", c>>)
    /\ atl[c] \in {"requested", "open"}
    /\ Agnss!Leave(c) /\ atl'[c] = "idle"
    /\ TellModem({c}, "closed")
    /\ Leaving(<<>>)
    /\ UNCHANGED <<hal, timers, call>>

(* Mutants: the machine goes to Released at once, as for clients that do   *)
(* not wait; it counts inactive subscribers when it asks who is left.      *)
ReleaseFromDsSkipsReleasing(c) ==
    /\ Take(<<"release", c>>)
    /\ atl[c] \notin {"requested", "open"} /\ c \in subs
    /\ TellModem({c}, "closed")
    /\ IF state = "released"
         THEN UNCHANGED <<state, inactive, call>>
         ELSE /\ inactive' = inactive \cup {c}
              /\ IF state = "releasing" \/ subs \ inactive' # {}
                   THEN UNCHANGED <<state, call>>
                   ELSE state' = "released" /\ StopDataCall
    /\ Leaving(<<>>)
    /\ UNCHANGED <<subs, retries, timers, agnss>>

(* The subscriber is told at once and marked inactive until the data call  *)
(* is closed; in Released it is only told.                                 *)
ReleaseFromDs(c) ==
    /\ Take(<<"release", c>>)
    /\ atl[c] \notin {"requested", "open"} /\ c \in subs
    /\ TellModem({c}, "closed")
    /\ IF state = "released"
         THEN UNCHANGED <<state, inactive, call>>
         ELSE /\ inactive' = inactive \cup {c}
              /\ IF state = "releasing" \/ subs \ inactive' # {}
                   THEN UNCHANGED <<state, call>>
                   ELSE state' = "releasing" /\ StopDataCall
    /\ Leaving(<<>>)
    /\ UNCHANGED <<subs, retries, timers, agnss>>

(* Mutant: a handle nobody knows is not answered.                          *)
ReleaseUnknownSilent(c) ==
    /\ Take(<<"release", c>>)
    /\ atl[c] \notin {"requested", "open"} /\ c \notin subs
    /\ Leaving(<<>>)
    /\ UNCHANGED <<hal, timers, call, conn, agnss>>

(* "Could not release ATL. No subscribers found": answered all the same.   *)
ReleaseUnknown(c) ==
    /\ Take(<<"release", c>>)
    /\ atl[c] \notin {"requested", "open"} /\ c \notin subs
    /\ TellModem({c}, "closed")
    /\ Leaving(<<>>)
    /\ UNCHANGED <<hal, timers, call, agnss>>

-----------------------------------------------------------------------------
(* LocEngSuplEsOpened and LocEngSuplEsClosed: DSStateMachine::onRsrcEvent. *)

Opened == <<"opened", "call">>
Closed == <<"closed", "call">>

OpenedPending ==
    /\ state = "pending" /\ Take(Opened)
    /\ state' = "acquired"
    /\ TellModem(Active, "open")
    /\ Leaving(<<>>)
    /\ UNCHANGED <<subs, inactive, retries, timers, call, agnss>>

(* A RELEASED in Pending is translated to DENIED, broadcast to all.        *)
ClosedPending ==
    /\ state = "pending" /\ Take(Closed)
    /\ state' = "released"
    /\ IF subs = {} THEN Leaving(<<>>) /\ UNCHANGED retries ELSE FallBack(subs)
    /\ subs' = {} /\ inactive' = {}
    /\ UNCHANGED <<timers, call, conn, agnss>>

(* Mutant: a forced release is not acted upon.                             *)
ClosedAcquiredIgnored ==
    /\ state = "acquired" /\ Take(Closed)
    /\ Leaving(<<>>)
    /\ UNCHANGED <<hal, timers, call, conn, agnss>>

(* A forced release: every subscriber is dropped, and all informStatus     *)
(* does with RSRC_RELEASED is to close the handle of the data call.        *)
ClosedAcquired ==
    /\ state = "acquired" /\ Take(Closed)
    /\ state' = "released"
    /\ subs' = {} /\ inactive' = {}
    /\ Leaving(<<>>)
    /\ UNCHANGED <<retries, timers, call, conn, agnss>>

(* The inactive subscribers are dropped; for those that came meanwhile the *)
(* data call is requested again, and the answer is not looked at.          *)
ClosedReleasing ==
    /\ state = "releasing" /\ Take(Closed)
    /\ subs' = Active /\ inactive' = {}
    /\ IF Active = {}
         THEN /\ state' = "released"
              /\ Leaving(<<>>)
              /\ UNCHANGED <<retries, timers, call>>
         ELSE /\ state' = "pending"
              /\ \/ StartDataCall
                 \/ \E d \in Active : RetryLater(d) \/ GiveUp(d)
    /\ UNCHANGED <<conn, agnss>>

(* Every other pair of state and event is ignored.                         *)
IgnoreEvent ==
    /\ \/ state # "pending" /\ Take(Opened)
       \/ state = "released" /\ Take(Closed)
    /\ Leaving(<<>>)
    /\ UNCHANGED <<hal, timers, call, conn, agnss>>

-----------------------------------------------------------------------------
(* agnss_nif: the request of a client that fell back, and its answers.     *)

(* The clients whose status in agnss_nif changes are told it.              *)
AgnssTells ==
    conn' = [c \in Client |-> IF atl'[c] = atl[c] THEN conn[c]
                              ELSE Heard(conn[c], IF atl'[c] = "idle" THEN "closed" ELSE atl'[c])]

RequestATL(c) ==
    /\ Take(<<"atl", c>>)
    /\ IF atl[c] \in {"idle", "refused"}
         THEN /\ Agnss!Ask(c) /\ atl'[c] # "refused"
              /\ IF held THEN TellModem({c}, "open") ELSE UNCHANGED conn
         ELSE UNCHANGED <<agnss, conn>>
    /\ Leaving(<<>>)
    /\ UNCHANGED <<hal, timers, call>>

AgnssAnswers ==
    /\ \E c \in Client : atl[c] = "requested"
    /\ Agnss!Grant \/ Agnss!Refuse
    /\ AgnssTells
    /\ UNCHANGED <<hal, timers, msgs, call>>

AgnssLost ==
    /\ Agnss!Lose
    /\ AgnssTells
    /\ UNCHANGED <<hal, timers, msgs, call>>

(* loc_eng_handle_engine_up: agnss_nif forgets its clients, ds_nif does    *)
(* not; the modem has forgotten them all.                                  *)
EngineRestart ==
    /\ EngineRestarts
    /\ Agnss!Forget
    /\ conn' = [c \in Client |-> "closed"]
    /\ UNCHANGED <<hal, timers, msgs, call>>

-----------------------------------------------------------------------------
(* retryCallback, on the thread of the timer.                              *)
RetryCallback ==
    /\ timers > 0 /\ timers' = timers - 1
    /\ IF Active = {} THEN UNCHANGED msgs
                      ELSE \E d \in Active : Post(<<"supl_es", d>>)
    /\ UNCHANGED <<hal, call, conn, agnss>>

(* The modem (external) asks for a connection and gives it back, also      *)
(* before it was answered.                                                 *)
ModemRequest(c) ==
    /\ conn[c] = "closed" /\ conn' = [conn EXCEPT ![c] = "opening"]
    /\ Post(<<"supl_es", c>>)
    /\ UNCHANGED <<hal, timers, call, agnss>>

ModemRelease(c) ==
    /\ conn[c] \in {"opening", "open"} /\ conn' = [conn EXCEPT ![c] = "closing"]
    /\ Post(<<"release", c>>)
    /\ UNCHANGED <<hal, timers, call, agnss>>

(* The data call (external): it comes up or fails, stops when told to, and *)
(* may drop; net_ev_cb posts both kinds of event.                          *)
CallUp ==
    /\ call = "starting" /\ call' = "up"
    /\ Post(Opened)
    /\ UNCHANGED <<hal, timers, conn, agnss>>

CallGone ==
    /\ call # "none" /\ call' = "none"
    /\ Post(Closed)
    /\ UNCHANGED <<hal, timers, conn, agnss>>

-----------------------------------------------------------------------------
Subscribe(c) == SubscribeReleased(c) \/ SubscribeWaiting(c) \/ SubscribeAcquired(c)
Release(c)   == ReleaseFromAgnss(c) \/ ReleaseFromDs(c) \/ ReleaseUnknown(c)
OnRsrcEvent  == OpenedPending \/ ClosedPending \/ ClosedAcquired \/ ClosedReleasing \/ IgnoreEvent

MsgTask == (\E c \in Client : Subscribe(c) \/ Release(c) \/ RequestATL(c)) \/ OnRsrcEvent

Next ==
    \/ MsgTask
    \/ RetryCallback
    \/ AgnssAnswers \/ AgnssLost
    \/ EngineRestart
    \/ \E c \in Client : ModemRequest(c) \/ ModemRelease(c)
    \/ CallUp \/ CallGone

Spec     == Init /\ [][Next]_vars
FairSpec == Spec /\ WF_vars(MsgTask)
-----------------------------------------------------------------------------
(* Properties.                                                             *)

InSeq(x, seq) == \E i \in DOMAIN seq : seq[i] = x

(* In Released there is no data call, and none of its events is on its way *)
(* to be taken for an event of the next one.  So a data call that lives    *)
(* always has a machine that will stop it, whatever the retry timer, the   *)
(* fall-backs and the releases that crossed them did.                      *)
CallOwned ==
    state = "released" => call = "none" /\ ~InSeq(Opened, msgs) /\ ~InSeq(Closed, msgs)

(* The machine is in Acquired only on a data call that lives or whose end  *)
(* is already queued.                                                      *)
AcquiredIsReal ==
    state = "acquired" => call \in {"up", "stopping"} \/ InSeq(Closed, msgs)

(* dsi_start_data_call is never reached while an earlier call lives or its *)
(* end has not been processed: not by a retry that comes late, nor by a    *)
(* request in Releasing.                                                   *)
OneCallAtATime ==
    [][call' = "starting" /\ call # "starting" => call = "none" /\ ~InSeq(Closed, msgs')]_vars

(* How the events of the call lie in the queue: at most one of each, an    *)
(* OPENED before its CLOSED, and both after the call came that far.  With  *)
(* CallOwned and AcquiredIsReal this is inductive.                         *)
EventsInOrder ==
    \A i, j \in DOMAIN msgs :
        /\ msgs[i] = Opened /\ msgs[j] = Opened => i = j
        /\ msgs[i] = Closed /\ msgs[j] = Closed => i = j
        /\ msgs[i] = Closed /\ msgs[j] = Opened => j < i

EventsOfCall ==
    /\ InSeq(Closed, msgs) => call = "none"
    /\ InSeq(Opened, msgs) => call \in {"up", "stopping"} \/ InSeq(Closed, msgs)

CallInv ==
    /\ TypeOK
    /\ CallOwned
    /\ AcquiredIsReal
    /\ EventsInOrder
    /\ EventsOfCall

(* Without a subscriber there is nothing to request and nothing to stop,   *)
(* and no inactive subscriber survives into Released, where                *)
(* sendRsrcRequest would find nobody to fall back for.                     *)
SubscribersFitState ==
    /\ state = "released" => inactive = {}
    /\ state = "releasing" => subs # {}
    /\ state \in {"pending", "acquired"} => Active # {}

(* The counter never passes MAX_START_DATA_CALL_RETRIES: the attempt that  *)
(* would hands the client to agnss_nif and starts the count again.         *)
RetriesBounded == retries <= MAX_START_DATA_CALL_RETRIES

(* Whatever list a client is left on, a release of the modem is answered.  *)
ReleaseAnswered == \A c \in Client : conn[c] = "closing" ~> conn[c] # "closing"

=============================================================================
