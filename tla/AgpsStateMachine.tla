-------------------------- MODULE AgpsStateMachine --------------------------
(***************************************************************************)
(* One AgpsStateMachine object of the GPS HAL (loc_eng_agps.cpp): the      *)
(* sharing of one network interface (NIF) among the clients that subscribe *)
(* to it.  agnss_nif, internet_nif (ATL and BIT subscribers) and wifi_nif  *)
(* (WIFI subscribers) are instances; the data-services subclass has its    *)
(* own module, DSStateMachine.                                             *)
(*                                                                         *)
(* Every handler runs on the one MsgTask thread, so a handler is one       *)
(* atomic action; the asynchrony is between this thread, the clients and   *)
(* the Android connectivity service (external), which sees the requests    *)
(* in `cmds' and answers through loc_eng_agps_open / _closed /             *)
(* _open_failed, that is through `events'.                                 *)
(***************************************************************************)
EXTENDS Naturals, Sequences, FiniteSets

CONSTANTS
    Client,          \* connection handles (ATL), addresses (BIT), senders (WIFI)
    WaitForClose,    \* Subscriber::waitForCloseComplete() of this kind of client
    EnforceSingle,   \* mEnforceSingleSubscriber
    DropOnRestart,   \* loc_eng_handle_engine_up drops this machine's subscribers
    MaxCmds,         \* bound: requests the connectivity service has not taken yet
    MaxEvents        \* bound: its answers not yet processed by the MsgTask

(* loc_eng_agps_init builds a machine of waiting clients only with         *)
(* enforceSingleSubscriber, and loc_eng_handle_engine_up drops only        *)
(* agnss_nif and internet_nif, whose clients do not wait.                  *)
ASSUME KindAssumption ==
    /\ WaitForClose  \in BOOLEAN
    /\ EnforceSingle \in BOOLEAN
    /\ DropOnRestart \in BOOLEAN
    /\ WaitForClose => EnforceSingle
    /\ DropOnRestart => ~WaitForClose

ASSUME BoundAssumption == MaxCmds \in Nat /\ MaxEvents \in Nat

VARIABLES
    state,      \* mStatePtr
    subs,       \* the clients on the list mSubscribers
    inactive,   \* those of them whose mIsInactive is set
    phase,      \* what each client was last told (or accepted for)
    cmds,       \* agps_status_cb calls the connectivity service has to handle
    nif,        \* the connectivity service's view of the connection
    events      \* its answers, queued as LocMsgs in the MsgTask queue

hal   == <<state, subs, inactive, phase>>
world == <<cmds, nif, events>>
vars  == <<state, subs, inactive, phase, cmds, nif, events>>

State   == {"released", "pending", "acquired", "releasing"}
Phase   == {"idle", "requested", "open", "closing", "refused"}
Action  == {"request", "release"}     \* GPS_REQUEST_ / GPS_RELEASE_AGPS_DATA_CONN
Event   == {"granted", "released", "denied"}

TypeOK ==
    /\ state \in State
    /\ subs \in SUBSET Client
    /\ inactive \in SUBSET subs
    /\ phase \in [Client -> Phase]
    /\ cmds \in Seq(Action)
    /\ nif \in {"closed", "opening", "open"}
    /\ events \in Seq(Event)

Init ==
    /\ state = "released"
    /\ subs = {}
    /\ inactive = {}
    /\ phase = [c \in Client |-> "idle"]
    /\ cmds = <<>>
    /\ nif = "closed"
    /\ events = <<>>

-----------------------------------------------------------------------------
(* Notifications.                                                          *)

(* notifyRsrcStatus: what a client learns from each status.                *)
Answer(status) ==
    IF status = "granted" THEN "open"
    ELSE IF status = "denied" THEN "refused" ELSE "idle"

(* notifySubscribers: every receiver in S is told the status.              *)
Tell(S, status) ==
    phase' = [c \in Client |-> IF c \in S THEN Answer(status) ELSE phase[c]]

(* Mutant: the two actions of sendRsrcRequest's test are swapped.          *)
SendRsrcRequestSwapped(action, S, I) ==
    cmds' = IF (S \ I = {}) = (action = "request")
              THEN Append(cmds, action)
              ELSE cmds

(* sendRsrcRequest over the list of subscribers and inactive ones it finds: *)
(* a release goes out only when nobody is active, a request only when       *)
(* somebody is.                                                             *)
SendRsrcRequest(action, S, I) ==
    cmds' = IF (S \ I = {}) = (action = "release")
              THEN Append(cmds, action)
              ELSE cmds

-----------------------------------------------------------------------------
(* Client requests.                                                        *)

(* subscribeRsrc refusing because of mEnforceSingleSubscriber.             *)
RefuseSecond(c) ==
    /\ phase[c] \in {"idle", "refused"}
    /\ EnforceSingle /\ subs # {}
    /\ Tell({c}, "denied")
    /\ UNCHANGED <<state, subs, inactive, cmds, nif, events>>

(* Mutant: Acquired only enlists the client, as Pending does.              *)
SubscribeNotGranted(c) ==
    /\ phase[c] \in {"idle", "refused"}
    /\ ~(EnforceSingle /\ subs # {})
    /\ Len(cmds) < MaxCmds
    /\ subs' = subs \cup {c}
    /\ phase' = [phase EXCEPT ![c] = "requested"]
    /\ IF state = "released"
         THEN /\ state' = "pending"
              /\ SendRsrcRequest("request", subs \cup {c}, inactive)
         ELSE UNCHANGED <<state, cmds>>
    /\ UNCHANGED <<inactive, nif, events>>

(* subscribeRsrc handing RSRC_SUBSCRIBE to the current state: Released     *)
(* requests the NIF, Pending and Releasing only enlist, Acquired grants at *)
(* once.  addSubscriber leaves a client already on the list alone.         *)
Subscribe(c) ==
    /\ phase[c] \in {"idle", "refused"}
    /\ ~(EnforceSingle /\ subs # {})
    /\ Len(cmds) < MaxCmds
    /\ subs' = subs \cup {c}
    /\ phase' = [phase EXCEPT ![c] = IF state = "acquired" THEN "open" ELSE "requested"]
    /\ IF state = "released"
         THEN /\ state' = "pending"
              /\ SendRsrcRequest("request", subs \cup {c}, inactive)
         ELSE UNCHANGED <<state, cmds>>
    /\ UNCHANGED <<inactive, nif, events>>

(* Where the machine goes once the list is S with I inactive, and whether  *)
(* it tells the connectivity service to release the NIF.                   *)
AfterUnsubscribe(S, I) ==
    IF state = "releasing"
      THEN /\ state' = IF S = {} THEN "released" ELSE "releasing"
           /\ UNCHANGED cmds
      ELSE IF S \ I = {}
             THEN /\ state' = IF S = {} THEN "released" ELSE "releasing"
                  /\ SendRsrcRequest("release", S, I)
             ELSE UNCHANGED <<state, cmds>>

(* unsubscribeRsrc of a client found on the list.  A release the client    *)
(* sent while an answer was on its way to it is allowed in any phase; of a *)
(* client not on the list it changes nothing.                              *)
Unsubscribe(c) ==
    /\ c \in subs
    /\ Len(cmds) < MaxCmds
    /\ IF state = "released"
         THEN /\ Tell({c}, "unsubscribe")
              /\ UNCHANGED <<state, subs, inactive, cmds>>
         ELSE IF WaitForClose
                THEN /\ inactive' = inactive \cup {c}
                     /\ phase' = [phase EXCEPT ![c] = "closing"]
                     /\ AfterUnsubscribe(subs, inactive')
                     /\ UNCHANGED subs
                ELSE /\ subs' = subs \ {c}
                     /\ Tell({c}, "unsubscribe")
                     /\ AfterUnsubscribe(subs', inactive)
                     /\ UNCHANGED inactive
    /\ UNCHANGED <<nif, events>>

-----------------------------------------------------------------------------
(* Answers of the connectivity service: onRsrcEvent of each state.         *)

Next1(event) == events # <<>> /\ Head(events) = event /\ events' = Tail(events)

PendingGranted ==
    /\ state = "pending" /\ Next1("granted")
    /\ state' = "acquired"
    /\ Tell(subs \ inactive, "granted")
    /\ UNCHANGED <<subs, inactive, cmds, nif>>

PendingDenied ==
    /\ state = "pending" /\ Next1("denied")
    /\ state' = "released"
    /\ Tell(subs, "denied")
    /\ subs' = {} /\ inactive' = {}
    /\ UNCHANGED <<cmds, nif>>

(* Mutant: a forced release is taken for a late one and ignored.           *)
AcquiredReleasedIgnored ==
    /\ state = "acquired" /\ Next1("released")
    /\ UNCHANGED <<hal, cmds, nif>>

(* "a force rsrc release"                                                  *)
AcquiredReleased ==
    /\ state = "acquired" /\ Next1("released")
    /\ state' = "released"
    /\ Tell(subs, "released")
    /\ subs' = {} /\ inactive' = {}
    /\ UNCHANGED <<cmds, nif>>

(* Mutant: the released clients are taken off the list but stay marked      *)
(* inactive.                                                               *)
ReleasingDoneKeepsInactive ==
    /\ state = "releasing"
    /\ \E event \in {"released", "denied"} : Next1(event) /\ Tell(inactive, event)
    /\ subs' = subs \ inactive
    /\ state' = "released"
    /\ UNCHANGED <<inactive, cmds, nif>>

(* RELEASED, or a DENIED that crossed the release: the inactive clients    *)
(* are told and dropped, and the NIF is requested again for those left.    *)
ReleasingDone ==
    /\ state = "releasing"
    /\ \E event \in {"released", "denied"} : Next1(event) /\ Tell(inactive, event)
    /\ subs' = subs \ inactive /\ inactive' = {}
    /\ IF subs' # {}
         THEN /\ state' = "pending"
              /\ SendRsrcRequest("request", subs', inactive')
         ELSE /\ state' = "released"
              /\ UNCHANGED cmds
    /\ UNCHANGED nif

(* Every other pair of state and event is logged and ignored.              *)
IgnoreEvent ==
    /\ \E event \in Event :
          /\ Next1(event)
          /\ <<state, event>> \notin
                {<<"pending", "granted">>, <<"pending", "denied">>,
                 <<"acquired", "released">>,
                 <<"releasing", "released">>, <<"releasing", "denied">>}
    /\ UNCHANGED <<hal, cmds, nif>>

(* loc_eng_handle_engine_up: the modem restarted and forgot its handles;   *)
(* the list is flushed without notifying anybody, the state is not reset.  *)
EngineRestart ==
    /\ DropOnRestart
    /\ subs' = {} /\ inactive' = {}
    /\ phase' = [c \in Client |-> "idle"]
    /\ UNCHANGED <<state, world>>

-----------------------------------------------------------------------------
(* The connectivity service (external): it takes the requests in order and *)
(* answers each one; a release of a connection it does not hold is not     *)
(* answered, and it may lose a connection by itself.                       *)

Room == Len(events) < MaxEvents

NifRequest ==
    /\ cmds # <<>> /\ Head(cmds) = "request" /\ Room
    /\ cmds' = Tail(cmds)
    /\ IF nif = "open"
         THEN events' = Append(events, "granted") /\ UNCHANGED nif
         ELSE nif' = "opening" /\ UNCHANGED events
    /\ UNCHANGED hal

NifRelease ==
    /\ cmds # <<>> /\ Head(cmds) = "release" /\ Room
    /\ cmds' = Tail(cmds)
    /\ nif' = "closed"
    /\ events' = IF nif = "closed" THEN events ELSE Append(events, "released")
    /\ UNCHANGED hal

NifAnswer ==
    /\ nif = "opening" /\ Room
    /\ \/ nif' = "open"   /\ events' = Append(events, "granted")
       \/ nif' = "closed" /\ events' = Append(events, "denied")
    /\ UNCHANGED <<hal, cmds>>

NifLost ==
    /\ nif = "open" /\ Room
    /\ nif' = "closed"
    /\ events' = Append(events, "released")
    /\ UNCHANGED <<hal, cmds>>

-----------------------------------------------------------------------------
OnRsrcEvent ==
    \/ PendingGranted
    \/ PendingDenied
    \/ AcquiredReleased
    \/ ReleasingDone
    \/ IgnoreEvent

Next ==
    \/ \E c \in Client : RefuseSecond(c) \/ Subscribe(c) \/ Unsubscribe(c)
    \/ OnRsrcEvent
    \/ EngineRestart
    \/ NifRequest
    \/ NifRelease
    \/ NifAnswer
    \/ NifLost

(* The MsgTask thread drains its queue, and the connectivity service       *)
(* handles every request and finishes every opening; clients, restarts and *)
(* losses are free.                                                        *)
Fairness ==
    /\ WF_vars(OnRsrcEvent)
    /\ WF_vars(NifRequest \/ NifRelease)
    /\ WF_vars(NifAnswer)

Spec     == Init /\ [][Next]_vars
FairSpec == Spec /\ Fairness
-----------------------------------------------------------------------------
(* Properties.                                                             *)

(* What a client was told is what the machine can stand for: a client told *)
(* its connection is open is an active subscriber of an acquired NIF, one  *)
(* still waiting is an active subscriber of a machine that expects an      *)
(* answer, one waiting for its close is an inactive subscriber of a        *)
(* machine that is releasing.  No interleaving of requests, late answers,  *)
(* forced releases and engine restarts strands a client.                   *)
ClientBacked ==
    \A c \in Client :
        /\ phase[c] = "open"      => c \in subs \ inactive /\ state = "acquired"
        /\ phase[c] = "requested" => c \in subs \ inactive /\ state = "pending"
        /\ phase[c] = "closing"   => c \in inactive /\ state = "releasing"

(* Nobody stays on the list after having been told that it is over: such a *)
(* subscriber would keep the NIF and be notified of grants it never asked  *)
(* for.                                                                    *)
NoStaleSubscriber ==
    \A c \in subs : phase[c] \in {"requested", "open", "closing"}

(* AgpsReleasedState::onRsrcEvent logs "subscriber list not empty!!!" and  *)
(* says it does not know how to recover from it: it never has to.          *)
ReleasedIsEmpty == state = "released" => subs = {}

InSeq(x, seq) == \E i \in 1 .. Len(seq) : seq[i] = x

(* A machine that waits has something to wait for: in Pending an answer to *)
(* a request is in the event queue or will be produced, in Releasing a     *)
(* RELEASED or DENIED is.  Otherwise every later subscriber would wait     *)
(* with it for ever.                                                       *)
AnswerOutstanding ==
    /\ state = "pending" =>
          \/ InSeq("granted", events) \/ InSeq("denied", events)
          \/ nif = "opening"
          \/ InSeq("request", cmds)
    /\ state = "releasing" =>
          \/ InSeq("released", events) \/ InSeq("denied", events)
          \/ /\ InSeq("release", cmds)
             /\ nif # "closed" \/ InSeq("request", cmds)

(* The machine holds the NIF only if the connection exists, or the message *)
(* that it is gone is already queued: a grant that answers an earlier      *)
(* request does not leave it acquired on a connection that was released.   *)
AcquiredIsReal ==
    state = "acquired" => nif = "open" \/ InSeq("released", events)

(* Every accepted request is answered.                                      *)
RequestAnswered == \A c \in Client : phase[c] = "requested" ~> phase[c] # "requested"

(* The machine implements the contract of NifContract, the NIF being held  *)
(* exactly in the Acquired state.                                          *)
Contract == INSTANCE NifContract WITH held <- (state = "acquired")

ImplementsContract == Contract!Spec

(* The inductive strengthening the proofs rest on: which subscribers there *)
(* can be in which state, for each kind of client.                         *)
SingleSubscriber == EnforceSingle => \A a, b \in subs : a = b

InactiveOnlyReleasing ==
    /\ inactive # {} => state = "releasing"
    /\ state = "releasing" => WaitForClose /\ subs # {} /\ inactive = subs

PhaseOfSubscriber ==
    \A c \in subs :
        /\ state = "pending"   => phase[c] = "requested"
        /\ state = "acquired"  => phase[c] = "open"
        /\ state = "releasing" => phase[c] = "closing"

PhaseOfOthers == \A c \in Client \ subs : phase[c] \in {"idle", "refused"}

IInv ==
    /\ TypeOK
    /\ ReleasedIsEmpty
    /\ SingleSubscriber
    /\ InactiveOnlyReleasing
    /\ PhaseOfSubscriber
    /\ PhaseOfOthers

(* What AcquiredIsReal rests on: a grant that is on its way is of a        *)
(* connection that is there, or is followed by the message that it is gone.*)
GrantsAreHeld ==
    \A i \in 1 .. Len(events) : events[i] = "granted" =>
        nif = "open" \/ \E j \in i + 1 .. Len(events) : events[j] = "released"

HeldInv == AcquiredIsReal /\ GrantsAreHeld

(* What AnswerOutstanding rests on: the last command of a machine that     *)
(* waits is the one whose answer ends the wait.                            *)
LastIs(x, seq) == seq # <<>> /\ seq[Len(seq)] = x

PendingWaits ==
    state = "pending" =>
        \/ LastIs("request", cmds)
        \/ /\ cmds = <<>>
           /\ InSeq("granted", events) \/ InSeq("denied", events) \/ nif = "opening"

ReleasingWaits ==
    state = "releasing" =>
        /\ cmds = <<>> \/ LastIs("release", cmds)
        /\ \/ InSeq("released", events) \/ InSeq("denied", events)
           \/ cmds # <<>> /\ (nif # "closed" \/ InSeq("request", cmds))

WaitInv == PendingWaits /\ ReleasingWaits
=============================================================================
