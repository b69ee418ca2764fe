----------------------------- MODULE NiSession -----------------------------
(***************************************************************************)
(* Network-initiated requests (loc_eng_ni.cpp).  Three kinds of thread     *)
(* share loc_eng_ni_data_s_type: the MsgTask, which runs                   *)
(* loc_eng_ni_request_handler and loc_eng_ni_reset_on_engine_restart; one  *)
(* ni_thread_proc for every accepted request; and the framework's threads, *)
(* which call loc_eng_ni_respond.  tLock guards respRecvd and resp;        *)
(* rawRequest, reqID and respTimeLeft are also used without it, so every   *)
(* unlocked use of them that another thread can come between is a step.    *)
(***************************************************************************)
EXTENDS Naturals, FiniteSets

CONSTANTS
    UserAnswer,      \* the responses the framework may give
    MaxRequests,     \* bound: requests the modem makes
    EngineRestarts   \* the modem may restart

ASSUME BoundAssumption ==
    /\ MaxRequests \in Nat
    /\ EngineRestarts \in BOOLEAN
    /\ UserAnswer \subseteq {"accept", "deny", "noresp", "ignore"}

Request  == 1 .. MaxRequests
NULL     == 0
Response == {"accept", "deny", "noresp", "ignore"}

VARIABLES
    arrived,      \* requests that reached the handler so far
    task,         \* where the MsgTask is in one of the two functions
    rawRequest,   \* the request in session
    reqID,
    respRecvd,
    resp,
    timeLeft,     \* respTimeLeft # 0
    thread,       \* where the ni_thread_proc of each request is
    msg,          \* the LocEngInformNiResponse each of them built
    shown,        \* the notification_id each request was displayed with
    given,        \* what the user answered to each request
    calls,        \* calls of loc_eng_ni_respond that passed the check
    freed,        \* requests whose memory was given back
    restarted     \* the modem restarted with a request in session

session == <<rawRequest, reqID, respRecvd, resp, timeLeft>>
user    == <<shown, given, calls>>
vars    == <<arrived, task, session, thread, msg, user, freed, restarted>>

NoMsg == [req |-> NULL, answer |-> "none"]
Unseen == MaxRequests + 1

TypeOK ==
    /\ arrived \in 0 .. MaxRequests
    /\ task \in {"idle", "saved", "numbered", "restarting", "freed", "cleared"}
    /\ rawRequest \in Request \cup {NULL}
    /\ reqID \in Nat
    /\ respRecvd \in BOOLEAN
    /\ resp \in Response \cup {"none"}
    /\ timeLeft \in BOOLEAN
    /\ thread \in [Request -> {"none", "start", "waiting", "unlocked", "rested", "sending", "done"}]
    /\ msg \in [Request -> [req : Request \cup {NULL}, answer : Response \cup {"none"}]]
    /\ shown \in [Request -> Nat]
    /\ given \in [Request -> Response \cup {"none"}]
    /\ calls \in SUBSET Request
    /\ freed \in SUBSET Request
    /\ restarted \in BOOLEAN

Init ==
    /\ arrived = 0
    /\ task = "idle"
    /\ rawRequest = NULL /\ reqID = 0
    /\ respRecvd = FALSE /\ resp = "none"
    /\ timeLeft = FALSE
    /\ thread = [r \in Request |-> "none"]
    /\ msg = [r \in Request |-> NoMsg]
    /\ shown = [r \in Request |-> Unseen]
    /\ given = [r \in Request |-> "none"]
    /\ calls = {}
    /\ freed = {}
    /\ restarted = FALSE

-----------------------------------------------------------------------------
(* loc_eng_ni_request_handler.                                             *)

(* A request that comes while another one is in session is dropped.        *)
RequestBusy ==
    /\ task = "idle" /\ arrived < MaxRequests
    /\ rawRequest # NULL
    /\ arrived' = arrived + 1
    /\ freed' = freed \cup {arrived'}
    /\ UNCHANGED <<task, session, thread, msg, user, restarted>>

RequestSaved ==
    /\ task = "idle" /\ arrived < MaxRequests
    /\ rawRequest = NULL
    /\ arrived' = arrived + 1
    /\ rawRequest' = arrived'
    /\ task' = "saved"
    /\ UNCHANGED <<reqID, respRecvd, resp, timeLeft, thread, msg, user, freed, restarted>>

RequestNumbered ==
    /\ task = "saved" /\ task' = "numbered"
    /\ shown' = [shown EXCEPT ![arrived] = reqID]
    /\ UNCHANGED <<arrived, session, thread, msg, given, calls, freed, restarted>>

(* Mutant: no thread is spawned.                                           *)
RequestShownOnly ==
    /\ task = "numbered" /\ task' = "idle"
    /\ timeLeft' = TRUE
    /\ UNCHANGED <<arrived, rawRequest, reqID, respRecvd, resp, thread, msg, user, freed, restarted>>

(* The rest of the handler: the thread is spawned and the user notified.   *)
RequestShown ==
    /\ task = "numbered" /\ task' = "idle"
    /\ timeLeft' = TRUE
    /\ thread' = [thread EXCEPT ![arrived] = "start"]
    /\ UNCHANGED <<arrived, rawRequest, reqID, respRecvd, resp, msg, user, freed, restarted>>

-----------------------------------------------------------------------------
(* ni_thread_proc.                                                         *)

Goes(r, from, to) == thread[r] = from /\ thread' = [thread EXCEPT ![r] = to]

(* It takes the lock, reads respTimeLeft, and waits for an answer.         *)
ThreadStart(r) ==
    /\ ~respRecvd
    /\ Goes(r, "start", "waiting")
    /\ UNCHANGED <<arrived, task, session, msg, user, freed, restarted>>

(* Mutant: the request stays in session after its message is built.        *)
FinishKeepsRequest(r, answer) ==
    /\ respRecvd' = FALSE
    /\ resp' = answer
    /\ msg' = IF rawRequest # NULL /\ answer # "ignore"
                THEN [msg EXCEPT ![r] = [req |-> rawRequest, answer |-> answer]]
                ELSE msg
    /\ UNCHANGED <<arrived, task, rawRequest, reqID, timeLeft, user, freed, restarted>>

(* What it does with the lock held once it stopped waiting.                *)
Finish(r, answer) ==
    /\ respRecvd' = FALSE
    /\ resp' = answer
    /\ msg' = IF rawRequest # NULL /\ answer # "ignore"
                THEN [msg EXCEPT ![r] = [req |-> rawRequest, answer |-> answer]]
                ELSE msg
    /\ rawRequest' = NULL
    /\ UNCHANGED <<arrived, task, reqID, timeLeft, user, freed, restarted>>

(* Mutant: the flag is not reset.                                          *)
ThreadAnsweredKeepsFlag(r) ==
    /\ respRecvd
    /\ Goes(r, "start", "unlocked") \/ Goes(r, "waiting", "unlocked")
    /\ msg' = IF rawRequest # NULL /\ resp # "ignore"
                THEN [msg EXCEPT ![r] = [req |-> rawRequest, answer |-> resp]]
                ELSE msg
    /\ rawRequest' = NULL
    /\ UNCHANGED <<arrived, task, reqID, respRecvd, resp, timeLeft, user, freed, restarted>>

(* With an answer there it waits no longer, or not at all.                 *)
ThreadAnswered(r) ==
    /\ respRecvd
    /\ Goes(r, "start", "unlocked") \/ Goes(r, "waiting", "unlocked")
    /\ Finish(r, resp)

(* pthread_cond_timedwait timed out; an answer that came with the timeout  *)
(* is overwritten.                                                         *)
ThreadTimedOut(r) ==
    /\ Goes(r, "waiting", "unlocked")
    /\ Finish(r, "noresp")

(* After the unlock.                                                       *)
ThreadRests(r) ==
    /\ Goes(r, "unlocked", "rested")
    /\ timeLeft' = FALSE
    /\ UNCHANGED <<arrived, task, rawRequest, reqID, respRecvd, resp, msg, user, freed, restarted>>

ThreadCounts(r) ==
    /\ Goes(r, "rested", "sending")
    /\ reqID' = reqID + 1
    /\ UNCHANGED <<arrived, task, rawRequest, respRecvd, resp, timeLeft, msg, user, freed, restarted>>

(* The message is sent, answered to the modem by the MsgTask, and deleted  *)
(* with the request in it.                                                 *)
ThreadSends(r) ==
    /\ Goes(r, "sending", "done")
    /\ freed' = freed \cup ({msg[r].req} \ {NULL})
    /\ UNCHANGED <<arrived, task, session, msg, user, restarted>>

-----------------------------------------------------------------------------
(* loc_eng_ni_respond.                                                     *)

(* The user answers a request displayed to him, and the check of the id is *)
(* made without the lock; an answer that does not pass it is dropped.      *)
RespondChecked(r, answer) ==
    /\ thread[r] # "none" /\ given[r] = "none"
    /\ given' = [given EXCEPT ![r] = answer]
    /\ calls' = IF shown[r] = reqID /\ rawRequest # NULL THEN calls \cup {r} ELSE calls
    /\ UNCHANGED <<arrived, task, session, thread, msg, shown, freed, restarted>>

RespondStored(r) ==
    /\ r \in calls /\ calls' = calls \ {r}
    /\ resp' = given[r]
    /\ respRecvd' = TRUE
    /\ UNCHANGED <<arrived, task, rawRequest, reqID, timeLeft, thread, msg, shown, given, freed, restarted>>

-----------------------------------------------------------------------------
(* loc_eng_ni_reset_on_engine_restart.                                     *)

RestartChecks ==
    /\ EngineRestarts
    /\ task = "idle" /\ rawRequest # NULL
    /\ task' = "restarting" /\ restarted' = TRUE
    /\ UNCHANGED <<arrived, session, thread, msg, user, freed>>

RestartFrees ==
    /\ task = "restarting" /\ task' = "freed"
    /\ freed' = freed \cup ({rawRequest} \ {NULL})
    /\ UNCHANGED <<arrived, session, thread, msg, user, restarted>>

RestartClears ==
    /\ task = "freed" /\ task' = "cleared"
    /\ rawRequest' = NULL
    /\ UNCHANGED <<arrived, reqID, respRecvd, resp, timeLeft, thread, msg, user, freed, restarted>>

RestartWakes ==
    /\ task = "cleared" /\ task' = "idle"
    /\ respRecvd' = TRUE
    /\ UNCHANGED <<arrived, rawRequest, reqID, resp, timeLeft, thread, msg, user, freed, restarted>>

-----------------------------------------------------------------------------
MsgTask ==
    \/ RequestBusy \/ RequestSaved \/ RequestNumbered \/ RequestShown
    \/ RestartChecks \/ RestartFrees \/ RestartClears \/ RestartWakes

NiThread(r) ==
    \/ ThreadStart(r) \/ ThreadAnswered(r) \/ ThreadTimedOut(r)
    \/ ThreadRests(r) \/ ThreadCounts(r) \/ ThreadSends(r)

Next ==
    \/ MsgTask
    \/ \E r \in Request :
          \/ NiThread(r)
          \/ RespondStored(r)
          \/ \E answer \in UserAnswer : RespondChecked(r, answer)

(* Every thread goes on: a wait ends by its timeout at the latest.         *)
Fairness ==
    /\ WF_vars(RequestNumbered \/ RequestShown \/ RestartFrees \/ RestartClears \/ RestartWakes)
    /\ \A r \in Request : WF_vars(NiThread(r)) /\ WF_vars(RespondStored(r))

Spec     == Init /\ [][Next]_vars
FairSpec == Spec /\ Fairness
-----------------------------------------------------------------------------
(* Properties.                                                             *)

Live(r) == thread[r] \in {"start", "waiting"}

(* A request in session always has a thread that will still end it, also   *)
(* when threads of earlier requests or a restart got in between; otherwise *)
(* the handler would be busy for ever and drop every later request.        *)
SessionHasThread ==
    rawRequest # NULL => (task \in {"saved", "numbered"} /\ rawRequest = arrived) \/ Live(rawRequest)

(* However the sessions overlap, no request is answered twice.             *)
AnsweredOnce ==
    \A r, s \in Request : msg[r].req = msg[s].req /\ msg[r].req # NULL => r = s

(* The memory of a request has one owner: once it is freed, no thread will *)
(* take it from rawRequest and no message that is still to be sent holds   *)
(* it.  Without restarts of the modem.                                     *)
OneOwner == ~restarted =>
    /\ rawRequest \notin freed
    /\ \A r \in Request : thread[r] # "done" => msg[r].req \notin freed
    /\ \A r \in Request : rawRequest # NULL => msg[r].req # rawRequest

(* Why: the request in session is fresh, in no message yet, and its memory *)
(* is not given back; and a thread exists only for a request that arrived. *)
SessionInv ==
    /\ task \in {"saved", "numbered"} => arrived >= 1 /\ thread[arrived] = "none"
    /\ rawRequest <= arrived
    /\ \A r \in Request :
          /\ thread[r] # "none" => r <= arrived
          /\ thread[r] \in {"none", "start", "waiting"} => msg[r].req = NULL
          /\ msg[r].req <= arrived
          /\ rawRequest # NULL => msg[r].req # rawRequest
    /\ SessionHasThread
    /\ AnsweredOnce

(* The same of the memory, while the modem did not restart.                *)
OwnersFit ==
    /\ task \in {"idle", "saved", "numbered"}
    /\ NULL \notin freed /\ rawRequest \notin freed
    /\ \A q \in freed : q <= arrived
    /\ \A r \in Request : msg[r].req \in freed => thread[r] = "done"

OwnerInv == ~restarted => OwnersFit

(* One answer of the user decides at most one request.  Without restarts.  *)
Answers(answer)  == {r \in Request : msg[r].answer = answer}
Givers(answer)   == {r \in Request : given[r] = answer}

AnswerUsedOnce == ~restarted =>
    \A answer \in {"accept", "deny"} :
        Cardinality(Answers(answer)) <= Cardinality(Givers(answer))

(* Every session ends.                                                     *)
SessionEnds == \A r \in Request : rawRequest = r ~> rawRequest # r

=============================================================================
