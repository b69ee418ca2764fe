----------------------------- MODULE ModemCalls ------------------------------
(***************************************************************************)
(* What the MsgTask asks of the modem outside a fix session: the settings  *)
(* of loc_eng_reinit, the predicted orbits (XTRA) files, and the other     *)
(* blocking calls of LocApiV02.cpp.  Every call is made of requests that   *)
(* loc_sync_send_req sends one at a time; the MsgTask waits for the        *)
(* indication of the same name, and gives up after a second.  The modem    *)
(* may still answer then, and the answer ends the next request of that     *)
(* name.  The modem is external: it answers in the order it was asked and  *)
(* forgets everything when it restarts.                                    *)
(*                                                                         *)
(* The start is that of the framework: loc_eng_init has made the adapter   *)
(* and loc_eng_agps_init has run.  loc_eng_agps_reinit sends nothing: the  *)
(* servers it would send were cleared by loc_eng_init.  The slots of       *)
(* loc_sync_send_req are in SyncReq, the sessions in FixSession.           *)
(***************************************************************************)
EXTENDS Naturals, Sequences, FiniteSets

CONSTANTS
    Calls,         \* the calls that are made, of Call below
    Sizes,         \* sizes of the XTRA files
    PartLen,       \* QMI_LOC_MAX_PREDICTED_ORBITS_PART_LEN_V02
    LenMod,        \* 2^16: len_injected is a uint16_t
    GyroEtcValid,  \* one of the sensor properties is in sap.conf
    MaxPosts,      \* bound: calls and files of the framework
    MaxRefusals,   \* bound: requests turned down, and waits that end unanswered
    MaxCrashes     \* bound: restarts of the modem

-----------------------------------------------------------------------------
(* The requests.                                                           *)

Nothing == "nothing"

(* A request is known by the indication that answers it, and by what it is *)
(* about.                                                                  *)
Request(ind, about) == [ind |-> ind, about |-> about]

setSUPLVersion          == Request("SET_PROTOCOL_CONFIG_PARAMETERS", "SUPL version")
setLPPConfig            == Request("SET_PROTOCOL_CONFIG_PARAMETERS", "LPP")
setAGLONASSProtocol     == Request("SET_PROTOCOL_CONFIG_PARAMETERS", "A-GLONASS")
setSensorControlConfig  == Request("SET_SENSOR_CONTROL_CONFIG", "sensor control")
setSensorProperties     == Request("SET_SENSOR_PROPERTIES", "sensor properties")
setSensorPerfControlConfig ==
    Request("SET_SENSOR_PERFORMANCE_CONTROL_CONFIGURATION", "sensor performance")

setTime                 == Request("INJECT_UTC_TIME", "time")
injectPosition          == Request("INJECT_POSITION", "position")
deleteAidingData        == Request("DELETE_ASSIST_DATA", "aiding data")
informNiResponse        == Request("NI_USER_RESPONSE", "NI response")
setServerUrl            == Request("SET_SERVER", "server by name")
setServerIpv4           == Request("SET_SERVER", "server by address")
requestXtraServer       == Request("GET_PREDICTED_ORBITS_DATA_SOURCE", "XTRA servers")
atlOpenStatus           == Request("INFORM_LOCATION_SERVER_CONN_STATUS", "ATL open")
atlCloseStatus          == Request("INFORM_LOCATION_SERVER_CONN_STATUS", "ATL closed")
setExtPowerConfig       == Request("SET_EXTERNAL_POWER_CONFIG", "power")
getZppFix               == Request("GET_BEST_AVAILABLE_POSITION", "best position")
setGpsLock              == Request("SET_ENGINE_LOCK", "lock")
getGpsLock              == Request("GET_ENGINE_LOCK", "current lock")

(* Calls that look at their arguments first and may send nothing.          *)
Checking == {informNiResponse, setServerUrl, atlOpenStatus, setExtPowerConfig}

(* Calls that fail when the answer lacks what they asked for.              *)
Asking == {requestXtraServer, getZppFix, getGpsLock}

Call ==
    Checking \cup Asking
      \cup {setTime, injectPosition, deleteAidingData, setServerIpv4, atlCloseStatus, setGpsLock}

XtraPart == Request("INJECT_PREDICTED_ORBITS_DATA", "XTRA part")

(* Requests whose indication is not set to anything before it is asked     *)
(* for; that of setTime is set to a failure, the others to zero.           *)
Unfilled == {injectPosition, setServerUrl, setServerIpv4, requestXtraServer, XtraPart}

(* Mutant: the configuration of the positioning protocol is left out.      *)
ReinitNoLpp ==
    <<setSUPLVersion, setSensorControlConfig, setAGLONASSProtocol>>
      \o (IF GyroEtcValid THEN <<setSensorProperties>> ELSE <<>>)
      \o <<setSensorPerfControlConfig>>

(* The settings that loc_eng_reinit sends, in its order.  enableData does  *)
(* nothing in LocApiV02.                                                   *)
Reinit ==
    <<setSUPLVersion, setLPPConfig, setSensorControlConfig, setAGLONASSProtocol>>
      \o (IF GyroEtcValid THEN <<setSensorProperties>> ELSE <<>>)
      \o <<setSensorPerfControlConfig>>

(* The settings among them, whatever their order.                          *)
Settings ==
    {setSUPLVersion, setLPPConfig, setSensorControlConfig, setAGLONASSProtocol,
     setSensorPerfControlConfig} \cup (IF GyroEtcValid THEN {setSensorProperties} ELSE {})

ASSUME CallsAssumption ==
    /\ Calls \subseteq Call
    /\ Sizes \subseteq Nat /\ PartLen \in Nat \ {0} /\ LenMod \in Nat \ {0}
    /\ GyroEtcValid \in BOOLEAN
    /\ MaxPosts \in Nat /\ MaxRefusals \in Nat /\ MaxCrashes \in Nat

(* The parts of a file; an empty file has one.                             *)
TotalParts(size) == IF size = 0 THEN 1 ELSE (size - 1) \div PartLen + 1

NoChunk == [part |-> 1, from |-> 0, len |-> 0]

(* Part number part of a file of this size, when len_injected bytes are    *)
(* believed to be injected.                                                *)
Chunk(size, part, injected) ==
    [part |-> part, from |-> injected,
     len |-> IF size >= injected /\ PartLen > size - injected THEN size - injected ELSE PartLen]

-----------------------------------------------------------------------------
VARIABLES
    msgs,      \* the queue of the MsgTask
    task,      \* the call it is in, see Task
    linked,    \* the client is open, to the modem that runs now
    up,        \* the modem runs
    conf,      \* what it was told since it started
    asked,     \* the requests it took and has not answered, oldest first
    lost,      \* a modem was lost, and errorCb has not been called yet
    cb,        \* messages the QMI callback thread is about to post
    failed,    \* history: a setting failed since the client was opened
    count      \* [posts, refusals, crashes] so far

modem == <<up, conf, asked>>
error == <<lost, cb>>
vars  == <<msgs, task, linked, modem, error, failed, count>>

Control(type) == [type |-> type]
CallMsg(r)    == [type |-> "call", req |-> r]
XtraMsg(n)    == [type |-> "xtra", size |-> n]

CallMsgs == {CallMsg(r) : r \in Calls \cup Settings}
Msg ==
    {Control(type) : type \in {"open", "init", "ssr", "up"}}
      \cup CallMsgs \cup {XtraMsg(n) : n \in Sizes}

Chunks ==
    {NoChunk} \cup
    UNION {{Chunk(n, p, i) : p \in 1 .. TotalParts(n), i \in 0 .. LenMod - 1} : n \in Sizes}

(* A call: its message, the part it has come to, len_injected; and as      *)
(* history: what the modem took of it, how many earlier requests of its    *)
(* name were unanswered when it began, and whether one of its requests     *)
(* ended without an answer or was turned down while nobody waited.         *)
Task ==
    [pc : {"idle"}] \cup
    [pc : {"sending", "waiting", "returned"}, msg : Msg, part : Nat \ {0},
     injected : 0 .. LenMod - 1, result : {"none", "success", "failure"},
     took : SUBSET Chunks, late : Nat, astray : BOOLEAN]

Asked ==
    [req : Calls \cup Settings \cup {XtraPart}, chunk : Chunks, own : BOOLEAN]

TypeOK ==
    /\ msgs \in Seq(Msg)
    /\ task \in Task
    /\ linked \in BOOLEAN /\ up \in BOOLEAN /\ lost \in BOOLEAN /\ failed \in BOOLEAN
    /\ conf \in SUBSET (Calls \cup Settings \cup {XtraPart})
    /\ asked \in Seq(Asked)
    /\ cb \in Seq(Msg)
    /\ count \in [posts : 0 .. MaxPosts, refusals : 0 .. MaxRefusals, crashes : 0 .. MaxCrashes]

Idle == [pc |-> "idle"]

(* The adapter has asked for the client, loc_eng_init for its settings.    *)
Init ==
    /\ msgs = <<Control("open"), Control("init")>>
    /\ task = Idle
    /\ linked = FALSE /\ up = TRUE
    /\ conf = {} /\ asked = <<>>
    /\ lost = FALSE /\ cb = <<>>
    /\ failed = FALSE
    /\ count = [posts |-> 0, refusals |-> 0, crashes |-> 0]

-----------------------------------------------------------------------------
(* The framework, and the messages that make calls.                        *)

Post ==
    /\ count.posts < MaxPosts
    /\ count' = [count EXCEPT !.posts = @ + 1]
    /\ \/ \E r \in Calls : msgs' = Append(msgs, CallMsg(r))
       \/ \E n \in Sizes : msgs' = Append(msgs, XtraMsg(n))
    /\ UNCHANGED <<task, linked, modem, error, failed>>

Takes(types) ==
    /\ task = Idle
    /\ msgs # <<>> /\ Head(msgs).type \in types

SettingMsgs == [i \in DOMAIN Reinit |-> CallMsg(Reinit[i])]

(* LocEngInit::proc.                                                       *)
LocEngInit ==
    /\ Takes({"init"})
    /\ msgs' = Tail(msgs) \o SettingMsgs
    /\ UNCHANGED <<task, linked, modem, error, failed, count>>

(* Mutant: a restart does not configure the modem.                         *)
LocEngUpNoReinit ==
    /\ Takes({"up"})
    /\ msgs' = Tail(msgs)
    /\ UNCHANGED <<task, linked, modem, error, failed, count>>

(* loc_eng_handle_engine_up: the settings are sent again.                  *)
LocEngUp ==
    /\ Takes({"up"})
    /\ msgs' = Tail(msgs) \o SettingMsgs
    /\ UNCHANGED <<task, linked, modem, error, failed, count>>

(* LocOpenMsg and LocSsrMsg: the client is closed, with all answers that   *)
(* were on their way to it, and opened, if there is a modem.               *)
Open ==
    /\ Takes({"open", "ssr"})
    /\ msgs' = Tail(msgs)
    /\ linked' = up
    /\ failed' = FALSE
    /\ asked' = <<>>
    /\ UNCHANGED <<task, up, conf, error, count>>

-----------------------------------------------------------------------------
(* The call under way.                                                     *)

IsXtra(msg) == msg.type = "xtra"
Req == IF IsXtra(task.msg) THEN XtraPart ELSE task.msg.req

Parts(msg) == IF IsXtra(msg) THEN TotalParts(msg.size) ELSE 1

ThisChunk == IF IsXtra(task.msg) THEN Chunk(task.msg.size, task.part, task.injected) ELSE NoChunk

Late(ind) == Cardinality({i \in DOMAIN asked : asked[i].req.ind = ind})

(* The call begins; one that checks its arguments may end at once.         *)
Begin ==
    /\ Takes({"call", "xtra"})
    /\ msgs' = Tail(msgs)
    /\ LET msg   == Head(msgs)
           ind   == IF IsXtra(msg) THEN XtraPart.ind ELSE msg.req.ind
           start == [pc |-> "sending", msg |-> msg, part |-> 1, injected |-> 0,
                     result |-> "none", took |-> {}, late |-> Late(ind), astray |-> FALSE]
       IN \/ task' = start
          \/ /\ msg.type = "call" /\ msg.req \in Checking
             /\ task' = [start EXCEPT !.pc = "returned", !.result = "failure"]
    /\ UNCHANGED <<linked, modem, error, failed, count>>

(* What loc_sync_send_req gets through locClientSendReq.                   *)
Sent == Append(asked, [req |-> Req, chunk |-> ThisChunk, own |-> TRUE])

Send ==
    /\ task.pc = "sending"
    /\ linked
    /\ asked' = Sent
    /\ task' = [task EXCEPT !.pc = "waiting"]
    /\ UNCHANGED <<msgs, linked, up, conf, error, failed, count>>

Returns(result) == [task EXCEPT !.pc = "returned", !.result = result]

Refused == count.refusals < MaxRefusals /\ count' = [count EXCEPT !.refusals = @ + 1]

(* It fails without a modem; with one the request is turned down, or its   *)
(* acknowledgement is late and the modem has it after all.                 *)
SendFails ==
    /\ task.pc = "sending"
    /\ \/ ~linked /\ UNCHANGED <<asked, count>>
       \/ linked /\ Refused /\ asked' \in {asked, Sent}
    /\ task' = Returns("failure")
    /\ UNCHANGED <<msgs, linked, up, conf, error, failed>>

(* The answer did not come within LOC_ENGINE_SYNC_REQUEST_TIMEOUT.         *)
TimedOut ==
    /\ task.pc = "waiting"
    /\ task' = Returns("failure")
    /\ UNCHANGED <<msgs, linked, modem, error, failed, count>>

(* The request of the call was granted: the next part, or the end.         *)
Granted(t) ==
    IF t.part < Parts(t.msg)
      THEN [t EXCEPT !.pc = "sending", !.part = @ + 1,
                     !.injected = (@ + ThisChunk.len) % LenMod]
      ELSE [t EXCEPT !.pc = "returned", !.result = "success"]

Denied(t) == [t EXCEPT !.pc = "returned", !.result = "failure"]

(* What a call makes of an indication nobody filled in: zeros read as a    *)
(* success without what was asked for, the failure setTime puts there as   *)
(* one, what the stack holds as anything, or as the answer to the part     *)
(* before.                                                                 *)
OddOutcomes ==
    IF Req \in Unfilled
      THEN IF task.part = 1 THEN BOOLEAN ELSE {FALSE}
      ELSE {Req \notin Asking \cup {setTime}}

(* The wait ends without an answer.                                        *)
WokenOddly ==
    /\ task.pc = "waiting"
    /\ Refused
    /\ LET t == [task EXCEPT !.astray = TRUE]
       IN \E ok \in OddOutcomes : task' = IF ok THEN Granted(t) ELSE Denied(t)
    /\ UNCHANGED <<msgs, linked, modem, error, failed>>

(* The call returns to the message, whose proc drops what it returned.     *)
Return ==
    /\ task.pc = "returned"
    /\ task' = Idle
    /\ asked' = [i \in DOMAIN asked |-> [asked[i] EXCEPT !.own = FALSE]]
    /\ failed' = (failed \/ (~IsXtra(task.msg) /\ Req \in Settings
                               /\ (task.result = "failure" \/ task.astray)))
    /\ UNCHANGED <<msgs, linked, up, conf, error, count>>

-----------------------------------------------------------------------------
(* The answers.                                                            *)

(* Mutant: the number of the part that was answered is not looked at.      *)
AcceptedAnyPart(a) ==
    IF Req \in Asking THEN BOOLEAN ELSE {TRUE}

(* Whether an answer of success is one for the call that waits: for a part *)
(* of a file if it names that part, for a question if it has the answer.   *)
Accepted(a) ==
    IF IsXtra(task.msg) THEN {a.chunk.part = task.part}
    ELSE IF Req \in Asking THEN BOOLEAN ELSE {TRUE}

(* The modem grants the oldest request or not, and answers; the answer     *)
(* ends the request that waits for this name, or is dropped.               *)
Answer ==
    /\ asked # <<>> /\ up
    /\ asked' = Tail(asked)
    /\ LET a    == Head(asked)
           mine == task # Idle /\ a.own
           told == IF mine THEN [task EXCEPT !.took = @ \cup {a.chunk}] ELSE task
           here == task.pc = "waiting" /\ Req.ind = a.req.ind
       IN \/ /\ conf' = conf \cup {a.req}
             /\ IF here THEN \E ok \in Accepted(a) : task' = IF ok THEN Granted(told) ELSE Denied(told)
                        ELSE task' = told
             /\ UNCHANGED count
          \/ /\ Refused
             /\ task' = IF here THEN Denied(task)
                        ELSE IF mine THEN [task EXCEPT !.astray = TRUE] ELSE task
             /\ UNCHANGED conf
    /\ UNCHANGED <<msgs, linked, up, error, failed>>

-----------------------------------------------------------------------------
(* The loss of the modem.                                                  *)

Crash ==
    /\ up /\ count.crashes < MaxCrashes
    /\ count' = [count EXCEPT !.crashes = @ + 1]
    /\ up' = FALSE
    /\ conf' = {} /\ asked' = <<>>
    /\ task' = IF task.pc \in {"sending", "waiting"} THEN [task EXCEPT !.took = {}] ELSE task
    /\ lost' = (lost \/ linked)
    /\ linked' = FALSE
    /\ UNCHANGED <<msgs, cb, failed>>

Recover ==
    /\ ~up
    /\ up' = TRUE
    /\ UNCHANGED <<msgs, task, linked, conf, asked, error, failed, count>>

(* LocApiV02::errorCb: LocApiBase posts the reopening, each adapter its    *)
(* LocEngUp.  (LocEngDown touches no state of this module.)                *)
ErrorCb ==
    /\ lost /\ cb = <<>>
    /\ lost' = FALSE
    /\ cb' = <<Control("ssr"), Control("up")>>
    /\ UNCHANGED <<msgs, task, linked, modem, failed, count>>

PostCb ==
    /\ cb # <<>>
    /\ msgs' = Append(msgs, Head(cb))
    /\ cb' = Tail(cb)
    /\ UNCHANGED <<task, linked, modem, lost, failed, count>>

-----------------------------------------------------------------------------
MsgTask ==
    \/ LocEngInit \/ LocEngUp \/ Open
    \/ Begin \/ Send \/ SendFails \/ TimedOut \/ WokenOddly \/ Return

Next == Post \/ MsgTask \/ Answer \/ Crash \/ Recover \/ ErrorCb \/ PostCb

Spec == Init /\ [][Next]_vars

(* The two threads go on; nothing is asked of the framework or the modem.  *)
FairSpec == Spec /\ WF_vars(MsgTask) /\ WF_vars(ErrorCb \/ PostCb)

-----------------------------------------------------------------------------
(* Properties.                                                             *)

(* The chunks of a file as they should be.                                 *)
Whole(msg) ==
    IF IsXtra(msg)
      THEN {[part |-> p, from |-> (p - 1) * PartLen,
             len |-> IF p = TotalParts(msg.size) THEN msg.size - (p - 1) * PartLen ELSE PartLen]
               : p \in 1 .. TotalParts(msg.size)}
      ELSE {NoChunk}

(* A file that setXtraData reports as injected is in the modem: one modem  *)
(* took every part of it, once and with its own bytes; so with the request *)
(* of every other call.  It does not hold when as many answers to earlier  *)
(* requests of the name were due as the call makes itself (one, for most), *)
(* after a wake-up without an answer or a refusal that nobody waited for   *)
(* any more, and for files beyond 64 KB, for which len_injected wraps      *)
(* around (LocApiV02.cpp:1061).                                            *)
SuccessIsEarned ==
    task.pc = "returned" /\ task.result = "success" /\ ~task.astray
      /\ task.late < (IF IsXtra(task.msg) THEN TotalParts(task.msg.size) ELSE 1)
      /\ (IsXtra(task.msg) => task.msg.size <= LenMod)
        => task.took = Whole(task.msg)

Settled == msgs = <<>> /\ task = Idle /\ cb = <<>> /\ ~lost

(* With nothing left to do, a modem that runs has every setting, however   *)
(* often and wherever in the sending of them it restarted, unless one of   *)
(* the requests failed since the client was last opened: nobody sends it   *)
(* again.                                                                  *)
ConfigRestored == Settled /\ linked /\ ~failed => Settings \subseteq conf

Restarting ==
    \/ lost
    \/ \E i \in DOMAIN cb : cb[i].type = "ssr"
    \/ \E i \in DOMAIN msgs : msgs[i].type = "ssr"

(* A modem that was lost is given all its settings when it is back, unless *)
(* it was not there when the client was opened again or a request fails.   *)
RestartConfigures ==
    Restarting ~> (~Restarting /\ (~linked \/ failed \/ Settings \subseteq conf))
=============================================================================
