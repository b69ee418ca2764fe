----------------------------- MODULE FixSession -----------------------------
(***************************************************************************)
(* The fix session of the location engine (loc_eng.cpp, LocEngAdapter,     *)
(* LocApiV02).  The framework starts and stops navigation, sets the        *)
(* position mode and deletes aiding data; every request is a message to    *)
(* the one thread that does the work.  The QMI callback thread turns       *)
(* indications and the loss of the modem into messages to the same thread. *)
(* The modem is external: it runs at most one session for the client and   *)
(* forgets it, with the registration of events, when it restarts.          *)
(***************************************************************************)
EXTENDS Naturals, Sequences

CONSTANTS
    Mode,            \* position modes
    AidingData,      \* the kinds of aiding data
    MaxCmds,         \* bound: requests of the framework
    MaxMsgs,         \* bound: messages in the queue when it makes another one
    MaxEvents,       \* bound: events of the modem
    MaxCrashes       \* bound: restarts of the modem

ASSUME BoundsAssumption ==
    /\ MaxCmds \in Nat /\ MaxEvents \in Nat /\ MaxCrashes \in Nat
    /\ MaxMsgs \in Nat
    /\ "standalone" \in Mode

Recurrence == {"periodic", "single"}

VARIABLES
    fix,           \* the session as adapter, LocApiV02 and modem see it, see FixType
    mEngineOn,     \* of LocApiV02
    engine_status, mute_session_state, aiding_data_for_deletion,
    told,          \* the session status the framework was last told
    linked,        \* the client is open, to the modem that runs now
    modem,         \* [up, engine] : whether the modem runs, and its GPS engine
    lost,          \* a modem was lost, and errorCb has not been called yet
    cb,            \* messages the QMI callback thread is about to post
    msgs,          \* the queue of the MsgTask
    count          \* [cmds, events, crashes] so far

engine == <<mEngineOn, engine_status, mute_session_state, aiding_data_for_deletion>>
outside == <<modem, lost, cb, count>>
vars == <<fix, engine, told, linked, outside, msgs>>

(* fix.navigating, mode and recurrence belong to the adapter (mNavigating, *)
(* mFixCriteria), inSession to LocApiV02; registered (the reports of a     *)
(* session are wanted), tracking and operation belong to the modem; kept:  *)
(* the client's own copy of the mask has those reports, and lets them      *)
(* through.  failed and missed are history: the start or stop, and the     *)
(* registration, that did not succeed though the modem runs, if the last   *)
(* one of them did not.                                                    *)
FixType ==
    [navigating : BOOLEAN, mode : Mode \cup {"invalid"}, recurrence : Recurrence,
     inSession : BOOLEAN, registered : BOOLEAN, kept : BOOLEAN,
     tracking : Recurrence \cup {"none"}, operation : Mode,
     failed : {"none", "start", "stop"}, missed : BOOLEAN]

Status == {"session_begin", "session_end", "engine_on", "engine_off"}

Msg(type) == [type |-> type]

MsgType ==
    [type : {"start", "stop", "mute", "down", "ssr", "up"}]
      \cup [type : {"mode"}, mode : Mode, recurrence : Recurrence]
      \cup [type : {"delete"}, data : SUBSET AidingData]
      \cup [type : {"engine"}, on : BOOLEAN]
      \cup [type : {"status"}, status : Status]
      \cup [type : {"position"}, final : BOOLEAN]

TypeOK ==
    /\ fix \in FixType
    /\ mEngineOn \in BOOLEAN
    /\ engine_status \in {"none", "engine_on", "engine_off"}
    /\ mute_session_state \in {"none", "wait", "in_session"}
    /\ aiding_data_for_deletion \in SUBSET AidingData
    /\ told \in {"none", "session_begin", "session_end"}
    /\ linked \in BOOLEAN
    /\ modem \in [up : BOOLEAN, engine : BOOLEAN]
    /\ lost \in BOOLEAN
    /\ cb \in Seq(MsgType)
    /\ msgs \in Seq(MsgType)
    /\ count \in [cmds : 0 .. MaxCmds, events : 0 .. MaxEvents, crashes : 0 .. MaxCrashes]

(* loc_eng_init has run, and the adapter's LocOpenMsg.                     *)
Init ==
    /\ fix = [navigating |-> FALSE, mode |-> "invalid", recurrence |-> "periodic",
              inSession |-> FALSE, registered |-> FALSE, kept |-> FALSE,
              tracking |-> "none", operation |-> "standalone",
              failed |-> "none", missed |-> FALSE]
    /\ mEngineOn = FALSE
    /\ engine_status = "none" /\ mute_session_state = "none"
    /\ aiding_data_for_deletion = {}
    /\ told = "none"
    /\ linked = TRUE
    /\ modem = [up |-> TRUE, engine |-> FALSE]
    /\ lost = FALSE
    /\ cb = <<>> /\ msgs = <<>>
    /\ count = [cmds |-> 0, events |-> 0, crashes |-> 0]

-----------------------------------------------------------------------------
(* What the handlers are made of: functions of fix.                        *)

(* What becomes of a request (locClientSendReq): it is taken by the modem  *)
(* and succeeds; it is taken, but the acknowledgement is late and the      *)
(* sender told of a failure; or it is turned down or never arrives, the    *)
(* one outcome without a modem.                                            *)
Replies == IF linked THEN {"done", "late", "lost"} ELSE {"lost"}

(* What becomes of the two requests of a start: the mode is lost; it is    *)
(* taken, and not the start; both are taken, the start with a late         *)
(* acknowledgement; the start succeeds.                                    *)
Starts == IF linked THEN {"done", "late", "mode", "lost"} ELSE {"lost"}

(* LocApiV02::registerEventMask: without a session the reports of one are  *)
(* taken out of the mask.  The client's copy changes on success only.      *)
RegisterEventMask(f, r) ==
    [f EXCEPT !.registered = IF r = "lost" THEN @ ELSE f.inSession,
              !.kept = IF r = "done" THEN f.inSession ELSE @,
              !.missed = linked /\ r # "done"]

(* The mode asked of the modem; without one it is standalone.              *)
OperationMode(mode) == IF mode = "invalid" THEN "standalone" ELSE mode

(* LocApiV02::startFix.  It goes on whatever became of the registration.   *)
StartFix(f, reg, start) ==
    [RegisterEventMask([f EXCEPT !.inSession = TRUE], reg) EXCEPT
        !.operation = IF start = "lost" THEN @ ELSE OperationMode(f.mode),
        !.tracking = IF start \in {"done", "late"} THEN f.recurrence ELSE @,
        !.failed = IF linked /\ start # "done" THEN "start" ELSE "none"]

(* LocApiV02::stopFix: the session is over whatever became of the request; *)
(* "if engine on never happend, deregister events without waiting for      *)
(* Engine Off".                                                            *)
StopFix(f, stop, reg) ==
    LET g == [f EXCEPT !.inSession = FALSE,
                       !.tracking = IF stop = "lost" THEN @ ELSE "none",
                       !.failed = IF linked /\ stop # "done" THEN "stop" ELSE "none"]
    IN IF mEngineOn THEN g ELSE RegisterEventMask(g, reg)

(* LocEngAdapter::setInSession; LocApiV02 does not implement its own.      *)
SetInSession(f, inSession) ==
    [f EXCEPT !.navigating = inSession, !.mode = IF inSession THEN f.mode ELSE "invalid"]

(* loc_eng_start_handler.                                                  *)
Started(f, reg, start) ==
    IF f.navigating THEN f
    ELSE IF start = "done" THEN SetInSession(StartFix(f, reg, start), TRUE)
    ELSE StartFix(f, reg, start)

(* What loc_eng_report_status makes of mute_session_state, and whether the *)
(* framework is told: not of the end of a session while it navigates.      *)
Muted(status) ==
    LET waited == IF status \in {"session_begin", "engine_on"} /\ mute_session_state = "wait"
                    THEN "in_session" ELSE mute_session_state
    IN IF waited = "in_session" /\ status \in {"session_end", "engine_off"}
         THEN "none" ELSE waited

Passed(status) ==
    /\ ~(status = "session_end" /\ fix.navigating)
    /\ ~(status = "session_begin" /\ ~fix.navigating)
    /\ Muted(status) # "in_session"

ReportStatus(status) ==
    /\ mute_session_state' = Muted(status)
    /\ engine_status' = IF status \in {"engine_on", "engine_off"} THEN status ELSE engine_status

(* update_aiding_data_for_deletion, with data pending.                     *)
UpdateAidingData(data) ==
    aiding_data_for_deletion' = IF engine_status' # "engine_on" THEN {} ELSE data

Takes(type) == msgs # <<>> /\ Head(msgs).type = type /\ msgs' = Tail(msgs)

-----------------------------------------------------------------------------
(* The framework, and the NI request that mutes a session.                 *)

Request ==
    /\ count.cmds < MaxCmds /\ Len(msgs) < MaxMsgs
    /\ count' = [count EXCEPT !.cmds = @ + 1]
    /\ \/ \E type \in {"start", "stop", "mute"} : msgs' = Append(msgs, Msg(type))
       \/ \E mode \in Mode, recurrence \in Recurrence :
             msgs' = Append(msgs, [type |-> "mode", mode |-> mode, recurrence |-> recurrence])
       \/ \E kind \in AidingData : msgs' = Append(msgs, [type |-> "delete", data |-> {kind}])
    /\ UNCHANGED <<fix, engine, told, linked, modem, lost, cb>>

-----------------------------------------------------------------------------
(* The messages.                                                           *)

(* Mutant: the session is believed to run whatever the modem said.         *)
StartHandlerAlways ==
    /\ Takes("start")
    /\ \E reg \in Replies, start \in Starts :
          fix' = IF fix.navigating THEN fix ELSE SetInSession(StartFix(fix, reg, start), TRUE)
    /\ told' = IF fix'.navigating /\ ~fix.navigating THEN "session_begin" ELSE told
    /\ UNCHANGED <<engine, linked, outside>>

StartHandler ==
    /\ Takes("start")
    /\ \E reg \in Replies, start \in Starts : fix' = Started(fix, reg, start)
    /\ told' = IF fix'.navigating /\ ~fix.navigating THEN "session_begin" ELSE told
    /\ UNCHANGED <<engine, linked, outside>>

(* The framework is told only of a stop that succeeded; the session is     *)
(* over for the adapter in any case.                                       *)
StopHandler ==
    /\ Takes("stop")
    /\ IF fix.navigating
         THEN \E stop, reg \in Replies :
                /\ fix' = SetInSession(StopFix(fix, stop, reg), FALSE)
                /\ told' = IF stop = "done" THEN "session_end" ELSE told
         ELSE UNCHANGED <<fix, told>>
    /\ UNCHANGED <<engine, linked, outside>>

(* A session that runs is started again with the new criteria.             *)
PositionMode ==
    /\ Takes("mode")
    /\ LET f == [fix EXCEPT !.mode = Head(msgs).mode, !.recurrence = Head(msgs).recurrence]
       IN \E reg \in Replies, start \in Starts :
             fix' = IF fix.navigating THEN StartFix(f, reg, start) ELSE f
    /\ UNCHANGED <<engine, told, linked, outside>>

DeleteAidingData ==
    /\ Takes("delete")
    /\ engine_status' = engine_status
    /\ UpdateAidingData(Head(msgs).data)
    /\ UNCHANGED <<fix, mEngineOn, mute_session_state, told, linked, outside>>

MuteOneSession ==
    /\ Takes("mute")
    /\ mute_session_state' = "wait"
    /\ UNCHANGED <<fix, mEngineOn, engine_status, aiding_data_for_deletion, told, linked, outside>>

(* Mutant: a position ends the session of any recurrence.                  *)
ReportPositionEndsAll ==
    /\ Takes("position")
    /\ \/ fix' = fix
       \/ /\ mute_session_state # "in_session"
          /\ \E stop, reg \in Replies :
                fix' = SetInSession(IF Head(msgs).final THEN fix ELSE StopFix(fix, stop, reg), FALSE)
    /\ UNCHANGED <<engine, told, linked, outside>>

(* Whether the position is passed on depends on its technology, its        *)
(* accuracy and the configuration.  The first one passed on ends a single  *)
(* shot, and an intermediate one stops the modem too, successfully or not. *)
ReportPosition ==
    /\ Takes("position")
    /\ \/ fix' = fix
       \/ /\ mute_session_state # "in_session" /\ fix.recurrence = "single"
          /\ \E stop, reg \in Replies :
                fix' = SetInSession(IF Head(msgs).final THEN fix ELSE StopFix(fix, stop, reg), FALSE)
    /\ UNCHANGED <<engine, told, linked, outside>>

(* Mutant: the events of a session are given up whenever the engine turns  *)
(* off.                                                                    *)
UpdateEngineStateAlways ==
    /\ Takes("engine")
    /\ fix' = IF mEngineOn /\ ~Head(msgs).on THEN [fix EXCEPT !.registered = FALSE] ELSE fix
    /\ mEngineOn' = Head(msgs).on
    /\ UNCHANGED <<engine_status, mute_session_state, aiding_data_for_deletion, told, linked, outside>>

(* MsgUpdateEngineState.                                                   *)
UpdateEngineState ==
    /\ Takes("engine")
    /\ \E reg \in Replies :
          fix' = IF mEngineOn /\ ~fix.inSession /\ ~Head(msgs).on
                   THEN RegisterEventMask(fix, reg) ELSE fix
    /\ mEngineOn' = Head(msgs).on
    /\ UNCHANGED <<engine_status, mute_session_state, aiding_data_for_deletion, told, linked, outside>>

ReportedStatus ==
    /\ Takes("status")
    /\ LET status == Head(msgs).status
       IN /\ ReportStatus(status)
          /\ told' = IF status \in {"session_begin", "session_end"} /\ Passed(status)
                       THEN status ELSE told
    /\ UpdateAidingData(aiding_data_for_deletion)
    /\ UNCHANGED <<fix, mEngineOn, linked, outside>>

(* loc_eng_handle_engine_down; the NI session is reset in NiSession.       *)
EngineDown ==
    /\ Takes("down")
    /\ ReportStatus("engine_off")
    /\ UNCHANGED <<fix, mEngineOn, aiding_data_for_deletion, told, linked, outside>>

(* LocSsrMsg: close and open.  locClientOpen fails without a modem, may    *)
(* fail with one, and is not tried again.                                  *)
Reopen ==
    /\ Takes("ssr")
    /\ \E opened \in BOOLEAN : linked' = (modem.up /\ opened)
    /\ fix' = [fix EXCEPT !.registered = FALSE, !.kept = FALSE, !.tracking = "none",
                          !.failed = "none", !.missed = FALSE]
    /\ UNCHANGED <<engine, told, outside>>

(* Mutant: the session is left as it is.                                   *)
EngineUpNoRestart ==
    /\ Takes("up")
    /\ ReportStatus("engine_on")
    /\ UNCHANGED <<fix, told, mEngineOn, aiding_data_for_deletion, linked, outside>>

(* loc_eng_handle_engine_up: the mode is set, which starts the session,    *)
(* and then the session is started from the beginning.  The settings sent  *)
(* again by loc_eng_reinit touch no state of this module.                  *)
EngineUp ==
    /\ Takes("up")
    /\ ReportStatus("engine_on")
    /\ IF fix.navigating
         THEN \E reg1, reg2 \in Replies, start1, start2 \in Starts :
                fix' = Started(SetInSession(StartFix(fix, reg1, start1), FALSE), reg2, start2)
         ELSE UNCHANGED fix
    /\ told' = IF fix'.navigating THEN "session_begin" ELSE told
    /\ UNCHANGED <<mEngineOn, aiding_data_for_deletion, linked, outside>>

Handle ==
    \/ StartHandler \/ StopHandler \/ PositionMode \/ DeleteAidingData \/ MuteOneSession
    \/ ReportPosition \/ UpdateEngineState \/ ReportedStatus
    \/ EngineDown \/ Reopen \/ EngineUp

-----------------------------------------------------------------------------
(* The QMI callback thread.                                                *)

Post ==
    /\ cb # <<>>
    /\ msgs' = Append(msgs, Head(cb))
    /\ cb' = Tail(cb)
    /\ UNCHANGED <<fix, engine, told, linked, modem, lost, count>>

(* LocApiV02::reportEngineState.                                           *)
ReportEngineState(on) ==
    LET status(s) == [type |-> "status", status |-> s]
    IN <<[type |-> "engine", on |-> on]>> \o
       IF on THEN <<status("engine_on"), status("session_begin")>>
             ELSE <<status("session_end"), status("engine_off")>>

(* LocApiV02::errorCb.                                                     *)
ErrorCb ==
    /\ lost /\ cb = <<>>
    /\ lost' = FALSE
    /\ cb' = <<Msg("down"), Msg("ssr"), Msg("up")>>
    /\ UNCHANGED <<fix, engine, told, linked, modem, count, msgs>>

-----------------------------------------------------------------------------
(* The modem.                                                              *)

(* Its engine turns on and off, for this client or another.                *)
EngineTurns ==
    /\ modem.up /\ count.events < MaxEvents
    /\ count' = [count EXCEPT !.events = @ + 1]
    /\ modem' = [modem EXCEPT !.engine = ~@]
    /\ IF fix.registered /\ fix.kept
         THEN cb = <<>> /\ cb' = ReportEngineState(modem'.engine)
         ELSE UNCHANGED cb
    /\ UNCHANGED <<fix, engine, told, linked, lost, msgs>>

(* A final position ends a single shot.                                    *)
Position ==
    /\ fix.tracking # "none" /\ count.events < MaxEvents
    /\ count' = [count EXCEPT !.events = @ + 1]
    /\ \E final \in BOOLEAN :
          /\ IF fix.registered /\ fix.kept
               THEN cb = <<>> /\ cb' = <<[type |-> "position", final |-> final]>>
               ELSE UNCHANGED cb
          /\ fix' = IF final /\ fix.tracking = "single"
                      THEN [fix EXCEPT !.tracking = "none"] ELSE fix
    /\ UNCHANGED <<engine, told, linked, modem, lost, msgs>>

Crash ==
    /\ modem.up /\ count.crashes < MaxCrashes
    /\ count' = [count EXCEPT !.crashes = @ + 1]
    /\ modem' = [up |-> FALSE, engine |-> FALSE]
    /\ linked' = FALSE
    /\ lost' = (lost \/ linked)
    /\ fix' = [fix EXCEPT !.registered = FALSE, !.tracking = "none",
                        !.failed = "none", !.missed = FALSE]
    /\ UNCHANGED <<engine, told, cb, msgs>>

Recover ==
    /\ ~modem.up
    /\ modem' = [modem EXCEPT !.up = TRUE]
    /\ UNCHANGED <<fix, engine, told, linked, lost, cb, count, msgs>>

Next ==
    \/ Request \/ Handle
    \/ Post \/ ErrorCb
    \/ EngineTurns \/ Position \/ Crash \/ Recover

Spec == Init /\ [][Next]_vars

(* The two threads go on; nothing is asked of the framework or the modem.  *)
FairSpec == Spec /\ WF_vars(Handle) /\ WF_vars(Post \/ ErrorCb)

-----------------------------------------------------------------------------
(* Properties.                                                             *)

Has(queue, type) == \E i \in DOMAIN queue : queue[i].type = type

(* The loss of a modem has not been worked off.                            *)
RestartDue == lost \/ Has(cb, "up") \/ Has(msgs, "up")

(* No phantom: while the adapter navigates, periodically, the modem tracks *)
(* for it, unless the start of a new mode failed or a restart is due.      *)
NoPhantomSession ==
    fix.navigating /\ fix.recurrence = "periodic" =>
        fix.tracking # "none" \/ fix.failed = "start" \/ RestartDue

(* No orphan: the modem does not go on tracking for an adapter that has    *)
(* ended the session and will not stop it, unless a stop failed, which     *)
(* ends the session all the same (loc_eng.cpp:1753), or a start did.       *)
NoOrphanSession ==
    fix.tracking = "periodic" => fix.navigating \/ fix.failed # "none"

(* "Session End is not reported during Android navigating state"           *)
(* (loc_eng.cpp:2469), and the framework knows that there is a session.    *)
NavigatingIsTold == fix.navigating => told = "session_begin"

(* The reports of a session that runs are wanted from the modem and let    *)
(* through by the client, however late the end of an earlier one is worked *)
(* off, unless their registration failed, which startFix ignores.          *)
SessionIsReported ==
    fix.navigating => (fix.registered /\ fix.kept) \/ fix.missed \/ RestartDue

(* A session that is lost with the modem is taken up again or ended.       *)
RestartFollowed ==
    fix.navigating /\ fix.recurrence = "periodic" /\ fix.tracking = "none"
        ~> fix.tracking # "none" \/ ~fix.navigating \/ fix.failed = "start"

-----------------------------------------------------------------------------
(* What comments of the code say, and the code does not do.                *)

(* "modem is back up.  If we crashed in the middle of navigating, we       *)
(* restart": in the mode the session had (loc_eng.cpp:2542).               *)
RestartKeepsMode ==
    [][msgs # <<>> /\ Head(msgs) = Msg("up") /\ msgs' = Tail(msgs) /\ fix.navigating /\ fix'.navigating
         => fix'.operation = OperationMode(fix.mode)]_vars

=============================================================================
