----------------------------- MODULE QmiMessages -----------------------------
(***************************************************************************)
(* The messages between LocApiV02 and the modem, and every table one of    *)
(* them is looked up in on its way: the masks LocApiV02 converts, the      *)
(* requests loc_api_v02_client.c lets through, the indications it knows,   *)
(* validates and forwards, and the switch of LocApiV02::eventCb.           *)
(*                                                                         *)
(* A message is its name without QMI_LOC_, EVENT_ and _V02; an event has   *)
(* the name of its mask bit.  The MsgTask sends, registers and waits; the  *)
(* QCCI thread (external) delivers what the modem sent, in order.  The     *)
(* client is open with one handle (LocClient has its opening, closing and  *)
(* loss), a request is answered before it times out (SyncReq has the rest).*)
(***************************************************************************)
EXTENDS Naturals, Sequences, FiniteSets

CONSTANTS
    Masks,      \* event masks of the adapters: sets of bit positions 0..20
    MaxWire     \* bound: indications on their way at once

ASSUME MasksAssumption ==
    Masks \subseteq SUBSET (0..20) /\ Masks # {} /\ MaxWire \in Nat

-----------------------------------------------------------------------------
(* loc_api_v02_client.c.                                                   *)

EventTable ==
    { "POSITION_REPORT", "GNSS_SV_INFO", "NMEA", "NI_NOTIFY_VERIFY_REQ",
      "INJECT_TIME_REQ", "INJECT_PREDICTED_ORBITS_REQ",
      "INJECT_POSITION_REQ", "ENGINE_STATE", "FIX_SESSION_STATE",
      "WIFI_REQ", "SENSOR_STREAMING_READY_STATUS", "TIME_SYNC_REQ",
      "SET_SPI_STREAMING_REPORT", "LOCATION_SERVER_CONNECTION_REQ",
      "NI_GEOFENCE_NOTIFICATION", "GEOFENCE_GEN_ALERT",
      "GEOFENCE_BREACH_NOTIFICATION", "PEDOMETER_CONTROL",
      "MOTION_DATA_CONTROL", "INJECT_WIFI_AP_DATA_REQ",
      "LIVE_BATCHED_POSITION_REPORT", "BATCH_FULL_NOTIFICATION",
      "VEHICLE_DATA_READY_STATUS" }

(* The table of answers, in its two halves.                                *)
RespTableInject ==
    { "GET_SERVICE_REVISION", "GET_FIX_CRITERIA", "NI_USER_RESPONSE",
      "INJECT_PREDICTED_ORBITS_DATA", "GET_PREDICTED_ORBITS_DATA_SOURCE",
      "GET_PREDICTED_ORBITS_DATA_VALIDITY", "INJECT_UTC_TIME",
      "INJECT_POSITION", "SET_ENGINE_LOCK", "GET_ENGINE_LOCK",
      "SET_SBAS_CONFIG", "GET_SBAS_CONFIG", "SET_NMEA_TYPES",
      "GET_NMEA_TYPES", "SET_LOW_POWER_MODE", "GET_LOW_POWER_MODE",
      "SET_SERVER", "GET_SERVER", "DELETE_ASSIST_DATA",
      "SET_XTRA_T_SESSION_CONTROL", "GET_XTRA_T_SESSION_CONTROL",
      "INJECT_WIFI_POSITION", "NOTIFY_WIFI_STATUS",
      "GET_REGISTERED_EVENTS", "SET_OPERATION_MODE", "GET_OPERATION_MODE",
      "SET_SPI_STATUS", "INJECT_SENSOR_DATA", "INJECT_TIME_SYNC_DATA",
      "SET_CRADLE_MOUNT_CONFIG", "GET_CRADLE_MOUNT_CONFIG",
      "SET_EXTERNAL_POWER_CONFIG", "GET_EXTERNAL_POWER_CONFIG",
      "INFORM_LOCATION_SERVER_CONN_STATUS" }

RespTableConfig ==
    { "SET_PROTOCOL_CONFIG_PARAMETERS", "GET_PROTOCOL_CONFIG_PARAMETERS",
      "SET_SENSOR_CONTROL_CONFIG", "GET_SENSOR_CONTROL_CONFIG",
      "SET_SENSOR_PROPERTIES", "GET_SENSOR_PROPERTIES",
      "SET_SENSOR_PERFORMANCE_CONTROL_CONFIGURATION",
      "GET_SENSOR_PERFORMANCE_CONTROL_CONFIGURATION",
      "INJECT_SUPL_CERTIFICATE", "DELETE_SUPL_CERTIFICATE",
      "SET_POSITION_ENGINE_CONFIG_PARAMETERS",
      "GET_POSITION_ENGINE_CONFIG_PARAMETERS", "ADD_CIRCULAR_GEOFENCE",
      "DELETE_GEOFENCE", "QUERY_GEOFENCE", "EDIT_GEOFENCE",
      "GET_BEST_AVAILABLE_POSITION", "INJECT_MOTION_DATA",
      "GET_NI_GEOFENCE_ID_LIST", "INJECT_GSM_CELL_INFO",
      "INJECT_NETWORK_INITIATED_MESSAGE",
      "WWAN_OUT_OF_SERVICE_NOTIFICATION", "PEDOMETER_REPORT",
      "INJECT_WCDMA_CELL_INFO", "INJECT_TDSCDMA_CELL_INFO",
      "INJECT_SUBSCRIBER_ID", "INJECT_WIFI_AP_DATA", "START_BATCHING",
      "STOP_BATCHING", "GET_BATCH_SIZE", "LIVE_BATCHED_POSITION_REPORT",
      "BATCH_FULL_NOTIFICATION", "READ_FROM_BATCH", "RELEASE_BATCH",
      "INJECT_VEHICLE_SENSOR_DATA" }

RespTable == RespTableInject \cup RespTableConfig

(* The cases of locClientHandleIndication: an indication without one is    *)
(* decoded and thrown away.                                                *)
HandledEvents == EventTable

(* Cases with a handler of their own.                                      *)
HandledAnswers ==
    { "INJECT_VEHICLE_SENSOR_DATA",
      "GET_SERVICE_REVISION", "GET_FIX_CRITERIA",
      "INJECT_PREDICTED_ORBITS_DATA", "GET_PREDICTED_ORBITS_DATA_SOURCE",
      "GET_PREDICTED_ORBITS_DATA_VALIDITY", "INJECT_SENSOR_DATA",
      "GET_PROTOCOL_CONFIG_PARAMETERS", "SET_PROTOCOL_CONFIG_PARAMETERS",
      "GET_EXTERNAL_POWER_CONFIG", "GET_CRADLE_MOUNT_CONFIG",
      "GET_SENSOR_CONTROL_CONFIG",
      "GET_SENSOR_PERFORMANCE_CONTROL_CONFIGURATION",
      "GET_SENSOR_PROPERTIES",
      "SET_SENSOR_PERFORMANCE_CONTROL_CONFIGURATION",
      "SET_POSITION_ENGINE_CONFIG_PARAMETERS",
      "GET_POSITION_ENGINE_CONFIG_PARAMETERS", "ADD_CIRCULAR_GEOFENCE",
      "DELETE_GEOFENCE", "EDIT_GEOFENCE", "QUERY_GEOFENCE",
      "GET_BEST_AVAILABLE_POSITION", "GET_ENGINE_LOCK",
      "GET_NI_GEOFENCE_ID_LIST", "PEDOMETER_REPORT", "START_BATCHING",
      "STOP_BATCHING", "GET_BATCH_SIZE", "READ_FROM_BATCH",
      "RELEASE_BATCH" }

(* Answers that are nothing but a status.                                  *)
HandledStatus ==
    { "NI_USER_RESPONSE", "INJECT_UTC_TIME", "INJECT_POSITION",
      "SET_ENGINE_LOCK", "SET_SBAS_CONFIG", "SET_NMEA_TYPES",
      "SET_LOW_POWER_MODE", "SET_SERVER", "DELETE_ASSIST_DATA",
      "SET_XTRA_T_SESSION_CONTROL", "INJECT_WIFI_POSITION",
      "NOTIFY_WIFI_STATUS", "SET_OPERATION_MODE", "SET_SPI_STATUS",
      "INJECT_TIME_SYNC_DATA", "SET_CRADLE_MOUNT_CONFIG",
      "SET_EXTERNAL_POWER_CONFIG", "INFORM_LOCATION_SERVER_CONN_STATUS",
      "SET_SENSOR_CONTROL_CONFIG", "SET_SENSOR_PROPERTIES",
      "INJECT_SUPL_CERTIFICATE", "DELETE_SUPL_CERTIFICATE",
      "INJECT_MOTION_DATA", "INJECT_GSM_CELL_INFO",
      "INJECT_NETWORK_INITIATED_MESSAGE",
      "WWAN_OUT_OF_SERVICE_NOTIFICATION", "INJECT_WCDMA_CELL_INFO",
      "INJECT_TDSCDMA_CELL_INFO", "INJECT_SUBSCRIBER_ID",
      "INJECT_WIFI_AP_DATA" }

(* Mutant: the answer to a request for the engine lock has no case.        *)
HandledWithoutLock ==
    HandledEvents \cup (HandledAnswers \ {"GET_ENGINE_LOCK"})
                  \cup HandledStatus

Handled == HandledEvents \cup HandledAnswers \cup HandledStatus

(* validateRequest: requests with a payload, and without.                  *)
ValidWithPayload ==
    { "INFORM_CLIENT_REVISION", "REG_EVENTS", "START", "STOP",
      "NI_USER_RESPONSE", "INJECT_PREDICTED_ORBITS_DATA",
      "INJECT_UTC_TIME", "INJECT_POSITION", "SET_ENGINE_LOCK",
      "SET_SBAS_CONFIG", "SET_NMEA_TYPES", "SET_LOW_POWER_MODE",
      "SET_SERVER", "DELETE_ASSIST_DATA", "SET_XTRA_T_SESSION_CONTROL",
      "INJECT_WIFI_POSITION", "NOTIFY_WIFI_STATUS", "SET_OPERATION_MODE",
      "SET_SPI_STATUS", "INJECT_SENSOR_DATA", "INJECT_TIME_SYNC_DATA",
      "SET_CRADLE_MOUNT_CONFIG", "SET_EXTERNAL_POWER_CONFIG",
      "INFORM_LOCATION_SERVER_CONN_STATUS",
      "SET_PROTOCOL_CONFIG_PARAMETERS", "GET_PROTOCOL_CONFIG_PARAMETERS",
      "SET_SENSOR_CONTROL_CONFIG", "GET_SENSOR_PROPERTIES",
      "SET_SENSOR_PROPERTIES",
      "SET_SENSOR_PERFORMANCE_CONTROL_CONFIGURATION",
      "INJECT_SUPL_CERTIFICATE", "DELETE_SUPL_CERTIFICATE",
      "SET_POSITION_ENGINE_CONFIG_PARAMETERS",
      "GET_POSITION_ENGINE_CONFIG_PARAMETERS", "ADD_CIRCULAR_GEOFENCE",
      "DELETE_GEOFENCE", "QUERY_GEOFENCE", "EDIT_GEOFENCE",
      "GET_BEST_AVAILABLE_POSITION", "INJECT_MOTION_DATA",
      "GET_NI_GEOFENCE_ID_LIST", "INJECT_GSM_CELL_INFO",
      "INJECT_NETWORK_INITIATED_MESSAGE", "PEDOMETER_REPORT",
      "INJECT_WCDMA_CELL_INFO", "INJECT_TDSCDMA_CELL_INFO",
      "INJECT_SUBSCRIBER_ID", "INJECT_WIFI_AP_DATA", "GET_BATCH_SIZE",
      "START_BATCHING", "READ_FROM_BATCH", "STOP_BATCHING",
      "RELEASE_BATCH", "INJECT_VEHICLE_SENSOR_DATA" }

ValidWithoutPayload ==
    { "GET_SERVICE_REVISION", "GET_FIX_CRITERIA",
      "GET_PREDICTED_ORBITS_DATA_SOURCE",
      "GET_PREDICTED_ORBITS_DATA_VALIDITY", "GET_ENGINE_LOCK",
      "GET_SBAS_CONFIG", "GET_NMEA_TYPES", "GET_LOW_POWER_MODE",
      "GET_SERVER", "GET_XTRA_T_SESSION_CONTROL", "GET_REGISTERED_EVENTS",
      "GET_OPERATION_MODE", "GET_CRADLE_MOUNT_CONFIG",
      "GET_EXTERNAL_POWER_CONFIG", "GET_SENSOR_CONTROL_CONFIG",
      "GET_SENSOR_PERFORMANCE_CONTROL_CONFIGURATION",
      "WWAN_OUT_OF_SERVICE_NOTIFICATION", "GET_SUPPORTED_MSGS",
      "GET_SUPPORTED_FIELDS" }

Valid == ValidWithPayload \cup ValidWithoutPayload

-----------------------------------------------------------------------------
(* LocApiV02.cpp.                                                          *)

(* Requests LocApiV02 sends through loc_sync_send_req, each answered by    *)
(* the indication of the same name.                                        *)
SyncReqs ==
    { "SET_OPERATION_MODE", "INJECT_UTC_TIME", "INJECT_POSITION",
      "DELETE_ASSIST_DATA", "NI_USER_RESPONSE", "SET_SERVER",
      "INJECT_PREDICTED_ORBITS_DATA", "GET_PREDICTED_ORBITS_DATA_SOURCE",
      "INFORM_LOCATION_SERVER_CONN_STATUS",
      "SET_PROTOCOL_CONFIG_PARAMETERS", "SET_SENSOR_CONTROL_CONFIG",
      "SET_SENSOR_PROPERTIES",
      "SET_SENSOR_PERFORMANCE_CONTROL_CONFIGURATION",
      "SET_EXTERNAL_POWER_CONFIG", "GET_BEST_AVAILABLE_POSITION",
      "SET_ENGINE_LOCK", "GET_ENGINE_LOCK" }

(* What each bit of an adapter's mask stands for (gps_extended_c.h, whose  *)
(* LOC_API_ADAPTER_BIT_x is 1 << LOC_API_ADAPTER_x).                       *)
Meanings ==
    << {"POSITION_REPORT"}, {"GNSS_SV_INFO"}, {"NMEA"}, {"NMEA"},
       {"NI_NOTIFY_VERIFY_REQ"},
       {"INJECT_PREDICTED_ORBITS_REQ", "INJECT_TIME_REQ",
        "INJECT_POSITION_REQ"},
       {"LOCATION_SERVER_CONNECTION_REQ"}, {}, {"ENGINE_STATE"},
       {"WIFI_REQ"}, {"SENSOR_STREAMING_READY_STATUS"}, {"TIME_SYNC_REQ"},
       {"SET_SPI_STREAMING_REPORT"}, {"NI_GEOFENCE_NOTIFICATION"},
       {"GEOFENCE_GEN_ALERT"}, {"GEOFENCE_BREACH_NOTIFICATION"},
       {"PEDOMETER_CONTROL"}, {"MOTION_DATA_CONTROL"},
       {"INJECT_WIFI_AP_DATA_REQ"}, {"BATCH_FULL_NOTIFICATION"},
       {"LIVE_BATCHED_POSITION_REPORT"} >>

Meant(bit) == Meanings[bit + 1]

(* The bits of the number n: convertMask tests the mask against the plain  *)
(* indices LOC_API_ADAPTER_REQUEST_WIFI (9) to ..._WIFI_AP_DATA (18).      *)
BitsOf(n) == {k \in 0..4 : (n \div 2^k) % 2 = 1}

Tested(bit) == IF bit \in 9..18 THEN BitsOf(bit) ELSE {bit}

ConvertMask(bits) ==
    UNION {Meant(bit) : bit \in {b \in 0..20 : Tested(b) \cap bits # {}}}

(* Outside a session these are not registered (adjustMaskForNoSession).    *)
SessionEvents == {"POSITION_REPORT", "GNSS_SV_INFO", "NMEA", "ENGINE_STATE"}

(* What registerEventMask asks the modem for, in a session or not.         *)
Capped(bits, session) ==
    IF session THEN ConvertMask(bits) ELSE ConvertMask(bits) \ SessionEvents

(* Mutant: the modem's requests for the time have no case.                 *)
DispatchedNoTime ==
    { "POSITION_REPORT", "GNSS_SV_INFO", "ENGINE_STATE",
      "FIX_SESSION_STATE", "NMEA", "INJECT_PREDICTED_ORBITS_REQ",
      "INJECT_POSITION_REQ", "NI_NOTIFY_VERIFY_REQ",
      "LOCATION_SERVER_CONNECTION_REQ" }

(* The cases of LocApiV02::eventCb.                                        *)
Dispatched ==
    { "POSITION_REPORT", "GNSS_SV_INFO", "ENGINE_STATE",
      "FIX_SESSION_STATE", "NMEA", "INJECT_PREDICTED_ORBITS_REQ",
      "INJECT_TIME_REQ", "INJECT_POSITION_REQ", "NI_NOTIFY_VERIFY_REQ",
      "LOCATION_SERVER_CONNECTION_REQ" }

-----------------------------------------------------------------------------
VARIABLES
    mask,       \* the mask the adapters asked for (mMask)
    at,         \* the MsgTask: where it is in opening, registering, sending
    req,        \* the synchronous request it waits for
    slot,       \* the answer loc_sync_process_ind has put into its slot
    kept,       \* the client's copy of the event mask (eventRegMask)
    reg,        \* the modem's
    owed,       \* requests the modem acknowledged and has not answered
    wire,       \* indications on their way, oldest first
    out         \* who got the last one

messageVars == <<mask, at, req, slot, kept, reg, owed, wire, out>>

Nothing == "nothing"

MessageTypeOK ==
    /\ mask \in Masks
    /\ at \in {"closed", "opening", "idle", "registering", "waiting"}
    /\ req \in SyncReqs \cup {Nothing}
    /\ slot \in RespTable \cup {Nothing}
    /\ kept \subseteq EventTable
    /\ reg \subseteq EventTable
    /\ owed \subseteq SyncReqs
    /\ wire \in Seq(EventTable \cup SyncReqs) /\ Len(wire) <= MaxWire
    /\ out \in {Nothing, "adapter", "caller", "nobody"}

MessageInit ==
    /\ mask \in Masks
    /\ at = "closed" /\ req = Nothing /\ slot = Nothing
    /\ kept = {} /\ reg = {} /\ owed = {}
    /\ wire = <<>> /\ out = Nothing

-----------------------------------------------------------------------------
(* The MsgTask.                                                            *)

(* locClientOpen: the mask reaches the modem before the callbacks and the  *)
(* client's own copy of it are filled in.                                  *)
Open ==
    /\ at = "closed"
    /\ at' = "opening"
    /\ reg' = Capped(mask, FALSE)
    /\ UNCHANGED <<mask, req, slot, kept, owed, wire, out>>

(* registerEventMask, at the start or at the end of a session; the modem   *)
(* may refuse (then nothing changes), or take the mask.                    *)
Register ==
    /\ at = "idle"
    /\ \E session \in BOOLEAN : reg' = Capped(mask, session)
    /\ at' = "registering"
    /\ UNCHANGED <<mask, req, slot, kept, owed, wire, out>>

(* The acknowledgement is there: the client's copy follows.                *)
Keep ==
    /\ at \in {"opening", "registering"}
    /\ kept' = reg
    /\ at' = "idle"
    /\ UNCHANGED <<mask, req, slot, reg, owed, wire, out>>

(* loc_sync_send_req: a slot is taken, locClientSendReq validates the      *)
(* request and sends it, and the modem acknowledges it.                    *)
SendSync ==
    /\ at = "idle"
    /\ \E r \in SyncReqs \cap Valid :
          /\ req' = r
          /\ owed' = owed \cup {r}
    /\ at' = "waiting"
    /\ slot' = Nothing
    /\ UNCHANGED <<mask, kept, reg, wire, out>>

(* loc_sync_send_req returns with the answer.                              *)
Answered ==
    /\ at = "waiting" /\ slot # Nothing
    /\ at' = "idle" /\ req' = Nothing /\ slot' = Nothing
    /\ UNCHANGED <<mask, kept, reg, owed, wire, out>>

-----------------------------------------------------------------------------
(* The modem.                                                              *)

(* It reports an event the client is registered for.                       *)
Report ==
    /\ Len(wire) < MaxWire
    /\ \E e \in reg : wire' = Append(wire, e)
    /\ UNCHANGED <<mask, at, req, slot, kept, reg, owed, out>>

ModemAnswers ==
    /\ Len(wire) < MaxWire
    /\ \E r \in owed :
          /\ owed' = owed \ {r}
          /\ wire' = Append(wire, r)
    /\ UNCHANGED <<mask, at, req, slot, kept, reg, out>>

-----------------------------------------------------------------------------
(* The QCCI thread: locClientIndCb.                                        *)

Ind == Head(wire)

(* The event table is searched first.                                      *)
IsEvent  == Ind \in EventTable
IsAnswer == Ind \notin EventTable /\ Ind \in RespTable

(* An event nobody registered for is dropped before it is decoded; while   *)
(* the client opens there is no callback to give it to.                    *)
ForAdapter ==
    /\ IsEvent
    /\ Ind \in kept /\ at # "opening"
    /\ Ind \in Handled
    /\ Ind \in Dispatched

ForCaller ==
    /\ IsAnswer
    /\ Ind \in Handled
    /\ at = "waiting" /\ slot = Nothing /\ req = Ind

Deliver ==
    /\ wire # <<>>
    /\ wire' = Tail(wire)
    /\ \/ /\ ForAdapter
          /\ out' = "adapter" /\ UNCHANGED slot
       \/ /\ ForCaller
          /\ out' = "caller" /\ slot' = Ind
       \/ /\ ~ForAdapter /\ ~ForCaller
          /\ out' = "nobody" /\ UNCHANGED slot
    /\ UNCHANGED <<mask, at, req, kept, reg, owed>>

-----------------------------------------------------------------------------
MsgTask == Open \/ Register \/ Keep \/ SendSync \/ Answered
Modem   == Report \/ ModemAnswers

MessageNext == MsgTask \/ Modem \/ Deliver

(* The threads run, and the modem answers what it acknowledged even while  *)
(* it keeps on reporting.                                                  *)
MessageFairness ==
    /\ WF_messageVars(Keep) /\ WF_messageVars(Answered) /\ WF_messageVars(Deliver)
    /\ SF_messageVars(ModemAnswers)

MessageSpec == MessageInit /\ [][MessageNext]_messageVars /\ MessageFairness

-----------------------------------------------------------------------------
(* Properties.                                                             *)

(* Every synchronous request that was sent is answered: no table between   *)
(* the modem and the caller of loc_sync_send_req loses the answer.         *)
SyncReqEnds == (at = "waiting") ~> (at = "idle")

(* What the adapters asked for reaches their handler: an event they meant  *)
(* with a bit of their mask, that the modem is registered for when it      *)
(* arrives, is thrown away only while the mask is on its way between the   *)
(* modem and the client's copy of it.  (Bits above 8 have no handler.)     *)
NeededIsHeard ==
    [][(/\ wire # <<>> /\ wire' = Tail(wire)
        /\ at \notin {"closed", "opening", "registering"}
        /\ Ind \in reg
        /\ \E b \in mask : b <= 8 /\ Ind \in Meant(b))
           => out' = "adapter"]_messageVars
=============================================================================
