------------------------------ MODULE LocClient ------------------------------
(***************************************************************************)
(* The QMI client of the location service (loc_api_v02_client.c): what     *)
(* locClientOpen and locClientClose do with the callback data they         *)
(* allocate and free, while the thread of QCCI (external) reports the loss *)
(* of the service through that same memory.                                *)
(*                                                                         *)
(* QCCI identifies a client by a handle (qmi_client_type) and gives back   *)
(* the address of the callback data it was opened with.  locClientClose    *)
(* does not wait for a callback that has begun: freed callback data reads  *)
(* as zeros (the memset) until calloc hands the address out again.         *)
(* The operations of this module are the steps LocApi is composed of.      *)
(***************************************************************************)
EXTENDS Naturals, Sequences, FiniteSets

CONSTANTS
    Addr,       \* places where calloc puts a locClientCallbackDataType
    Handle,     \* qmi_client_type values
    Event,      \* kinds of indications a client can register for
    None,       \* NULL
    MaxLeft     \* bound: clients left in QCCI that nobody will release

ASSUME NoneAssumption == None \notin Addr \cup Handle
ASSUME LeftAssumption == MaxLeft \in Nat

VARIABLES
    up,         \* the location service runs
    data,       \* the callback data at each address
    conn,       \* QCCI: the address each open handle was initialised with
    dead,       \* open handles whose service has gone
    watched,    \* open handles whose error callback QCCI has
    errors,     \* those of them whose service has gone and whose error
                \* callback has not begun
    reg,        \* the modem: the events each open handle is registered for
    rx          \* what the QCCI thread is doing

client == <<up, data, conn, dead, watched, errors, reg, rx>>

Zeroed == [user |-> None, cbs |-> FALSE, mask |-> {}]
Open   == {h \in Handle : conn[h] # None}

DataType == [user : Handle \cup {None}, cbs : BOOLEAN, mask : SUBSET Event]
RxType   ==
    [pc : {"idle"}]
      \cup [pc : {"error", "down"}, at : Addr, handle : Handle]

ClientTypeOK ==
    /\ up \in BOOLEAN
    /\ data \in [Addr -> DataType]
    /\ conn \in [Handle -> Addr \cup {None}]
    /\ dead \in SUBSET Open
    /\ watched \in SUBSET Open
    /\ errors \in SUBSET (dead \cap watched)
    /\ reg \in [Handle -> SUBSET Event]
    /\ rx \in RxType

Idle == [pc |-> "idle"]

ClientInit ==
    /\ up \in BOOLEAN
    /\ data = [a \in Addr |-> Zeroed]
    /\ conn = [h \in Handle |-> None]
    /\ dead = {} /\ watched = {} /\ errors = {}
    /\ reg = [h \in Handle |-> {}]
    /\ rx = Idle

-----------------------------------------------------------------------------
(* Operations of the thread that opens and closes.                         *)

(* Up to the point where locClientOpenInstance has a handle: calloc, the   *)
(* service found, QCCI's client initialised, the callback data pointing at *)
(* itself; the callbacks are not filled in yet.  The handle is a new one.  *)
CtrlPointInit(a, h) ==
    /\ up
    /\ data[a].user = None
    /\ conn[h] = None /\ (rx # Idle => rx.handle # h)
    /\ data' = [data EXCEPT ![a].user = h]
    /\ conn' = [conn EXCEPT ![h] = a]
    /\ watched' = watched \cup {h}
    /\ UNCHANGED <<up, dead, errors, reg, rx>>

(* QCCI's client is initialised, but its error callback is refused: the    *)
(* callback data is freed and the client is never released.                *)
CtrlPointLeft(a, h) ==
    /\ up /\ Cardinality(Open \ watched) < MaxLeft
    /\ data[a].user = None
    /\ conn[h] = None /\ (rx # Idle => rx.handle # h)
    /\ conn' = [conn EXCEPT ![h] = a]
    /\ UNCHANGED <<up, data, dead, watched, errors, reg, rx>>

(* locClientRegisterEventMask, first half: qmi_client_send_msg_sync.  The  *)
(* modem takes the mask unless the request fails on the way to it.         *)
SendMask(a, m) ==
    /\ data[a].user \notin dead
    /\ reg' = [reg EXCEPT ![data[a].user] = m]
    /\ UNCHANGED <<up, data, conn, dead, watched, errors, rx>>

(* Second half: on success the client keeps its own copy of the mask.      *)
KeepMask(a, m) ==
    /\ data' = [data EXCEPT ![a].mask = m]
    /\ UNCHANGED <<up, conn, dead, watched, errors, reg, rx>>

(* The rest of locClientOpenInstance: callbacks, mask and cookie.          *)
FillIn(a, m) ==
    /\ data' = [data EXCEPT ![a].cbs = TRUE, ![a].mask = m]
    /\ UNCHANGED <<up, conn, dead, watched, errors, reg, rx>>

(* Mutant: the callback data is freed, the client of QCCI is not released. *)
ReleaseKeepsClient(a) ==
    /\ data' = [data EXCEPT ![a] = Zeroed]
    /\ UNCHANGED <<up, conn, dead, watched, errors, reg, rx>>

(* locClientClose of a valid handle: QCCI forgets the client, the callback *)
(* data is cleared and freed.                                              *)
Release(a) ==
    LET h == data[a].user IN
    /\ conn' = [conn EXCEPT ![h] = None]
    /\ dead' = dead \ {h} /\ watched' = watched \ {h} /\ errors' = errors \ {h}
    /\ data' = [data EXCEPT ![a] = Zeroed]
    /\ reg' = [reg EXCEPT ![h] = {}]
    /\ UNCHANGED <<up, rx>>

-----------------------------------------------------------------------------
(* The QCCI thread: locClientErrorCb.  (Indications are in QmiMessages.)   *)

(* QCCI calls back with the address it was given for the handle.           *)
RxError ==
    /\ rx = Idle
    /\ \E h \in errors :
          /\ rx' = [pc |-> "error", at |-> conn[h], handle |-> h]
          /\ errors' = errors \ {h}
    /\ UNCHANGED <<up, data, conn, dead, watched, reg>>

(* locClientErrorCb copies errorCallback.                                  *)
RxErrorCopy ==
    /\ rx.pc = "error"
    /\ rx' = IF data[rx.at].cbs THEN [rx EXCEPT !.pc = "down"] ELSE Idle
    /\ UNCHANGED <<up, data, conn, dead, watched, errors, reg>>

(* The second look at the callback, just before it is called; what is      *)
(* called reads the cookie, NULL in cleared memory.                        *)
RxCalled == rx.pc = "down" /\ data[rx.at].cbs

RxDone ==
    /\ rx.pc = "down"
    /\ rx' = Idle
    /\ UNCHANGED <<up, data, conn, dead, watched, errors, reg>>

-----------------------------------------------------------------------------
(* The location service (external) goes and comes back, with the modem or  *)
(* without it; QCCI calls the error callback of every client that has one. *)

ServiceLost ==
    /\ up /\ up' = FALSE
    /\ errors' = errors \cup (watched \ dead)
    /\ dead' = Open
    /\ reg' = [h \in Handle |-> {}]
    /\ UNCHANGED <<data, conn, watched, rx>>

ServiceBack ==
    /\ ~up /\ up' = TRUE
    /\ UNCHANGED <<data, conn, dead, watched, errors, reg, rx>>
=============================================================================
