# Formal models of the omni_device_cancro GPS HAL

The repository is the Android device tree of the Xiaomi Mi3/Mi4 ("cancro").  Most of it is
build files, configuration and proprietary-blob plumbing; the program with logic of its own is
the GPS HAL under `src/gps`, a multi-threaded C/C++ service between the Android framework (Java,
through JNI), the modem (through the QMI location service) and two daemons (QuIPC/MSAP and
GPSONE, through named pipes).  This directory holds its TLA+ models.

## 1. Inventory

Paths are relative to `src/gps` unless they start with `src/`.

| Component | State it keeps | Operations | Interacts with |
|---|---|---|---|
| AGPS NIF state machines (`libloc_api_50001/loc_eng_agps.*`) | current state, subscriber list with inactive marks | subscribe, unsubscribe, GRANTED/RELEASED/DENIED, flush on engine restart | ATL clients in the modem, BIT/WIFI daemons, Android connectivity service through `agps_status_cb` |
| Data-services state machine (`DSStateMachine`, same file) | the same, retry counter, retry timer | the same, data-call start with failure codes, retry, fallback to ATL | `ds_client`, `loc_timer`, `agnss_nif` |
| Network-initiated requests (`loc_eng_ni.cpp`) | pending request, response, response flag, request id, mutex/cond | request from modem, user response, timeout, reset on engine restart | MsgTask thread, one thread per request, Java thread |
| Fix session and engine (`loc_eng.cpp`, `LocEngAdapter.*`, session part of `LocApiV02.cpp`) | navigating flag, position mode, engine status, fix session status, mute state, pending aiding-data deletion, QMI event mask | start, stop, set mode, status and position reports, delete aiding data, engine down/up | MsgTask thread, `LocApiV02`, Java callbacks |
| Synchronous QMI requests (`loc_api/loc_api_v02/loc_api_sync_req.c`) | table of 8 slots, locks and condition variables | select, send, wait, indication, free | caller threads, QMI callback thread |
| Message queue and worker (`utils/linked_list.c`, `utils/msg_q.c`, `core/MsgTask.cpp`) | list, unblocked flag, mutex/cond | send, receive, flush, unblock, destroy | every component posts `LocMsg`s |
| Timer (`utils/loc_timer.c`) | per-timer state READY/WAITING/DONE/ABORT | start, stop, expiry | one thread per timer, callers holding a handle |
| Adapter registry (`core/LocApiBase.cpp`, `core/LocAdapterBase.cpp`, `core/LocDualContext.cpp`) | array of up to 10 adapters, the event mask | add, remove, dispatch, open and reopen the client | LocApi, adapters |
| Data service client (`loc_api/ds_api/ds_client.c`) | DSI and QMI handles of the emergency call | open, start, stop, close, network events | `LocApiV02`, `DSStateMachine` |
| QMI client (`loc_api/loc_api_v02/loc_api_v02_client.c`, `location_service_v02.*`) | service handle, callbacks, message tables | open, close, send, indication decoding | `LocApiV02` |
| Daemon connection (`libloc_api_50001/loc_eng_dmn_conn*.cpp`) | named pipes, reader thread, thread helper state | launch, request/release from daemons, response to daemons, stop | AGPS machines |
| Settings, XTRA and other calls (`loc_eng_reinit` in `loc_eng.cpp`, `loc_eng_xtra.cpp`, the rest of `LocApiV02.cpp`) | what the modem was told, the part a file has come to | one blocking request per call, a series of them per file, all settings after a start or restart | MsgTask, synchronous requests, modem |
| NMEA, configuration, logging, target detection (`loc_eng_nmea.cpp`, `utils/loc_cfg.cpp`, ...) | last fix, parsed configuration | formatting and file parsing | `loc_eng.cpp` |
| Camera wrapper (`src/camera/CameraWrapper.cpp`) | vendor module handle, parameter fix-ups | forwards every call | vendor camera HAL |
| Init helpers, dtbtool, audio/wifi/rootdir/overlay configuration, CancroParts settings app | properties, files, preferences | boot-time detection, device-tree packing, sysfs writes | Android |

### What is hard, and what correctness means

* **AGPS machines.**  One thread runs all handlers, but requests go out through a callback and
  their answers come back later through the message queue, unlabelled: a GRANTED does not say
  which request it answers.  Correct means: what a client was last told is what the machine can
  stand for, a machine that waits has something to wait for, every accepted request is answered.
* **DS machine.**  The request can fail at once, is retried by a timer thread, and falls back to
  another machine; retries race with releases of the same handle.
* **NI requests.**  Three threads share a session record only partly protected by its mutex;
  timeout, user response, a new request and an engine restart race.  Correct means: each request
  gets at most one response, and the response a user gives is sent for the request it was given to.
* **Synchronous requests.**  A late indication, two requests for the same indication, and a full
  table must not hand one caller the answer of another or let it believe it was answered.
* **Engine and session.**  Start/stop, engine on/off indications, mute and restart come in any
  order; the session the framework asked for must be running once things settle, and aiding data
  whose deletion was requested must be deleted when the engine is off.
* **Queue, timer.**  FIFO without loss, wake-up without loss, orderly shutdown; at most one callback
  per timer.
* **Registry and QMI client.**  Adapters come and go while the `MsgTask` is inside `locClientOpen` and
  the QMI thread inside an error callback, with the callback data freed and allocated again between
  them.  Correct means: every adapter gets the events it asked for, one client calls back, and a lost
  service is noticed.
* **Message tables.**  A message passes six tables kept by hand.  Correct means: every request that was
  sent is answered, every event that was asked for is heard.
* **Data call.**  Allocation, profile search, DSI handle and call can each fail or be retried while DSI
  reports the last call.  Correct means: the one call that lives is the one that can be stopped.
* **Daemons.**  Requests, answers, losses and releases cross in four queues.  Correct means: what a
  daemon believes is what the NIF is.
* **Settings and files.**  An answer that comes too late ends the next request of that name, and the
  modem may restart between any two of them.  Correct means: what is reported as injected is in the
  modem, and a modem that restarted has its settings again.


## 2. Plan

The core comes first: the protocols in which several threads or processes hold a view of one
session.  The order is the order of what goes wrong most expensively.

| # | Module | Models | Composes with | Status |
|---|---|---|---|---|
| 1 | `AgpsStateMachine` | one NIF shared by ATL, BIT or WIFI clients | the connectivity service (external) | checked, proved |
| 2 | `NifContract` | what (1) promises its clients | implemented by (1), used by (3) | checked, proved |
| 3 | `DSStateMachine` | emergency data call, retry timer, fall-back | `NifContract` for agnss_nif, the data call (external) | checked, proved |
| 4 | `NiSession` | network-initiated requests, three kinds of thread | the user and the modem (external) | checked, proved |
| 5 | `SyncReq` | slots of blocking requests | the modem (external) | checked, proved |
| 6 | `FixSession` | fix session across framework, MsgTask, QMI thread and modem | the modem (external) | checked, proved |
| 7 | `MsgQ` | `linked_list`, `msg_q`, `MsgTask`: locks, condition variable, unblock, destroy | implements `Fifo`, which (3) and (6) rely on | checked, proved |
| 8 | `LocClient`, `LocApi` | opening, closing and loss of the QMI client; registry of adapters, event mask, restart | `LocApi` is built of `LocClient`'s steps; the loss of a modem in (6) | checked, proved |
| 9 | `QmiMessages` | every table a message passes between modem and caller | the requests of (5), the mask of (8) | checked, proved |
| 10 | `DataCall`, `DataCallContract` | profile search, session, DSI handle, start and stop of the data call | implements the call that (3) relies on | checked, proved |
| 11 | `DmnConn` | pipes, reader thread and daemons around a WIFI machine | extends (1) | checked, proved |
| 12 | `ModemCalls` | settings, XTRA files and other calls through timeouts, late answers and restarts | the requests of (5), the restart of (6) and (8) | checked, proved |
| 13 | `LocTimer` | one timer thread and its callers | the retry of (3) | left |
| 14 | `Camera` | the wrapper's array of parameter strings | the vendor's module (external) | left |

Abstract specifications: `NifContract` (what a NIF promises its clients), `Fifo` (the queue),
`DataCallContract` (what a started call reports); each has a detailed module that is shown to
implement it.

Every safety property a run checks is a theorem as well, except `RestartKeepsMode`, which the code
does not keep.  Worth stating next: an abstract session that `FixSession` implements, and the rows left
above, each with its own invariant.

## 3. The modules and the code

Every module has a `MC*` module and a `.cfg` per run.  Operators whose comment begins with
"Mutant:" are the same step with a plausible mistake; no specification uses them, they are there to
show that each property can fail.

Conventions common to all modules.  A handler that runs on the one `MsgTask` thread and touches
nothing another thread writes is one action.  Where another thread can come between two accesses,
the handler is cut there, and the program counter is a variable.  The modem, the framework, the
connectivity service and the data call are external: they do whatever the callers in `src/` allow
for.  Handles, payloads, APNs, and addresses are model values; log lines are left out.

### AgpsStateMachine, NifContract

`state`, `subs`, `inactive` are `mStatePtr`, the list `mSubscribers` and the `mIsInactive` marks.
`phase[c]` is what a client was last told through `notifyRsrcStatus`; it is the only thing a client
can act upon.  `cmds` are the calls of `agps_status_cb` that the connectivity service has not
handled yet, `events` its answers as `LocMsg`s; neither carries a number, as in the code.

| Action | Code |
|---|---|
| `Subscribe`, `RefuseSecond` | `AgpsStateMachine::subscribeRsrc` and `RSRC_SUBSCRIBE` in the four states |
| `Unsubscribe`, `AfterUnsubscribe` | `unsubscribeRsrc` and `RSRC_UNSUBSCRIBE` in the four states |
| `PendingGranted`, `PendingDenied`, `AcquiredReleased`, `ReleasingDone`, `IgnoreEvent` | the other events in the four states |
| `SendRsrcRequest`, `Tell` | `sendRsrcRequest` with its search for active subscribers, `notifySubscribers` |
| `EngineRestart` | `dropAllSubscribers` in `loc_eng_handle_engine_up` |
| `NifRequest`, `NifRelease`, `NifAnswer`, `NifLost` | external |

The order of the list is abstracted to a set: the code only searches it for a client, for any
active one, or walks all of it, and the clients of one walk are told in one step.  `NifContract`
keeps `held` and `phase` only.  The refinement mapping is `held <- (state = "acquired")`.

### DSStateMachine

The subclass that gets its NIF by a data call, with the FIFO of the `MsgTask` explicit (`msgs`),
because the retry of `retryCallback`, the fall-back of `DSSubscriber`'s `RSRC_DENIED` and the
events of the data call all come through it.  `agnss_nif` is an instance of `NifContract`
(`held`, `atl`); so what is shown here does not depend on how that machine works, only on its
contract.  `conn[c]` is the modem's view, which `atlOpenStatus` and `atlCloseStatus` write.

| Action | Code |
|---|---|
| `SubscribeReleased`, `SubscribeWaiting`, `SubscribeAcquired` | `LocEngRequestSuplEs`, `subscribeRsrc` |
| `StartDataCall`, `RetryLater`, `GiveUp` | `DSStateMachine::sendRsrcRequest`, `LocApiV02::openAndStartDataCall` |
| `RetryCallback` | `delay_callback`, `retryCallback`, on the timer's thread |
| `ReleaseFromAgnss`, `ReleaseFromDs`, `ReleaseUnknown` | `LocEngReleaseATL`: agnss_nif is asked first, then ds_nif |
| `OpenedPending`, `ClosedPending`, `ClosedAcquired`, `ClosedReleasing`, `IgnoreEvent` | `DSStateMachine::onRsrcEvent`, `informStatus` |
| `RequestATL`, `AgnssAnswers`, `AgnssLost` | `LocEngRequestATL` that `informStatus` posts to agnss_nif, and what that machine tells its clients |
| `EngineRestart` | only agnss_nif is flushed |
| `ModemRequest`, `ModemRelease`, `CallUp`, `CallGone` | external |

`retryCallback` searches the list without a lock while the `MsgTask` changes it.  The model makes
the search one step; a node that is freed under it is undefined behaviour that is listed as a
hazard and not modelled.

### NiSession

`rawRequest`, `reqID`, `respRecvd`, `resp` and `respTimeLeft` are the fields of the session record.
`tLock` guards only two of them, so the `MsgTask` (`task`), each `ni_thread_proc` (`thread[r]`) and
the framework's calls (`calls`) have program counters, and a step is what one of them does up to
the next unlocked use of a shared field.  `msg[r]` is the `LocEngInformNiResponse` a thread built,
`freed` the requests that were given to `free` or deleted with a message.  The ghost variable
`restarted` says whether `loc_eng_ni_reset_on_engine_restart` found a request in session: it frees
the request without the lock, and after that ownership cannot be guaranteed.

### SyncReq

`slots[s]` is a `loc_sync_req_data_s_type`, `slot_in_use` and `in_use` the fields of
`loc_sync_array`.  One step is what a thread does under one lock: `AllocSlot` or `BufferFull`,
`FillSlot` (`loc_sync_select_ind`), `SendReq` or `SendReqFails`, `AnsweredBefore` or `Wait`,
`Woken`, `WokenOddly` (a wake without a signal) or `TimedOut`, `FreeSlot`.
`loc_sync_process_ind` is `IndTaken` and `IndDropped`; it holds `loc_sync_call_mutex` throughout,
so the scan over the slots is one step.  `air` holds the answers on their way, in any order.
`call` and `got` are numbers the code does not have: they tell whose answer a caller got, and
`disturbed` is set for an indication that two calls wait for at once or a call gave up.  A send that
fails may have reached the modem all the same (`MayBeTaken`: `locClientSendReq` waits one second for
the acknowledgement); then its answer comes to whoever waits next, and the indication is disturbed too.
All calls use the one client handle of `LocApiV02` and pass a buffer, as every caller in `src/` does.
A slot somebody waits in matches until its thread has woken (`loc_api_sync_req.c:209`), so when two
calls wait for one indication and both answers come before the first woke, the first one is given
both; that is why `AnswerIsOwn` leaves such indications out.

### FixSession

`fix` is the session as three parties see it: `navigating`, `mode` and `recurrence` in the adapter
(`LocEngAdapter::setInSession`, `mFixCriteria`), `inSession` in `LocApiV02`, and `registered`,
`tracking`, `operation` in the modem; `kept` is the client's own copy of the mask, which lets the
reports through.  Every request has an outcome of its own (`Replies`, `Starts`): it succeeds, it
is taken but acknowledged too late, so that the code believes it failed, or it is turned down or lost;
a start may also end between its two requests.  What the modem takes it takes at once.  `failed` and
`missed` are history: the last start or stop, and the last registration, that did not succeed on a
running modem.  `cb` and `msgs` are the posts of the QMI thread and the
queue, so that indications of an earlier session arrive in a later one.

| Action | Code |
|---|---|
| `Request` | `loc_eng_start`, `_stop`, `_set_position_mode`, `_delete_aiding_data`, `_mute_one_session`: each posts a message |
| `StartHandler`, `StopHandler`, `PositionMode`, `DeleteAidingData`, `MuteOneSession` | the `proc` of those messages, down to `LocApiV02::startFix` and `stopFix` |
| `ReportPosition`, `ReportedStatus`, `UpdateEngineState` | `LocEngReportPosition`, `LocEngReportStatus`, `MsgUpdateEngineState` |
| `EngineDown`, `Reopen`, `EngineUp` | `LocEngDown`, `LocSsrMsg`, `LocEngUp` |
| `Post`, `ErrorCb` | `reportEngineState`, `errorCb` on the QMI callback thread |
| `EngineTurns`, `Position`, `Crash`, `Recover` | the modem (external) |

Left out: the settings that `loc_eng_reinit` sends again (`ModemCalls`), the fix session status that is
written and never read, the ULP proxy (its default implementation returns false), and `loc_eng_cleanup`
beyond the stop it posts, since the rest of it is compiled out.

### MsgQ, Fifo

`p_head`, `p_tail`, `next` and `prev` are the pointers of `linked_list.c`; an element is named after
the message in it, and the pointers of one that was freed are `FREE`.  `unblocked` is the flag of
`msg_q`, `loop` the place of `loopMain`, `msg` the message its `proc` has in hand.  One step is what
a thread does with `list_mutex` held.  `order` is what the pointers should stand for and the code
does not have; `ListShape` ties the two together, and `Fifo` speaks of `order`, `~unblocked` and
`msg` only.

| Action | Code |
|---|---|
| `Send`, `SendRefused` | `MsgTask::sendMsg`, `msg_q_snd`, `linked_list_add` |
| `ReceiveTakes`, `ReceiveWaits`, `ReceiveRefused`, `ReceiveFails` | `msg_q_rcv` before and after its wait, `linked_list_remove` |
| `WakesOddly` | `pthread_cond_wait` returns without a signal |
| `Proc`, `Destroy` | `loopMain`: the handler, and `msg_q_destroy` after a failed receive |
| `Unblock` | `~MsgTask`, `msg_q_unblock` |

No caller in `src/` deletes a `MsgTask`; the model lets it happen (`Deleted`), because the queue and
the loop provide for it, but lets nobody send to a queue that was freed.

### LocClient, LocApi

`data[a]` is the `locClientCallbackDataType` at address `a` and reads as zeros when freed; `conn` and
`reg` are QCCI's and the modem's side of a handle, `rx` the place of QCCI's thread in
`locClientErrorCb`.  `slots` is `mLocAdapters`, `mMask` and `handle` the fields of `LocApiV02`, `task`
the place of the `MsgTask` in `LocApiV02::open`.

| Action | Code |
|---|---|
| `AddAdapter`, `RemoveAdapter` | `LocApiBase::addAdapter`, `removeAdapter` with its shift of the last slot |
| `TakeOpen`, `TakeSsr` | `LocOpenMsg`, `LocSsrMsg`: close, and open with the mask of all adapters |
| `Connect`, `Register`, `Keep`, `Opened` and their failures | `locClientOpen` up to the handle (`CtrlPointInit`), the mask sent, the mask kept, the callbacks filled in |
| `Updated`, `UpdateFailed` | `registerEventMask` on an open client |
| `RxError`, `RxErrorCopy`, `Callback` | `locClientErrorCb` and `LocApiV02::errorCb`: the data is looked at, copied, used |
| `ServiceLost`, `ServiceBack` | external |

`ConnectFailed` leaves nothing behind, or, when QCCI refuses the error callback of a client it has
initialised, that client (`CtrlPointLeft`), with the address of callback data that is freed.  It has no
error callback (`watched`) and no events (`reg`), so `OneListener` asks of the clients QCCI may call
back (`Called`) that their callback data is the one in use; section 6 names the client left behind.

Assumed: `qmi_client_release` does not fail (a client it does not release stays alive and registered);
freed callback data reads as zeros until `calloc` gives its address out again; adapters are created
and destroyed one at a time, the last one not while the `MsgTask` is inside `locClientOpen`.  Nothing
in `src/` deletes an adapter (the `delete` at `loc_eng.cpp:1653` is compiled out); the registry
provides for it, so the model lets it happen.

### QmiMessages

The tables are sets of names: events and answers the client knows, indications it handles, requests it
lets through, the bits an adapter asks with, the bits that reach the modem, the cases of `eventCb`.  A
message goes through all of them: `Open`, `Register`, `Keep`, `SendSync`, `Answered` on the
`MsgTask`, `Report` and `ModemAnswers` in the modem, `Deliver` on QCCI's thread.  Sizes of messages
and `locClientSupportMsgCheck` are left out.

### DataCall, DataCallContract

`task` is the place of the `MsgTask` in `openAndStartDataCall`, `handle` is `dsClientHandle`, `net`
and `owner` tie a session and its DSI handle to each other, `nif` is what is left of `DSStateMachine`:
it makes the calls in the order its states do.

| Action | Code |
|---|---|
| `Request`, `GetProfileList`, `Search`, `SearchFailed` | `ds_client_open_call` up to a profile that supports emergency calls |
| `OpenSession`, `StartCall` | the rest of `ds_client_open_call`, `ds_client_start_call` |
| `StopCall`, `TakeOpened`, `TakeClosed` | `ds_client_stop_call`, and `ds_client_close_call` when the event has come through the queue |
| `CallUp`, `CallGone` | `net_ev_cb` on DSI's thread |

The refinement mapping into `DataCallContract` is the call on the DSI handle of `dsClientHandle`, and
the queue for the events.  `DSStateMachine` takes a data call of that behaviour for granted.

### DmnConn

Extends `AgpsStateMachine` with what is before and behind it: the daemons (`view`), the pipe to the
reader thread (`pipe`, `listening`), what that thread has posted (`posted`), and a pipe per daemon
(`answers`).  `Serve` is `loc_eng_dmn_conn_loc_api_server_proc`, `ProcRequest` and `ProcRelease` are
`LocEngReqRelWifi::proc`, and `ReplyTo` puts what `notifyRsrcStatus` says into the daemon's pipe.
A daemon is external: it asks when it has nothing and leaves what it has or has asked for.

### ModemCalls

`task` is the call the `MsgTask` is in: its part of a file, `len_injected`, its result, and as history
what the modem took of it.  `asked` are the requests the modem has and has not answered, `conf` what it
was told since it started, `msgs`, `lost` and `cb` the queue and the two posts of `errorCb`.

| Action | Code |
|---|---|
| `Post` | the entries of `loc.cpp` that post a call or a file |
| `LocEngInit`, `LocEngUp` | `loc_eng_reinit`, at the start and after a restart |
| `Open` | `LocOpenMsg`, `LocSsrMsg` |
| `Begin` | a message's `proc`, down to the first request of the call in `LocApiV02` |
| `Return` | the call returns to the message's `proc` (`loc_eng.cpp:313-667`), which drops the result |
| `Send`, `SendFails`, `TimedOut`, `WokenOddly` | `loc_sync_send_req` |
| `Accepted`, `Granted` | what a call makes of an answer; in `setXtraData`, the next part |
| `Answer`, `Crash`, `Recover` | the modem (external) |

A request is its indication and a word for its contents: three settings share
`SET_PROTOCOL_CONFIG_PARAMETERS`, two calls `SET_SERVER`, two
`INFORM_LOCATION_SERVER_CONN_STATUS`, so a late answer of one ends the other.  Which arguments a call
turns down before it sends anything is left open (`Checking`).  `enableData` is `LocApiBase`'s
default, which does nothing.

## 4. Runs

| Run | Module | Instance | Shows |
|---|---|---|---|
| `agps_atl` | `MCAgps` | 3 clients that do not wait, restarts | safety of the shared NIF, that it implements `NifContract`, that every request is answered |
| `ds_safety` | `MCDs` | 2 handles, 2 retries, 2 timers, queue of 2, failing stops, restarts | the data call is owned, never doubled, releases are answered |
| `ni_safety` | `MCNi` | 2 requests, 3 answers, restarts | session, ownership and answers |
| `sync_safety` | `MCSync` | 3 threads, 2 slots, 2 indications, 3 calls | slots, waits and answers |
| `fix_session` | `MCFix` | 3 requests, 2 modem events, 1 restart of the modem | the session and who knows of it, whatever becomes of its requests |
| `msg_queue` | `MCMsgQ` | 4 messages, a task that may be deleted | the list, the wake-ups, that it implements `Fifo`, that accepted messages are handled |
| `loc_api` | `MCLocApi` | 2 adapters with different masks, an excluded event, 2 addresses, 2 handles, 1 client left in QCCI | the registry, the one client, the mask, that a loss is noticed |
| `qmi_messages` | `MCQmi` | the two masks of `loc_eng`, every event and request, 2 messages on the wire | no table loses an answer or an event |
| `data_call` | `MCDataCall` | all lists of up to 2 profiles, 3 sessions, 2 DSI handles, queue of 3 | the one call that lives is ours; implements `DataCallContract` |
| `dmn_wifi` | `MCDmn` | 2 daemons, pipes of 3 and 2, queues of 3 | daemons' view of wifi_nif, stale answers, every request is answered |
| `modem_calls` | `MCModem` | 2 calls or files, 1 refusal, 1 restart, files of 2 and 3 parts | settings after a restart, whole files |
| `fix_mode_lost` | `MCFix` | 2 modes | violates `RestartKeepsMode` |

The last one states what a comment of the code says and finds that the code does otherwise; section 6
describes it.

**Bounds, and why they are enough.**  Three clients are one that stays, one that leaves and one that
comes meanwhile; there is no code that counts clients.  `MaxCmds = MaxEvents = 4` lets the answers
of two complete request/release rounds be on their way while a third begins; the code keeps no more
than one round in mind.  `MaxMsgs = 2` in `ds_safety` bounds the queue only when another thread
posts; a handler may leave one fall-back per client on top, so a retry, a fall-back and an event of
the call can be queued together.  `MAX_START_DATA_CALL_RETRIES` is 2 instead of the code's 4:
passing it takes one retry that is not the last and one that is.  Two NI requests suffice for every
overlap because a third one meets the same record in the same states; the theorems hold for any
number.  `sync_safety` has fewer slots than threads, so that the table is full at times and a slot
changes hands; with three calls a call gives up, a second one gets its late answer, and a third one
the answer of the second. `fix_session` needs a start, a stop and a start, an engine-off of the
first session that arrives in the second, and one loss of the modem at every point in between; any
of its requests may fail in any of the ways above, without a bound; its `MaxMsgs = 2` makes the
framework wait while two messages are queued, the QMI thread posts without it.  Four messages in
`msg_queue` give a list with a first, a last and two inner elements, and one that is emptied and
filled again; the theorems about it hold for any number. `loc_api` has one address and one handle
more than the code uses at a time, so that a new client can get a freed address or a new one while
an old callback runs (`MaxLeft = 1` lets a client that was left behind keep the other handle from
then on); the registry has two slots, the first, which a removal fills from the last, and the last.
`qmi_messages` has the real tables, so only the wire is bounded: two messages are what it takes for
a report to overtake a mask.  `data_call` has a third session because the retry allocates over the
one before.  `modem_calls` has parts of two bytes and a counter that wraps at four, so that three
bytes have a short last part and five wrap around; two calls are one whose answer comes too late and
one it comes to.

`AgpsStateMachine` describes both kinds of client; `MCAgps` is ATL clients, for which `RefuseSecond`
and the Releasing state cannot happen, and says so by its own next-state relation and an assumption.
`MCDmn` is the other kind, through the module that extends it.

**Symmetry** is used in `sync_safety` only, which has no liveness property: threads and
indications are interchangeable, slots are not (the search starts at the lowest).

**Deadlock** is checked for `agps_atl`, `ds_safety`, `loc_api`, `qmi_messages` and `dmn_wifi`, whose
clients may always ask again.  The other systems really come to rest: requests, calls and events are
counted by a bound, and when all are used and worked off, nothing is left to do; the worker of
`msg_queue` then sleeps or is gone.  `data_call` rests when the machine waits for a call that no
longer exists, which `loc_eng_agps.cpp:562` allows (section 6).

**Fairness.**  `AgpsStateMachine`: the `MsgTask` drains its queue (its loop never stops), and the
connectivity service handles what it was asked and ends an opening; clients, losses and
restarts are free.  `DSStateMachine`: the `MsgTask` only; no promise of the modem, the timer or the
data call is needed to answer a release.  `NiSession`: every thread goes on, a wait ends at the latest by its timeout
(`pthread_cond_timedwait`); users and modem are free.  `FixSession`: the `MsgTask`, the QMI
callback thread's posts and its error callback; the modem need not come back, which is why
`RestartFollowed` allows the session to end.  `MsgQ`: the
worker's thread goes on whenever it can; nobody has to send, no wake-up comes by itself.
`SyncReq` states no liveness: its waits end by a
timeout or an answer, and there is nothing to wait for after that.  `LocApi`: the `MsgTask`, whose
waits in `locClientOpen` end, and QCCI's thread; the service need not come back.  `QmiMessages`: the
threads, and strongly the modem's answer to what it acknowledged, since it reports events meanwhile.
`DmnConn`: the reader thread, the `MsgTask`, the connectivity service as above, and daemons that read
their pipe; they need not ask or leave.  `ModemCalls`: the `MsgTask`, whose waits time out, and the QMI
callback thread; neither the modem nor the framework.

## 5. Proofs

The proof modules are checked by TLAPS for every value of the constants that meets the named
assumptions (`KindAssumption`, `BoundAssumption`, `LeftAssumption`, `ClientAssumption`,
`SizeAssumption`, `BoundsAssumption`, `MsgAssumption`, `DataCallAssumption`, `NoneAssumption`,
`LocApiAssumption`, `MasksAssumption`, `DaemonAssumption`, `CallsAssumption`): they bound nothing,
they say that bounds are numbers, that special values are not ordinary ones and that the sets are of
the kind they are used as.  Each theorem follows the same argument: an inductive invariant, one step
per action of `Next`, PTL at the end.

* **AgpsStateMachine**: `IInv`.  `ClientBacked` alone is not inductive, because whether a client
  may be told "open" depends on who else is on the list: `InactiveOnlyReleasing` (inactive
  subscribers exist in Releasing only, and then all are inactive, because a machine whose
  clients wait serves one at a time), `PhaseOfSubscriber` and `PhaseOfOthers` fix the phase of
  each client by the state.  From it: `TypeCorrect`, `ReleasedListEmpty`, `ClientsBacked`,
  `NoStaleSubscribers`, and `MachineImplementsContract`, which maps each handler to the step of
  `NifContract` it is; `ContractConsistent` is about the contract itself.
  Two more invariants speak of the queues to and from the connectivity service.  `HeldInv`: a grant on
  its way is of a connection that is open, or the loss of it is queued behind (`GrantsAreHeld`); from
  it `AcquiredAlwaysReal`.  `WaitInv`: the last command of a machine that waits is the one whose
  answer ends the wait, or that answer is already there; from it `AnswersAlwaysOutstanding`, however
  many earlier commands are unanswered.
* **DSStateMachine**: `CallInv`.  That Released has no call needs to know which events can still be
  in the queue: at most one OPENED and one CLOSED, in this order (`EventsInOrder`), and only after
  the call came that far (`EventsOfCall`).  From it: `CallAlwaysOwned`, `AcquiredAlwaysReal`,
  `NeverTwoCalls` (an action property), `TypeCorrect`, and by themselves `RetriesStayBounded` and
  `SubscribersAlwaysFit`.
* **NiSession**: `SessionInv` (the request in session is the newest one or has a live thread, it is in no message
  yet, and no two messages hold one request) and `OwnerInv` (the same of the memory, until the first restart).
  From them: `SessionAlwaysHasThread`, `NeverAnsweredTwice`, `AlwaysOneOwner`, `TypeCorrect`.  That an
  answer is used once is counted: the requests answered with it, and the one more while it lies in
  `resp` unread, are not more than the times the user gave it (`AnswersFit`, with `Cardinality`); a
  thread that takes it moves one from the second to the first.  From it: `AnswersUsedOnce`.
* **SyncReq**: `SlotInv` (a slot in use is what its caller made of it, one that is not is reset), and on
  top `AnswerInv` (calls and answers are numbered apart; the answer of an undisturbed indication has
  a call that waits for it; `AnswersAreOwn` says nothing of an indication for which a call gave up, two
  overlapped or a failed send reached the modem).  From them: `SlotsHaveCallers`, `InUseAlwaysFits`,
  `WaitsNeverRefused`, `AnswersAreOwn`, `AnswersTakenOnce`, `SuccessesAreAnswered`, `TypeCorrect`.
* **FixSession**: `FixInv` with `SsrFollowed`.  What a request does is a lemma per operator, for
  every outcome (`RegisterIs`, `StartFixIs`, `StopFixIs`); the excuses `failed` and `missed` are set
  by the very steps that leave adapter and modem apart, and without a modem there is nothing to
  excuse.  A session without tracking is excused while a restart is due; that the restart is not
  lost needs the order of the queue: the `LocSsrMsg` that cuts the modem off has a `LocEngUp` behind
  it.  From them: `NeverPhantom`, `NeverOrphan`, `NavigatingAlwaysTold`, `SessionsAlwaysReported`,
  `TypeCorrect`.  Both are in the proof module; the properties they imply are what the runs check.

* **MsgQ**: `QueueInv`, that is `ListShape` with what it takes: a message is in one place and queued
  once (`MessagesFit`), so that the pointers of an element are written by its own steps only; and
  `EndsWhenTold`, without which the loss of the queue at the end of the thread would not be a step of
  `Fifo`.  From it: `ListAlwaysShaped`, `WakeupsNotLost`, `LoopEndsWhenTold`, and `QueueIsFifo`, which
  maps each step to the step of `Fifo` it is or to a stutter.  The assumption is `MsgAssumption`: the
  names of no element and of a freed one are not messages.
* **DataCall**: `CallInv` of its own.  The one live call is ours because nothing is left of a call, nor of
  its events, when the next is opened (`Quiet`); that in turn needs which events can be queued
  (`EventsFit`: the end of a call is the last of them, and then no call lives) and that the open comes to
  its start with the session it made (`StartFits`).  From it: `CallsAlwaysOurs`, `CallbacksAlwaysLive`,
  `TypeCorrect`, and `CallImplementsContract`, where the steps of an open are stutters, since no call
  lives meanwhile, and each report of DSI's thread is of the call the mapping looks at.  The assumption is
  `DataCallAssumption`: NULL is neither a session nor a handle.
* **LocApi**: `ApiInv`.  `EveryAdapterServed` speaks of an empty queue; the invariant says for every
  state how each adapter gets its events (`CoverInv`): they are registered, the `MsgTask` is about
  to register them, or a message is queued that will.  It rests on where the `MsgTask` is in an open
  (`OpenInv`), what modem, client and LocApi have for a mask there (`MaskInv`), that the array of
  adapters has no gap (`RegistryInv`) and that the one client QCCI may call back is that of
  `clientHandle` (`ClientInv`, which a client left behind respects: it has no events and no error
  callback).  From it: `AdaptersAlwaysServed`, `AlwaysOneListener`, `MaskAlwaysHonest`,
  `TypeCorrect`, for any number of adapters, addresses and handles and any masks.
* **QmiMessages** (in `SyncReqProofs`): `MessageInv`.  `TablesAgree` compares the tables entry by entry:
  what a bit below 9 stands for is known, handled and has a case, and an answer to a request of
  `LocApiV02` is taken for no event.  From it, with the client's copy of the mask (`MaskKept`):
  `NeededAlwaysHeard` (an action property) and `AnswersAlwaysDue`, the safe half of `SyncReqEnds`: the
  answer that is waited for is owed, on its way or in the slot.
* **DmnConn** (in `AgpsStateMachineProofs`): every step of `DmnConn` is a step of `AgpsStateMachine`
  or leaves the machine alone, so `IInv` and `HeldInv` hold of it too.  On top, `DaemonInv`: what a daemon has
  on its way to the `MsgTask`, in the pipe or posted, asks for one of six words, and with its view,
  its subscription and what is in its own pipe only the combinations of `Stands` occur; the release
  that crosses the loss of what it had is why three messages can be under way.  From it:
  `ViewsAreTrue`, `AnswersNeverStale`, `DaemonsTyped`, and `AnswersAreFew`: a pipe with room for two
  answers never stops the `MsgTask`.  The theorems hold for either kind of subscriber; the run is of
  the WIFI kind (`WifiAssumption`).
* **ModemCalls** (in `MsgTaskProofs`): `ConfInv` for the settings and `CallInv` for what a call reports.
  A setting a running modem lacks is queued, under way or due to be queued (`SettingsInv`), which
  needs that `LocOpenMsg` and `LocSsrMsg` have the message behind them that sends the settings
  again (`OrderInv`) and that no late answer to a setting is taken for another's (`RequestInv`).  For a
  file, `Stands` counts: `o` requests older than the call come first, then the parts the modem has
  not answered, in order; a call is never further ahead of the modem than it was owed late answers when it
  began.  From them: `ConfigAlwaysRestored`, `SuccessAlwaysEarned`, `ModemTypeCorrect`, for any
  files, part lengths, calls and counts of restarts and refusals.

**Model-checked only.**  Liveness (`RequestAnswered`, `ReleaseAnswered`, `SessionEnds`,
`RestartFollowed`, `MessageHandled`, `LossNoticed`, `SyncReqEnds`, `DaemonAnswered`,
`RestartConfigures`), which the prover does not do under fairness.  `RestartKeepsMode` is refuted.

**Proved only.**  `NavigatingIsTold`, `SubscribersFitState`, `RetriesBounded`, `InUseFits`,
`WaitNeverRefused`, `NoLostWakeup`, `AnswerDue`, `FewAnswers` and the types are invariants that no run
lists: the theorems hold for every instance.

## 6. Where the code disagrees with its comments, or with itself

Shown by a run:

* `fix_mode_lost`: the restart after the modem's return sets the mode to invalid before it uses it
  (`loc_eng.cpp:2546`, `LocEngAdapter.cpp:186`), and the session goes on in standalone mode.

Met while modelling.  The models behave as the code does; the properties leave these cases out, and
say so where they do.

* Answers of the connectivity service are not numbered.  When a client leaves and another one comes
  before the first request was answered, that answer serves the second; the second answer then finds
  the machine in Released, is ignored (`loc_eng_agps.cpp:296`), and the NIF stays open for nobody.
* Released tells a subscriber of `DSStateMachine` that it is unsubscribed and leaves it on the list
  (`loc_eng_agps.cpp:286`), which is not empty during a retry or a fall-back; the modem is told "open"
  for a handle it has closed.
* The data call that cannot be set up again on the way from Releasing to Pending is waited for in
  Pending (`loc_eng_agps.cpp:562`).  A stop that fails is dropped as well, though the comment at 873
  says that it always succeeds.
* A STOP that fails on a running modem, or is acknowledged too late, ends the session of the adapter all
  the same (`loc_eng.cpp:1753`); the modem tracks on, and the framework's next stop is not sent, since there
  is no session (1750).  `NoOrphanSession` excuses it by `failed`.
* `startFix` does not look at what became of the registration of its reports (`LocApiV02.cpp:292`): a
  session can run unreported (`missed`).  A start that fails after the mode was set leaves the modem
  with the new mode, and one that is acknowledged too late leaves it tracking for nobody.
* A request whose acknowledgement comes after a second counts as failed (`loc_api_v02_client.c:2361`),
  though the modem has it; its answer ends the next call for the same indication.
* When QCCI refuses the error callback, its client is never released and keeps the address of callback
  data that was freed (`loc_api_v02_client.c:2010-2020`, 2106-2112); nothing is sent on it.
* An answer of the user is checked against the id before the lock and stored after it
  (`loc_eng_ni.cpp:347`), so one that comes with the timeout (219) decides the next request.
* A second deletion of aiding data overwrites the first one that waits for the engine to turn off
  (`loc_eng.cpp:1255`, against the comment at 1899).
* A loss of the service between `locClientOpenInstance` and the filling in of the callbacks
  (`loc_api_v02_client.c:2141`) is dropped; `LocApiV02.cpp:2493` relies on being told.
* `LocApiBase.cpp:197` asks for a smaller mask when an adapter leaves; `LocApiV02::open` only adds bits.
* `convertMask` tests the mask from REQUEST_WIFI on against plain indices instead of their bits
  (`LocApiV02.cpp:1714`; the bits are defined at `gps_extended_c.h:328`): index 9 is bits 0 and 3, so
  events nobody asked for are registered.  The bits of `loc_eng` are converted right (`NeededIsHeard`).
* Two entries of the event table are in the table of answers too, with another size, and seven answers
  have no case in `locClientHandleIndication`; nobody requests them.
* `openAndStartDataCall` stores a new session over the one of the failed attempt (`ds_client.c:660`):
  memory is lost on every retry, and a DSI handle when the call is closed before it was up, so that in
  the end there are none left and every attempt is told to retry later.
* The pipes of the daemons are opened O_RDWR, so a full pipe of a daemon that does not read stops the
  `MsgTask` (`loc_eng_dmn_conn_glue_pipe.c:141`).  `loc_eng_dmn_conn_thread_helper.c` waits with `if`,
  not `while`, and for ever when its thread cannot be created.  A daemon that restarts finds answers to
  its predecessor, whose subscription refuses the other daemons.
* Servers that `loc_eng_set_server_proxy` buffers before the engine is there are wiped by the `memset`
  of `loc_eng_init`, though the comments at `loc_eng.cpp:2034` and 2342 say they are sent later; those
  set afterwards are not kept and not sent again after a restart of the modem.
* A setting whose request fails is not sent again (`ConfigRestored` names this), and what a call
  returns is dropped by its message.
* `setXtraData` counts injected bytes in 16 bits and parts in 8 (`LocApiV02.cpp:1059`): a file beyond
  64 KB is continued from its beginning and reported as injected.  Five calls (`Unfilled`) read an
  indication that nobody has set when their wait ends unanswered.
* The timer's `loc_timer_stop` has no caller, and `loc_eng_agps.cpp:885` takes a handle that is there
  for a failure to start one.

## 7. What is not modelled

* The generated descriptions of the QMI messages (`location_service_v02.c`, `.h`): 15 000 lines, more
  than a third of the repository's C, are structures and encoding tables without a step in them.  The names of the
  messages in `QmiMessages` are theirs.
* The timer (`loc_timer.c`): its one user is in `DSStateMachine`, where the callback may come at any
  time after the start.
* Conversions of reports in `LocApiV02` (positions, satellites, NI requests, errors), NMEA sentences,
  parsing of configuration files, logging and tables of names: functions of one message or file.
* Of `loc.cpp`: wake locks, the table of interfaces, and `local_loc_cb`, which tests a callback that
  `loc_cleanup` may clear before it is called.
* Contexts and proxies (`ContextBase`, `LocDualContext`): made once and never deleted.
* Camera wrapper: forwards calls; its array of parameters has the hazard listed for it.
* Init helpers, dtbtool, CancroParts, build files and configuration: sequential programs and data.
* Of the queue: `linked_list_search` (it serves the subscriber lists, which are sets in their models)
  and `msg_q_flush`, which has no caller.
* Failures of `malloc` and of `pthread_create`, except where a module names them.
