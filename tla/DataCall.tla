------------------------------ MODULE DataCall ------------------------------
(***************************************************************************)
(* The data call behind DSStateMachine: ds_client.c and the four functions *)
(* of LocApiV02 that use it.  openAndStartDataCall searches the modem's    *)
(* profiles for one that supports emergency calls, allocates a session,    *)
(* gets a data-services (DSI) handle and starts the call on it; the thread *)
(* of DSI (external) reports that the call is up or gone.                  *)
(*                                                                         *)
(* The MsgTask makes the calls, in the order in which the states of        *)
(* DSStateMachine make them; its subscribers are left out, their effect on *)
(* the state is `nif'.  What openAndStartDataCall does is a sequence of    *)
(* steps, since the modem and DSI go on meanwhile.                         *)
(***************************************************************************)
EXTENDS Naturals, Sequences, FiniteSets

CONSTANTS
    Session,      \* addresses of ds_client_session_data
    Dsi,          \* the handles dsi_get_data_srvc_hndl can give out
    ProfileLists, \* the lists of profiles a modem may have
    None,         \* NULL
    MaxMsgs       \* bound: events the MsgTask has not taken

(* The settings of a profile, as far as they are in the response.          *)
Settings ==
    [emergency : {"absent", "no", "yes"},
     pdp : {"absent", "ipv4", "ipv6", "ipv4v6", "ppp"}]

ASSUME DataCallAssumption ==
    /\ None \notin Session \cup Dsi
    /\ ProfileLists \subseteq Seq(Settings)
    /\ MaxMsgs \in Nat

VARIABLES
    nif,      \* the state of DSStateMachine
    msgs,     \* the events of the call in the MsgTask's queue
    task,     \* where the MsgTask is in openAndStartDataCall
    handle,   \* dsClientHandle
    net,      \* dsi_net_handle of each session
    owner,    \* the session an open DSI handle calls back with
    calls     \* the call on each DSI handle

vars == <<nif, msgs, task, handle, net, owner, calls>>

Ready   == [pc |-> "idle"]
Opening == [pc |-> "init"]
Cleared == [emergency |-> "absent", pdp |-> "absent"]

Init ==
    /\ nif = "released"
    /\ msgs = <<>>
    /\ task = Ready
    /\ handle = None
    /\ net   = [s \in Session |-> None]
    /\ owner = [d \in Dsi |-> None]
    /\ calls = [d \in Dsi |-> "none"]

Ips == {"4", "6", "4_6"}

TypeOK ==
    /\ nif \in {"released", "pending", "acquired", "releasing"}
    /\ msgs \in Seq({"opened", "closed"})
    /\ \/ task \in {Ready, Opening}
       \/ task \in [pc : {"search", "release", "start"}, list : Seq(Settings),
                    i : Nat, mem : Settings, ip : Ips]
    /\ handle \in Session \cup {None}
    /\ net \in [Session -> Dsi \cup {None}]
    /\ owner \in [Dsi -> Session \cup {None}]
    /\ calls \in [Dsi -> {"none", "starting", "up", "stopping"}]

-----------------------------------------------------------------------------
(* ds_client_open_call.                                                    *)

(* ds_client_get_profile_settings: the response is decoded into the same   *)
(* structure each time; what it does not carry stays as it was.            *)
Decoded(mem, s) ==
    [emergency |-> IF s.emergency = "absent" THEN mem.emergency ELSE s.emergency,
     pdp       |-> IF s.pdp = "absent" THEN mem.pdp ELSE s.pdp]

(* The IP version for a PDP type; IPv4 is the default of both defaults.    *)
IpVersion(pdp) ==
    IF pdp = "ipv6" THEN "6" ELSE IF pdp = "ipv4v6" THEN "4_6" ELSE "4"

At(pc) == task.pc = pc

(* openAndStartDataCall returns: on success DSStateMachine moves to        *)
(* Pending, in Releasing it does so without looking (AgpsReleasingState).  *)
Return(ok) ==
    /\ task' = Ready
    /\ nif' = IF ok \/ nif = "releasing" THEN "pending" ELSE "released"

(* The profiles are read once the WDS service was found.                   *)
GetProfileList ==
    /\ At("init")
    /\ \/ \E l \in ProfileLists :
             task' = [pc |-> "search", list |-> l, i |-> 1, mem |-> Cleared, ip |-> "4"]
          /\ UNCHANGED nif
       \/ Return(FALSE)
    /\ UNCHANGED <<msgs, handle, net, owner, calls>>

(* One round of the loop: the first profile whose settings say that it     *)
(* supports emergency calls ends it; "it is important to clear out the     *)
(* memory to avoid values/flags from being carried over".                  *)
Search ==
    /\ At("search") /\ task.i <= Len(task.list)
    /\ LET mem == Decoded(task.mem, task.list[task.i]) IN
         IF mem.emergency = "yes"
           THEN task' = [task EXCEPT !.pc = "release", !.ip = IpVersion(mem.pdp)]
           ELSE task' = [task EXCEPT !.i = @ + 1, !.mem = Cleared]
    /\ UNCHANGED <<nif, msgs, handle, net, owner, calls>>

(* The settings of a profile cannot be read, or no profile was found.      *)
SearchFailed ==
    /\ At("search")
    /\ Return(FALSE)
    /\ UNCHANGED <<msgs, handle, net, owner, calls>>

(* A session is allocated at s, over whatever dsClientHandle pointed to,   *)
(* and a DSI handle asked for: without one, "Retry Later".  The WDS client *)
(* that could not be released fails the open although it has both.         *)
OpenSession(s) ==
    /\ At("release")
    /\ s # handle /\ \A d \in Dsi : owner[d] # s
    /\ handle' = s
    /\ \/ \E d \in Dsi :
             /\ owner[d] = None
             /\ owner' = [owner EXCEPT ![d] = s]
             /\ net' = [net EXCEPT ![s] = d]
             /\ \/ task' = [task EXCEPT !.pc = "start"] /\ UNCHANGED nif
                \/ Return(FALSE)
       \/ /\ net' = [net EXCEPT ![s] = None]
          /\ Return(FALSE)
          /\ UNCHANGED owner
    /\ UNCHANGED <<msgs, calls>>

(* ds_client_start_call: dsi_start_data_call may refuse.                   *)
StartCall ==
    /\ At("start")
    /\ \/ /\ calls[net[handle]] = "none"
          /\ calls' = [calls EXCEPT ![net[handle]] = "starting"]
          /\ Return(TRUE)
       \/ Return(FALSE) /\ UNCHANGED calls
    /\ UNCHANGED <<msgs, handle, net, owner>>

-----------------------------------------------------------------------------
(* What the states of DSStateMachine ask for.                              *)

Open == task' = Opening

(* Mutant: the session is freed, its DSI handle is not released.           *)
CloseKeepsHandle ==
    IF handle = None THEN UNCHANGED <<handle, net, owner, calls>>
    ELSE /\ handle' = None
         /\ net' = [net EXCEPT ![handle] = None]
         /\ UNCHANGED <<owner, calls>>

(* closeDataCall: ds_client_close_call releases the DSI handle, which      *)
(* ends its callbacks, and frees the session.                              *)
Close ==
    IF handle = None THEN UNCHANGED <<handle, net, owner, calls>>
    ELSE LET d == net[handle] IN
         /\ handle' = None
         /\ net' = [net EXCEPT ![handle] = None]
         /\ owner' = [e \in Dsi |-> IF e = d THEN None ELSE owner[e]]
         /\ calls' = [e \in Dsi |-> IF e = d THEN "none" ELSE calls[e]]

(* A request in Released, a retry included.                                *)
Request ==
    /\ task = Ready /\ nif = "released"
    /\ Open
    /\ UNCHANGED <<nif, msgs, handle, net, owner, calls>>

(* Mutants: stopDataCall also gives the handle back; nobody waits for the  *)
(* end of the call.                                                        *)
StopCallCloses ==
    /\ task = Ready /\ nif \in {"pending", "acquired"}
    /\ nif' = "releasing"
    /\ Close
    /\ UNCHANGED <<msgs, task>>

StopCallForgets ==
    /\ task = Ready /\ nif \in {"pending", "acquired"}
    /\ nif' = "released"
    /\ UNCHANGED <<msgs, task, handle, net, owner, calls>>

(* The last active subscriber leaves: stopDataCall, whose failures are     *)
(* logged and dropped.                                                     *)
StopCall ==
    /\ task = Ready /\ nif \in {"pending", "acquired"}
    /\ nif' = "releasing"
    /\ \/ /\ handle # None /\ net[handle] # None
          /\ calls[net[handle]] \in {"starting", "up"}
          /\ calls' = [calls EXCEPT ![net[handle]] = "stopping"]
       \/ UNCHANGED calls
    /\ UNCHANGED <<msgs, task, handle, net, owner>>

Take(event) ==
    /\ task = Ready
    /\ msgs # <<>> /\ Head(msgs) = event /\ msgs' = Tail(msgs)

TakeOpened ==
    /\ Take("opened")
    /\ nif' = IF nif = "pending" THEN "acquired" ELSE nif
    /\ UNCHANGED <<task, handle, net, owner, calls>>

(* A RELEASED in Pending is turned into DENIED, which does not close.      *)
TakeClosed ==
    /\ Take("closed")
    /\ IF nif \in {"acquired", "releasing"}
         THEN Close ELSE UNCHANGED <<handle, net, owner, calls>>
    /\ \/ nif' = "released" /\ UNCHANGED task
       \/ nif = "releasing" /\ Open /\ UNCHANGED nif

-----------------------------------------------------------------------------
(* The thread of DSI: net_ev_cb, ds_client_event_cb, reportDataCall...     *)

Room == Len(msgs) < MaxMsgs

CallUp(d) ==
    /\ owner[d] # None /\ calls[d] = "starting" /\ Room
    /\ calls' = [calls EXCEPT ![d] = "up"]
    /\ msgs' = Append(msgs, "opened")
    /\ UNCHANGED <<nif, task, handle, net, owner>>

CallGone(d) ==
    /\ owner[d] # None /\ calls[d] # "none" /\ Room
    /\ calls' = [calls EXCEPT ![d] = "none"]
    /\ msgs' = Append(msgs, "closed")
    /\ UNCHANGED <<nif, task, handle, net, owner>>

Next ==
    \/ Request \/ GetProfileList \/ Search \/ SearchFailed
    \/ \E s \in Session : OpenSession(s)
    \/ StartCall \/ StopCall \/ TakeOpened \/ TakeClosed
    \/ \E d \in Dsi : CallUp(d) \/ CallGone(d)

Spec == Init /\ [][Next]_vars
-----------------------------------------------------------------------------
(* Properties.                                                             *)

(* Whatever is retried, refused or leaked on the way, the one call that    *)
(* lives is the call of dsClientHandle, which stopDataCall would stop, and *)
(* somebody in DSStateMachine waits for its events.                        *)
LiveCallIsOurs ==
    \A d \in Dsi : calls[d] # "none" =>
        /\ handle # None /\ net[handle] = d /\ owner[d] = handle
        /\ nif # "released"

(* A DSI handle calls back into the session it was opened with, as long as *)
(* that session is not freed: a closed session has none.                   *)
CallbackDataIsLive ==
    \A d \in Dsi : owner[d] # None => net[owner[d]] = d

(* The data call implements what DSStateMachine relies on.                 *)
TheCall == IF handle = None \/ net[handle] = None THEN "none" ELSE calls[net[handle]]

Contract == INSTANCE DataCallContract WITH call <- TheCall, events <- msgs

ImplementsContract == Contract!Spec
=============================================================================
