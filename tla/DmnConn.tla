------------------------------- MODULE DmnConn -------------------------------
(***************************************************************************)
(* The connection of the positioning daemons (QUIPC, MSAPM, MSAPU:         *)
(* external) to wifi_nif, end to end.  A daemon writes a request or a      *)
(* release into the pipe loc_eng_dmn_conn.cpp reads; the reader thread     *)
(* posts it to the MsgTask; the AgpsStateMachine there subscribes or       *)
(* unsubscribes the daemon; and what WIFISubscriber::notifyRsrcStatus      *)
(* tells it goes through the daemon's own pipe.                            *)
(*                                                                         *)
(* A message is one read of the model: every writer writes it whole and in *)
(* fewer bytes than a pipe takes at once, so the two reads of msgrcv stay  *)
(* in step.  The pipes are opened O_RDWR: writing never fails for want of  *)
(* a reader, it blocks once the pipe is full, and with it the MsgTask.     *)
(***************************************************************************)
EXTENDS AgpsStateMachine

CONSTANTS
    MaxPipe,    \* bound: requests in the pipe, and posted by its reader
    MaxAnswers  \* room in the pipe of a daemon

ASSUME DaemonAssumption == MaxPipe \in Nat /\ MaxAnswers \in Nat

VARIABLES
    listening,  \* the reader thread has created and opened the pipes
    pipe,       \* what the daemons have written and it has not read
    posted,     \* the LocEngReqRelWifi it has posted to the MsgTask
    answers,    \* the answers in the pipe of each daemon
    view        \* what each daemon believes

conn == <<listening, pipe, posted, answers, view>>
all  == <<vars, conn>>

Message == [from : Client, op : Action]
Reply   == {"success", "failure", "released"}

DmnTypeOK ==
    /\ TypeOK
    /\ listening \in BOOLEAN
    /\ pipe \in Seq(Message) /\ posted \in Seq(Message)
    /\ answers \in [Client -> Seq(Reply)]
    /\ view \in [Client -> {"idle", "asked", "up", "leaving"}]

DmnInit ==
    /\ Init
    /\ listening = FALSE
    /\ pipe = <<>> /\ posted = <<>>
    /\ answers = [c \in Client |-> <<>>]
    /\ view = [c \in Client |-> "idle"]

-----------------------------------------------------------------------------
(* The daemons.  One asks when it has nothing, and gives up what it has or *)
(* has asked for.                                                          *)

Write(c, op) ==
    /\ listening /\ Len(pipe) < MaxPipe
    /\ pipe' = Append(pipe, [from |-> c, op |-> op])

Ask(c) ==
    /\ view[c] = "idle" /\ Write(c, "request")
    /\ view' = [view EXCEPT ![c] = "asked"]
    /\ UNCHANGED <<vars, listening, posted, answers>>

Leave(c) ==
    /\ view[c] \in {"asked", "up"} /\ Write(c, "release")
    /\ view' = [view EXCEPT ![c] = "leaving"]
    /\ UNCHANGED <<vars, listening, posted, answers>>

(* A success that crosses the daemon's release changes nothing; a failure  *)
(* or a release ends what it had.                                          *)
Hear(c) ==
    /\ answers[c] # <<>>
    /\ answers' = [answers EXCEPT ![c] = Tail(@)]
    /\ view' = [view EXCEPT ![c] =
                  IF Head(answers[c]) # "success" THEN "idle"
                  ELSE IF @ = "asked" THEN "up" ELSE @]
    /\ UNCHANGED <<vars, listening, pipe, posted>>

-----------------------------------------------------------------------------
(* The reader thread.                                                      *)

(* loc_api_server_proc_init, before the launch returns.                    *)
Listen ==
    /\ ~listening /\ listening' = TRUE
    /\ UNCHANGED <<vars, pipe, posted, answers, view>>

(* What the handlers of the two kinds of message post.                     *)
PostRequest(c) == posted' = Append(posted, [from |-> c, op |-> "request"])
PostRelease(c) == posted' = Append(posted, [from |-> c, op |-> "release"])

(* loc_api_server_proc: one message is received and dispatched.            *)
Serve ==
    /\ listening
    /\ pipe # <<>> /\ Len(posted) < MaxPipe
    /\ pipe' = Tail(pipe)
    /\ \/ Head(pipe).op = "request" /\ PostRequest(Head(pipe).from)
       \/ Head(pipe).op = "release" /\ PostRelease(Head(pipe).from)
    /\ UNCHANGED <<vars, listening, answers, view>>

-----------------------------------------------------------------------------
(* The MsgTask.                                                            *)

(* Mutant: a denial is not passed on.                                      *)
ReplyToNoFailure(p) ==
    IF p = "open" THEN <<"success">>
    ELSE IF p = "idle" THEN <<"released">> ELSE <<>>

(* WIFISubscriber::notifyRsrcStatus, by what the client learns.            *)
ReplyTo(p) ==
    IF p = "open" THEN <<"success">>
    ELSE IF p = "refused" THEN <<"failure">>
    ELSE IF p = "idle" THEN <<"released">> ELSE <<>>

(* Every client in S that learns something gets it through its pipe; the   *)
(* write blocks while that is full.                                        *)
Respond(S) ==
    /\ answers' = [c \in Client |->
                      IF c \in S THEN answers[c] \o ReplyTo(phase'[c])
                                 ELSE answers[c]]
    /\ \A c \in Client : Len(answers'[c]) <= MaxAnswers

Changed == {c \in Client : phase'[c] # phase[c]}

(* LocEngReqRelWifi::proc.                                                 *)
TakePosted(c, op) ==
    /\ posted # <<>> /\ Head(posted) = [from |-> c, op |-> op]
    /\ posted' = Tail(posted)
    /\ UNCHANGED <<listening, pipe, view>>

ProcRequest(c) ==
    /\ TakePosted(c, "request")
    /\ \/ Subscribe(c) /\ Respond(Changed)
       \/ RefuseSecond(c) /\ Respond({c})

ProcRelease(c) ==
    /\ TakePosted(c, "release")
    /\ \/ Unsubscribe(c) /\ Respond(Changed)
       \/ c \notin subs /\ UNCHANGED <<vars, answers>>

(* Mutant: the clients are notified before the state machine moves, and    *)
(* the write into their pipe is lost.                                      *)
ProcEventMute ==
    /\ OnRsrcEvent
    /\ answers' = [c \in Client |->
                     IF state = "acquired" THEN answers[c]
                     ELSE IF c \in Changed THEN answers[c] \o ReplyTo(phase'[c])
                     ELSE answers[c]]
    /\ \A c \in Client : Len(answers'[c]) <= MaxAnswers
    /\ UNCHANGED <<listening, pipe, posted, view>>

(* An answer of the connectivity service.                                  *)
ProcEvent ==
    /\ OnRsrcEvent /\ Respond(Changed)
    /\ UNCHANGED <<listening, pipe, posted, view>>

(* The connectivity service.                                               *)
Connectivity ==
    /\ NifRequest \/ NifRelease \/ NifAnswer \/ NifLost
    /\ UNCHANGED conn

-----------------------------------------------------------------------------
DmnNext ==
    \/ \E c \in Client : \/ Ask(c) \/ Leave(c) \/ Hear(c)
                         \/ ProcRequest(c) \/ ProcRelease(c)
    \/ Listen \/ Serve
    \/ ProcEvent
    \/ Connectivity

(* Both threads run, the daemons read their pipes, and the connectivity    *)
(* service handles every request and finishes every opening.  The MsgTask  *)
(* takes its messages in turn: neither daemons nor the service keep it     *)
(* from the others' (SF).                                                  *)
DmnFairness ==
    /\ WF_all(Listen)
    /\ WF_all(Serve)
    /\ WF_all(ProcEvent)
    /\ \A c \in Client :
          /\ WF_all(Hear(c))
          /\ SF_all(ProcRequest(c)) /\ SF_all(ProcRelease(c))
    /\ WF_all((NifRequest \/ NifRelease) /\ UNCHANGED conn)
    /\ WF_all(NifAnswer /\ UNCHANGED conn)

DmnSpec == DmnInit /\ [][DmnNext]_all /\ DmnFairness

-----------------------------------------------------------------------------
(* Properties.                                                             *)

(* Through two pipes and two queues, with refusals, cancelled requests and *)
(* connections the service takes back: a daemon that believes it is        *)
(* connected is the active subscriber of a wifi_nif whose connection is    *)
(* there or whose loss the MsgTask is about to handle, or the news that it *)
(* no longer is one waits in its pipe.                                     *)
ViewIsTrue ==
    \A c \in Client :
        view[c] = "up" =>
           \/ /\ phase[c] = "open" /\ c \in subs \ inactive
              /\ AcquiredIsReal /\ state = "acquired"
           \/ InSeq("released", answers[c])

(* A daemon never has more answers to come than the one it waits for: what *)
(* it reads is about the request it has made, not about an earlier one.    *)
NoStaleAnswer ==
    \A c \in Client :
        view[c] = "idle" => answers[c] = <<>> /\ c \notin subs

(* Every daemon that asks, or gives up, is told how it ended.              *)
DaemonAnswered ==
    \A c \in Client : view[c] \in {"asked", "leaving"} ~> view[c] \in {"idle", "up"}
=============================================================================
