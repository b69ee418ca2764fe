-------------------------- MODULE FixSessionProofs --------------------------
(***************************************************************************)
(* Theorems about FixSession, for any number of requests, events and       *)
(* restarts of the modem.  FixInv relates the session as the adapter,      *)
(* LocApiV02 and the modem see it; what it needs of the queue is that the  *)
(* LocEngUp of a lost modem is still behind its LocSsrMsg (SsrFollowed).   *)
(***************************************************************************)
EXTENDS FixSession, SequenceTheorems, TLAPS

(* Every LocSsrMsg in the queue has a LocEngUp behind it.                  *)
Followed(queue) ==
    \A i \in DOMAIN queue : queue[i].type = "ssr" =>
        \E j \in DOMAIN queue : j > i /\ queue[j].type = "up"

SsrFollowed == Followed(cb) /\ (Has(cb, "up") \/ Followed(msgs))

(* The inductive invariant.                                                *)
FixInv ==
    /\ NavigatingIsTold
    /\ fix.navigating => fix.inSession
    /\ fix.tracking # "none" \/ fix.registered \/ fix.missed => linked
    /\ SessionIsReported
    /\ NoPhantomSession
    /\ fix.navigating /\ fix.tracking # "none" /\ fix.failed # "start" =>
          fix.tracking = fix.recurrence
    /\ fix.navigating => fix.failed # "stop"
    /\ NoOrphanSession

-----------------------------------------------------------------------------
(* Queues.                                                                 *)

(* A message that is not the one taken stays in the queue.                 *)
LEMMA TailKeeps ==
    ASSUME NEW queue \in Seq(MsgType), NEW type, queue # <<>>,
           Head(queue).type # type, Has(queue, type)
    PROVE  Has(Tail(queue), type)
<1>1. PICK i \in DOMAIN queue : queue[i].type = type
  BY DEF Has
<1>2. i \in 1 .. Len(queue) /\ i # 1
  BY <1>1
<1>3. i - 1 \in DOMAIN Tail(queue) /\ Tail(queue)[i - 1] = queue[i]
  BY <1>2
<1> QED BY <1>1, <1>3 DEF Has

(* A message stays in the queue when another one is posted.                *)
LEMMA AppendKeeps ==
    ASSUME NEW queue \in Seq(MsgType), NEW m \in MsgType, NEW type, Has(queue, type)
    PROVE  Has(Append(queue, m), type)
<1>1. PICK i \in DOMAIN queue : queue[i].type = type
  BY DEF Has
<1>2. i \in DOMAIN Append(queue, m) /\ Append(queue, m)[i] = queue[i]
  BY <1>1
<1> QED BY <1>1, <1>2 DEF Has

(* What is posted is in the queue.                                         *)
LEMMA AppendHas ==
    ASSUME NEW queue \in Seq(MsgType), NEW m \in MsgType
    PROVE  Has(Append(queue, m), m.type)
<1>1. Len(queue) + 1 \in DOMAIN Append(queue, m) /\ Append(queue, m)[Len(queue) + 1] = m
  OBVIOUS
<1> QED BY <1>1 DEF Has

(* Taking a message disturbs no order.                                     *)
LEMMA TailFollowed ==
    ASSUME NEW queue \in Seq(MsgType), queue # <<>>, Followed(queue)
    PROVE  Followed(Tail(queue))
<1> SUFFICES ASSUME NEW i \in DOMAIN Tail(queue), Tail(queue)[i].type = "ssr"
             PROVE  \E j \in DOMAIN Tail(queue) : j > i /\ Tail(queue)[j].type = "up"
  BY DEF Followed
<1>1. i \in 1 .. Len(queue) - 1 /\ i + 1 \in DOMAIN queue /\ queue[i + 1] = Tail(queue)[i]
  OBVIOUS
<1>2. PICK j \in DOMAIN queue : j > i + 1 /\ queue[j].type = "up"
  BY <1>1 DEF Followed
<1>3. j - 1 \in DOMAIN Tail(queue) /\ j - 1 > i /\ Tail(queue)[j - 1] = queue[j]
  BY <1>1, <1>2
<1> QED BY <1>2, <1>3

(* The LocSsrMsg that is taken leaves its LocEngUp behind.                 *)
LEMMA TakenFollowed ==
    ASSUME NEW queue \in Seq(MsgType), queue # <<>>, Followed(queue),
           Head(queue).type = "ssr"
    PROVE  Has(Tail(queue), "up")
<1>1. 1 \in DOMAIN queue /\ queue[1] = Head(queue)
  OBVIOUS
<1>2. PICK j \in DOMAIN queue : j > 1 /\ queue[j].type = "up"
  BY <1>1 DEF Followed
<1>3. j - 1 \in DOMAIN Tail(queue) /\ Tail(queue)[j - 1] = queue[j]
  BY <1>2
<1> QED BY <1>2, <1>3 DEF Has

(* Posting anything but a LocSsrMsg disturbs no order.                     *)
LEMMA AppendFollowed ==
    ASSUME NEW queue \in Seq(MsgType), NEW m \in MsgType, m.type # "ssr", Followed(queue)
    PROVE  Followed(Append(queue, m))
<1> DEFINE q == Append(queue, m)
<1> SUFFICES ASSUME NEW i \in DOMAIN q, q[i].type = "ssr"
             PROVE  \E j \in DOMAIN q : j > i /\ q[j].type = "up"
  BY DEF Followed
<1>1. i \in DOMAIN queue /\ q[i] = queue[i]
  OBVIOUS
<1>2. PICK j \in DOMAIN queue : j > i /\ queue[j].type = "up"
  BY <1>1 DEF Followed
<1>3. j \in DOMAIN q /\ q[j] = queue[j]
  BY <1>2
<1> QED BY <1>2, <1>3

(* A LocEngUp that is posted is behind everything.                         *)
LEMMA UpFollows ==
    ASSUME NEW queue \in Seq(MsgType), NEW m \in MsgType, m.type = "up"
    PROVE  Followed(Append(queue, m))
<1> DEFINE q == Append(queue, m)
<1>1. Len(queue) + 1 \in DOMAIN q /\ q[Len(queue) + 1] = m
  OBVIOUS
<1>2. ASSUME NEW i \in DOMAIN q, q[i].type = "ssr"
      PROVE  Len(queue) + 1 > i
  BY <1>1, <1>2
<1> QED BY <1>1, <1>2 DEF Followed

-----------------------------------------------------------------------------
(* What the parts of the handlers do to the session.                       *)

(* What a request can come to.                                             *)
LEMMA RepliesAre ==
    /\ \A r \in Replies : r \in {"done", "late", "lost"} /\ (~linked => r = "lost")
    /\ \A st \in Starts : st \in {"done", "late", "mode", "lost"} /\ (~linked => st = "lost")
BY DEF Replies, Starts

(* LocApiV02::registerEventMask.                                           *)
LEMMA RegisterIs ==
    ASSUME NEW f \in FixType, linked \in BOOLEAN, NEW r \in Replies
    PROVE  LET g == RegisterEventMask(f, r)
           IN /\ g \in FixType
              /\ g.navigating = f.navigating /\ g.mode = f.mode
              /\ g.recurrence = f.recurrence /\ g.inSession = f.inSession
              /\ g.tracking = f.tracking /\ g.operation = f.operation
              /\ g.failed = f.failed
              /\ r = "done" => g.registered = f.inSession /\ g.kept = f.inSession
              /\ r # "lost" => g.registered = f.inSession
              /\ r = "lost" => g.registered = f.registered
              /\ linked /\ r # "done" => g.missed = TRUE
              /\ g.missed => linked
BY RepliesAre DEF RegisterEventMask, FixType

(* What LocApiV02::startFix makes g of a session f.                        *)
StartEffect(f, g, start) ==
    /\ g.recurrence = f.recurrence
    /\ g.inSession = TRUE
    /\ linked => (g.registered = TRUE /\ g.kept = TRUE) \/ g.missed = TRUE
    /\ ~linked => g.registered = f.registered
    /\ g.missed => linked
    /\ g.tracking = f.tracking \/ (linked /\ g.tracking = f.recurrence)
    /\ start = "done" => linked /\ g.tracking = f.recurrence
    /\ linked /\ start # "done" => g.failed = "start"
    /\ ~(linked /\ start # "done") => g.failed = "none"

(* LocApiV02::startFix.                                                    *)
LEMMA StartFixIs ==
    ASSUME NEW f \in FixType, linked \in BOOLEAN,
           NEW reg \in Replies, NEW start \in Starts
    PROVE  /\ StartFix(f, reg, start) \in FixType
           /\ StartFix(f, reg, start).navigating = f.navigating
           /\ StartEffect(f, StartFix(f, reg, start), start)
<1> DEFINE e == [f EXCEPT !.inSession = TRUE]
           h == RegisterEventMask(e, reg)
<1>1. /\ e \in FixType /\ e.navigating = f.navigating /\ e.mode = f.mode
      /\ e.recurrence = f.recurrence /\ e.inSession = TRUE
      /\ e.tracking = f.tracking /\ e.registered = f.registered
  BY DEF FixType
<1> HIDE DEF e
<1>2. /\ h \in FixType /\ h.navigating = f.navigating /\ h.mode = f.mode
      /\ h.recurrence = f.recurrence /\ h.inSession = TRUE
      /\ h.tracking = f.tracking
      /\ reg = "done" => h.registered = TRUE /\ h.kept = TRUE
      /\ reg = "lost" => h.registered = f.registered
      /\ linked /\ reg # "done" => h.missed = TRUE
      /\ h.missed => linked
  BY <1>1, RegisterIs
<1>3. OperationMode(f.mode) \in Mode
  BY BoundsAssumption DEF OperationMode, FixType
<1>4. /\ start \in {"done", "late", "mode", "lost"}
      /\ ~linked => start = "lost" /\ reg = "lost"
  BY RepliesAre
<1>5. StartFix(f, reg, start) =
        [h EXCEPT
           !.operation = IF start = "lost" THEN h.operation ELSE OperationMode(f.mode),
           !.tracking = IF start \in {"done", "late"} THEN f.recurrence ELSE h.tracking,
           !.failed = IF linked /\ start # "done" THEN "start" ELSE "none"]
  BY DEF StartFix, e
<1> HIDE DEF h
<1>6. f.recurrence \in Recurrence
  BY DEF FixType
<1> DEFINE op == IF start = "lost" THEN h.operation ELSE OperationMode(f.mode)
           tr == IF start \in {"done", "late"} THEN f.recurrence ELSE h.tracking
           fl == IF linked /\ start # "done" THEN "start" ELSE "none"
           g == StartFix(f, reg, start)
<1>7. op \in Mode /\ tr \in Recurrence \cup {"none"} /\ fl \in {"none", "start", "stop"}
  BY <1>2, <1>3, <1>6 DEF FixType
<1>8. g = [h EXCEPT !.operation = op, !.tracking = tr, !.failed = fl]
  BY <1>5
<1>9. /\ tr = f.tracking \/ (linked /\ tr = f.recurrence)
      /\ start = "done" => linked /\ tr = f.recurrence
      /\ linked /\ start # "done" => fl = "start"
      /\ ~(linked /\ start # "done") => fl = "none"
  BY <1>2, <1>4
<1> HIDE DEF op, tr, fl, g
<1>10. /\ g \in FixType /\ g.navigating = h.navigating /\ g.recurrence = h.recurrence
       /\ g.inSession = h.inSession /\ g.registered = h.registered /\ g.kept = h.kept
       /\ g.missed = h.missed /\ g.tracking = tr /\ g.failed = fl
  BY <1>2, <1>7, <1>8 DEF FixType
<1>11. linked => (h.registered = TRUE /\ h.kept = TRUE) \/ h.missed = TRUE
  BY <1>2
<1>12. ~linked => h.registered = f.registered
  BY <1>2, <1>4
<1>13. StartEffect(f, g, start)
  BY <1>2, <1>9, <1>10, <1>11, <1>12 DEF StartEffect
<1> QED BY <1>2, <1>10, <1>13 DEF g

(* LocApiV02::stopFix.                                                     *)
LEMMA StopFixIs ==
    ASSUME NEW f \in FixType, linked \in BOOLEAN, mEngineOn \in BOOLEAN,
           NEW stop \in Replies, NEW reg \in Replies
    PROVE  LET g == StopFix(f, stop, reg)
           IN /\ g \in FixType
              /\ g.registered => f.registered
              /\ g.missed => linked \/ f.missed
              /\ g.tracking = "none" \/ g.tracking = f.tracking
              /\ linked /\ g.tracking # "none" => g.failed = "stop"
<1> DEFINE e == [f EXCEPT !.inSession = FALSE,
                          !.tracking = IF stop = "lost" THEN f.tracking ELSE "none",
                          !.failed = IF linked /\ stop # "done" THEN "stop" ELSE "none"]
<1>1. /\ e \in FixType /\ e.inSession = FALSE /\ e.registered = f.registered
      /\ e.missed = f.missed
      /\ e.tracking = "none" \/ e.tracking = f.tracking
      /\ linked /\ e.tracking # "none" => e.failed = "stop"
  BY RepliesAre DEF FixType
<1>2. StopFix(f, stop, reg) = IF mEngineOn THEN e ELSE RegisterEventMask(e, reg)
  BY DEF StopFix
<1> HIDE DEF e
<1>3. CASE mEngineOn
  BY <1>1, <1>2, <1>3
<1>4. CASE ~mEngineOn
  <2> DEFINE g == RegisterEventMask(e, reg)
  <2>1. /\ g \in FixType /\ g.tracking = e.tracking /\ g.failed = e.failed
        /\ g.registered = FALSE \/ g.registered = e.registered
        /\ g.missed => linked
    BY <1>1, RegisterIs, RepliesAre
  <2>2. StopFix(f, stop, reg) = g
    BY <1>2, <1>4
  <2> HIDE DEF g
  <2> QED BY <1>1, <2>1, <2>2
<1> QED BY <1>3, <1>4

(* LocEngAdapter::setInSession.                                            *)
LEMMA SetInSessionIs ==
    ASSUME NEW f \in FixType, NEW inSession \in BOOLEAN
    PROVE  LET g == SetInSession(f, inSession)
           IN /\ g \in FixType
              /\ g.navigating = inSession /\ g.recurrence = f.recurrence
              /\ g.inSession = f.inSession /\ g.registered = f.registered
              /\ g.kept = f.kept /\ g.missed = f.missed
              /\ g.tracking = f.tracking /\ g.failed = f.failed
BY DEF SetInSession, FixType

(* loc_eng_start_handler, when there is no session yet.                    *)
LEMMA StartedIs ==
    ASSUME NEW f \in FixType, linked \in BOOLEAN, ~f.navigating,
           NEW reg \in Replies, NEW start \in Starts
    PROVE  /\ Started(f, reg, start) \in FixType
           /\ Started(f, reg, start).navigating = (start = "done")
           /\ StartEffect(f, Started(f, reg, start), start)
<1> DEFINE h == StartFix(f, reg, start)
<1>1. h \in FixType /\ h.navigating = f.navigating /\ StartEffect(f, h, start)
  BY StartFixIs
<1>2. CASE start = "done"
  <2>1. Started(f, reg, start) = SetInSession(h, TRUE)
    BY <1>2 DEF Started
  <2> HIDE DEF h
  <2>2. /\ SetInSession(h, TRUE) \in FixType
        /\ SetInSession(h, TRUE).navigating = TRUE
        /\ SetInSession(h, TRUE).recurrence = h.recurrence
        /\ SetInSession(h, TRUE).inSession = h.inSession
        /\ SetInSession(h, TRUE).registered = h.registered
        /\ SetInSession(h, TRUE).kept = h.kept
        /\ SetInSession(h, TRUE).missed = h.missed
        /\ SetInSession(h, TRUE).tracking = h.tracking
        /\ SetInSession(h, TRUE).failed = h.failed
    BY <1>1, SetInSessionIs
  <2>3. StartEffect(f, SetInSession(h, TRUE), start)
    BY <1>1, <2>2 DEF StartEffect
  <2> QED BY <1>2, <2>1, <2>2, <2>3
<1>3. CASE start # "done"
  <2>1. Started(f, reg, start) = h
    BY <1>3 DEF Started
  <2>2. f.navigating = FALSE
    BY DEF FixType
  <2> HIDE DEF h
  <2> QED BY <1>1, <1>3, <2>1, <2>2
<1> QED BY <1>2, <1>3

-----------------------------------------------------------------------------
(* Types.                                                                  *)

(* What the framework and the callback thread post are messages.           *)
LEMMA MsgTyped ==
    /\ \A type \in {"start", "stop", "mute", "down", "ssr", "up"} :
          Msg(type) \in MsgType /\ Msg(type).type = type
    /\ \A mode \in Mode, recurrence \in Recurrence :
          LET m == [type |-> "mode", mode |-> mode, recurrence |-> recurrence]
          IN m \in MsgType /\ m.type = "mode"
    /\ \A data \in SUBSET AidingData :
          LET m == [type |-> "delete", data |-> data] IN m \in MsgType /\ m.type = "delete"
    /\ \A final \in BOOLEAN :
          LET m == [type |-> "position", final |-> final]
          IN m \in MsgType /\ m.type = "position"
    /\ \A on \in BOOLEAN :
          LET m == [type |-> "engine", on |-> on] IN m \in MsgType /\ m.type = "engine"
    /\ \A status \in Status :
          LET m == [type |-> "status", status |-> status]
          IN m \in MsgType /\ m.type = "status"
BY DEF Msg, MsgType

(* What a message carries.                                                 *)
LEMMA MsgCarries ==
    ASSUME NEW m \in MsgType
    PROVE  /\ m.type = "mode" => m.mode \in Mode /\ m.recurrence \in Recurrence
           /\ m.type = "delete" => m.data \in SUBSET AidingData
           /\ m.type = "engine" => m.on \in BOOLEAN
           /\ m.type = "status" => m.status \in Status
           /\ m.type = "position" => m.final \in BOOLEAN
BY DEF MsgType

(* The message that is taken.                                              *)
LEMMA Taken ==
    ASSUME TypeOK, NEW type, Takes(type)
    PROVE  /\ msgs # <<>> /\ Head(msgs) \in MsgType /\ Head(msgs).type = type
           /\ msgs' \in Seq(MsgType) /\ msgs' = Tail(msgs)
BY DEF TypeOK, Takes

(* The reports of the engine, in the order they are posted.                *)
LEMMA EngineReports ==
    ASSUME NEW on \in BOOLEAN
    PROVE  /\ ReportEngineState(on) \in Seq(MsgType)
           /\ \A i \in DOMAIN ReportEngineState(on) :
                 ReportEngineState(on)[i].type # "ssr"
<1> DEFINE e == [type |-> "engine", on |-> on]
           st(x) == [type |-> "status", status |-> x]
<1>1. /\ e \in MsgType /\ e.type = "engine"
      /\ \A x \in Status : st(x) \in MsgType /\ st(x).type = "status"
  BY DEF MsgType
<1>2. CASE on
  <2>1. ReportEngineState(on) = <<e>> \o <<st("engine_on"), st("session_begin")>>
    BY <1>2 DEF ReportEngineState
  <2>2. st("engine_on") \in MsgType /\ st("session_begin") \in MsgType
        /\ st("engine_on").type = "status" /\ st("session_begin").type = "status"
    BY <1>1 DEF Status
  <2> HIDE DEF e, st
  <2> QED BY <1>1, <2>1, <2>2
<1>3. CASE ~on
  <2>1. ReportEngineState(on) = <<e>> \o <<st("session_end"), st("engine_off")>>
    BY <1>3 DEF ReportEngineState
  <2>2. st("session_end") \in MsgType /\ st("engine_off") \in MsgType
        /\ st("session_end").type = "status" /\ st("engine_off").type = "status"
    BY <1>1 DEF Status
  <2> HIDE DEF e, st
  <2> QED BY <1>1, <2>1, <2>2
<1> QED BY <1>2, <1>3

(* Mute state and engine status have their types.                          *)
LEMMA StatusTyped ==
    ASSUME TypeOK, NEW status \in Status, ReportStatus(status)
    PROVE  /\ mute_session_state' \in {"none", "wait", "in_session"}
           /\ engine_status' \in {"none", "engine_on", "engine_off"}
BY DEF TypeOK, ReportStatus, Muted, Status

(* The counts stay within their bounds.                                    *)
LEMMA CountTyped ==
    ASSUME TypeOK
    PROVE  LET Count == [cmds : 0 .. MaxCmds, events : 0 .. MaxEvents, crashes : 0 .. MaxCrashes]
           IN /\ count.cmds < MaxCmds => [count EXCEPT !.cmds = @ + 1] \in Count
              /\ count.events < MaxEvents => [count EXCEPT !.events = @ + 1] \in Count
              /\ count.crashes < MaxCrashes => [count EXCEPT !.crashes = @ + 1] \in Count
<1> DEFINE Count == [cmds : 0 .. MaxCmds, events : 0 .. MaxEvents, crashes : 0 .. MaxCrashes]
<1>1. count \in Count
  BY DEF TypeOK
<1>2. /\ count.cmds \in 0 .. MaxCmds /\ count.events \in 0 .. MaxEvents
      /\ count.crashes \in 0 .. MaxCrashes
  BY <1>1
<1>3. /\ count.cmds < MaxCmds => count.cmds + 1 \in 0 .. MaxCmds
      /\ count.events < MaxEvents => count.events + 1 \in 0 .. MaxEvents
      /\ count.crashes < MaxCrashes => count.crashes + 1 \in 0 .. MaxCrashes
  BY <1>2, BoundsAssumption
<1> QED BY <1>1, <1>3

(* A request is a message, and none that reopens the client.               *)
LEMMA RequestPosts ==
    ASSUME Request
    PROVE  \E m \in MsgType : m.type # "ssr" /\ msgs' = Append(msgs, m)
<1>1. CASE \E type \in {"start", "stop", "mute"} : msgs' = Append(msgs, Msg(type))
  BY <1>1, MsgTyped
<1>2. CASE \E mode \in Mode, recurrence \in Recurrence :
              msgs' = Append(msgs, [type |-> "mode", mode |-> mode, recurrence |-> recurrence])
  <2>1. PICK mode \in Mode, recurrence \in Recurrence :
              msgs' = Append(msgs, [type |-> "mode", mode |-> mode, recurrence |-> recurrence])
    BY <1>2
  <2> DEFINE m == [type |-> "mode", mode |-> mode, recurrence |-> recurrence]
  <2>2. m \in MsgType /\ m.type = "mode"
    BY MsgTyped
  <2>3. msgs' = Append(msgs, m)
    BY <2>1
  <2> HIDE DEF m
  <2> QED BY <2>2, <2>3
<1>3. CASE \E kind \in AidingData : msgs' = Append(msgs, [type |-> "delete", data |-> {kind}])
  <2>1. PICK kind \in AidingData : msgs' = Append(msgs, [type |-> "delete", data |-> {kind}])
    BY <1>3
  <2> DEFINE m == [type |-> "delete", data |-> {kind}]
  <2>2. m \in MsgType /\ m.type = "delete"
    BY MsgTyped
  <2>3. msgs' = Append(msgs, m)
    BY <2>1
  <2> HIDE DEF m
  <2> QED BY <2>2, <2>3
<1> QED BY <1>1, <1>2, <1>3 DEF Request

(* What the callback thread makes of a position or a report of the engine. *)
LEMMA EventPosts ==
    ASSUME TypeOK, EngineTurns \/ Position
    PROVE  /\ cb' \in Seq(MsgType)
           /\ \/ cb' = cb
              \/ cb = <<>> /\ \A i \in DOMAIN cb' : cb'[i].type # "ssr"
<1>1. CASE EngineTurns
  <2>1. modem'.engine \in BOOLEAN
    BY <1>1 DEF EngineTurns, TypeOK
  <2>2. CASE ~(fix.registered /\ fix.kept)
    BY <1>1, <2>2 DEF EngineTurns, TypeOK
  <2>3. CASE fix.registered /\ fix.kept
    <3>1. cb = <<>> /\ cb' = ReportEngineState(modem'.engine)
      BY <1>1, <2>3 DEF EngineTurns
    <3> QED BY <2>1, <3>1, EngineReports
  <2> QED BY <2>2, <2>3
<1>2. CASE Position
  <2>1. CASE ~(fix.registered /\ fix.kept)
    BY <1>2, <2>1 DEF Position, TypeOK
  <2>2. CASE fix.registered /\ fix.kept
    <3>1. PICK final \in BOOLEAN : cb = <<>> /\ cb' = <<[type |-> "position", final |-> final]>>
      BY <1>2, <2>2 DEF Position
    <3> DEFINE m == [type |-> "position", final |-> final]
    <3>2. m \in MsgType /\ m.type = "position"
      BY MsgTyped
    <3>3. cb' = <<m>>
      BY <3>1
    <3> HIDE DEF m
    <3> QED BY <3>1, <3>2, <3>3
  <2> QED BY <2>1, <2>2
<1> QED BY <1>1, <1>2

(* The types are preserved by every step.                                  *)
LEMMA TypeStep == TypeOK /\ [Next]_vars => TypeOK'
<1> SUFFICES ASSUME TypeOK, [Next]_vars PROVE TypeOK'
  OBVIOUS
<1>t. /\ fix \in FixType /\ mEngineOn \in BOOLEAN /\ linked \in BOOLEAN
      /\ fix.navigating \in BOOLEAN /\ fix.recurrence \in Recurrence
  BY DEF TypeOK, FixType
<1>1. CASE Request
  <2>1. msgs' \in Seq(MsgType)
    <3>1. PICK m \in MsgType : msgs' = Append(msgs, m)
      BY <1>1, RequestPosts
    <3> QED BY <3>1 DEF TypeOK
  <2>2. count' \in [cmds : 0 .. MaxCmds, events : 0 .. MaxEvents, crashes : 0 .. MaxCrashes]
    BY <1>1, CountTyped DEF Request
  <2> QED BY <1>1, <2>1, <2>2 DEF Request, TypeOK, engine
<1>2. CASE StartHandler
  <2>1. PICK reg \in Replies, start \in Starts : fix' = Started(fix, reg, start)
    BY <1>2 DEF StartHandler
  <2>2. fix' \in FixType
    <3>1. CASE fix.navigating
      BY <1>t, <2>1, <3>1 DEF Started
    <3>2. CASE ~fix.navigating
      BY <1>t, <2>1, <3>2, StartedIs
    <3> QED BY <3>1, <3>2
  <2> QED BY <1>2, <2>2, Taken DEF StartHandler, TypeOK, engine, outside
<1>3. CASE StopHandler
  <2>1. fix' \in FixType /\ told' \in {"none", "session_begin", "session_end"}
    <3>1. CASE ~fix.navigating
      BY <1>3, <3>1 DEF StopHandler, TypeOK
    <3>2. CASE fix.navigating
      <4>1. PICK stop \in Replies, reg \in Replies :
               /\ fix' = SetInSession(StopFix(fix, stop, reg), FALSE)
               /\ told' = IF stop = "done" THEN "session_end" ELSE told
        BY <1>3, <3>2 DEF StopHandler
      <4>2. StopFix(fix, stop, reg) \in FixType
        BY <1>t, StopFixIs
      <4>3. SetInSession(StopFix(fix, stop, reg), FALSE) \in FixType
        BY <4>2, SetInSessionIs
      <4> QED BY <4>1, <4>3 DEF TypeOK
    <3> QED BY <3>1, <3>2
  <2> QED BY <1>3, <2>1, Taken DEF StopHandler, TypeOK, engine, outside
<1>4. CASE PositionMode
  <2> DEFINE f == [fix EXCEPT !.mode = Head(msgs).mode, !.recurrence = Head(msgs).recurrence]
  <2>1. Head(msgs).mode \in Mode /\ Head(msgs).recurrence \in Recurrence
    BY <1>4, Taken, MsgCarries DEF PositionMode
  <2>2. f \in FixType
    BY <1>t, <2>1 DEF FixType
  <2>3. PICK reg \in Replies, start \in Starts :
           fix' = IF fix.navigating THEN StartFix(f, reg, start) ELSE f
    BY <1>4 DEF PositionMode
  <2> HIDE DEF f
  <2>4. fix' \in FixType
    BY <1>t, <2>2, <2>3, StartFixIs
  <2> QED BY <1>4, <2>4, Taken DEF PositionMode, TypeOK, engine, outside
<1>5. CASE DeleteAidingData
  <2>1. Head(msgs).data \in SUBSET AidingData
    BY <1>5, Taken, MsgCarries DEF DeleteAidingData
  <2> QED BY <1>5, <2>1, Taken DEF DeleteAidingData, UpdateAidingData, TypeOK, outside
<1>6. CASE MuteOneSession
  BY <1>6, Taken DEF MuteOneSession, TypeOK, outside
<1>7. CASE ReportPosition
  <2>1. fix' \in FixType
    <3>1. CASE fix' = fix
      BY <1>t, <3>1
    <3>2. CASE fix' # fix
      <4>1. PICK stop \in Replies, reg \in Replies :
               fix' = SetInSession(IF Head(msgs).final THEN fix
                                   ELSE StopFix(fix, stop, reg), FALSE)
        BY <1>7, <3>2 DEF ReportPosition
      <4>2. StopFix(fix, stop, reg) \in FixType
        BY <1>t, StopFixIs
      <4> QED BY <1>t, <4>1, <4>2, SetInSessionIs
    <3> QED BY <3>1, <3>2
  <2> QED BY <1>7, <2>1, Taken DEF ReportPosition, TypeOK, engine, outside
<1>8. CASE UpdateEngineState
  <2>1. Head(msgs).on \in BOOLEAN
    BY <1>8, Taken, MsgCarries DEF UpdateEngineState
  <2>2. PICK reg \in Replies :
           fix' = IF mEngineOn /\ ~fix.inSession /\ ~Head(msgs).on
                    THEN RegisterEventMask(fix, reg) ELSE fix
    BY <1>8 DEF UpdateEngineState
  <2>3. fix' \in FixType
    BY <1>t, <2>2, RegisterIs
  <2> QED BY <1>8, <2>1, <2>3, Taken DEF UpdateEngineState, TypeOK, outside
<1>9. CASE ReportedStatus
  <2>1. Head(msgs).status \in Status
    BY <1>9, Taken, MsgCarries DEF ReportedStatus
  <2>2. ReportStatus(Head(msgs).status)
    BY <1>9 DEF ReportedStatus
  <2>3. /\ mute_session_state' \in {"none", "wait", "in_session"}
        /\ engine_status' \in {"none", "engine_on", "engine_off"}
    BY <2>1, <2>2, StatusTyped
  <2> QED BY <1>9, <2>3, Taken DEF ReportedStatus, UpdateAidingData, TypeOK, outside
<1>10. CASE EngineDown
  <2>1. /\ mute_session_state' \in {"none", "wait", "in_session"}
        /\ engine_status' \in {"none", "engine_on", "engine_off"}
    BY <1>10, StatusTyped DEF EngineDown, Status
  <2> QED BY <1>10, <2>1, Taken DEF EngineDown, TypeOK, outside
<1>11. CASE Reopen
  <2>1. fix' \in FixType /\ linked' \in BOOLEAN
    BY <1>11, <1>t DEF Reopen, FixType, TypeOK
  <2> QED BY <1>11, <2>1, Taken DEF Reopen, TypeOK, engine, outside
<1>12. CASE EngineUp
  <2>1. /\ mute_session_state' \in {"none", "wait", "in_session"}
        /\ engine_status' \in {"none", "engine_on", "engine_off"}
    BY <1>12, StatusTyped DEF EngineUp, Status
  <2>2. fix' \in FixType
    <3>1. CASE fix.navigating
      <4>1. PICK reg1 \in Replies, reg2 \in Replies, start1 \in Starts, start2 \in Starts :
               fix' = Started(SetInSession(StartFix(fix, reg1, start1), FALSE), reg2, start2)
        BY <1>12, <3>1 DEF EngineUp
      <4>2. StartFix(fix, reg1, start1) \in FixType
        BY <1>t, StartFixIs
      <4>3. /\ SetInSession(StartFix(fix, reg1, start1), FALSE) \in FixType
            /\ ~SetInSession(StartFix(fix, reg1, start1), FALSE).navigating
        BY <4>2, SetInSessionIs
      <4> QED BY <1>t, <4>1, <4>3, StartedIs
    <3>2. CASE ~fix.navigating
      BY <1>12, <1>t, <3>2 DEF EngineUp
    <3> QED BY <3>1, <3>2
  <2> QED BY <1>12, <2>1, <2>2, Taken DEF EngineUp, TypeOK, outside
<1>13. CASE Post
  <2>1. Head(cb) \in MsgType /\ Tail(cb) \in Seq(MsgType)
    BY <1>13 DEF Post, TypeOK
  <2>2. msgs' \in Seq(MsgType) /\ cb' \in Seq(MsgType)
    BY <1>13, <2>1 DEF Post, TypeOK
  <2> QED BY <1>13, <2>2 DEF Post, TypeOK, engine
<1>14. CASE ErrorCb
  <2>1. cb' \in Seq(MsgType)
    BY <1>14, MsgTyped DEF ErrorCb
  <2> QED BY <1>14, <2>1 DEF ErrorCb, TypeOK, engine
<1>15. CASE EngineTurns
  <2>1. modem' \in [up : BOOLEAN, engine : BOOLEAN] /\ modem'.engine \in BOOLEAN
    BY <1>15 DEF EngineTurns, TypeOK
  <2>2. count' \in [cmds : 0 .. MaxCmds, events : 0 .. MaxEvents, crashes : 0 .. MaxCrashes]
    BY <1>15, CountTyped DEF EngineTurns
  <2>3. cb' \in Seq(MsgType)
    BY <1>15, EventPosts
  <2> QED BY <1>15, <2>1, <2>2, <2>3 DEF EngineTurns, TypeOK, engine
<1>16. CASE Position
  <2>1. count' \in [cmds : 0 .. MaxCmds, events : 0 .. MaxEvents, crashes : 0 .. MaxCrashes]
    BY <1>16, CountTyped DEF Position
  <2>2. fix' \in FixType
    BY <1>16, <1>t DEF Position, FixType
  <2>3. cb' \in Seq(MsgType)
    BY <1>16, EventPosts
  <2> QED BY <1>16, <2>1, <2>2, <2>3 DEF Position, TypeOK, engine
<1>17. CASE Crash
  <2>1. count' \in [cmds : 0 .. MaxCmds, events : 0 .. MaxEvents, crashes : 0 .. MaxCrashes]
    BY <1>17, CountTyped DEF Crash
  <2>2. fix' \in FixType
    BY <1>17, <1>t DEF Crash, FixType
  <2> QED BY <1>17, <2>1, <2>2 DEF Crash, TypeOK, engine
<1>18. CASE Recover
  BY <1>18 DEF Recover, TypeOK, engine
<1>19. CASE UNCHANGED vars
  BY <1>19 DEF vars, engine, outside, TypeOK
<1> QED BY <1>1, <1>2, <1>3, <1>4, <1>5, <1>6, <1>7, <1>8, <1>9, <1>10, <1>11, <1>12,
           <1>13, <1>14, <1>15, <1>16, <1>17, <1>18, <1>19 DEF Next, Handle

-----------------------------------------------------------------------------
(* The order of the messages of a restart.                                 *)

(* Every handler takes the first message, and nothing but LocEngUp takes a *)
(* LocEngUp.                                                               *)
LEMMA HandleTakes ==
    ASSUME TypeOK, Handle
    PROVE  /\ msgs # <<>> /\ msgs' = Tail(msgs)
           /\ lost' = lost /\ cb' = cb
           /\ Head(msgs).type = "up" => EngineUp
           /\ Head(msgs).type = "ssr" => Reopen
BY DEF Handle, Takes, StartHandler, StopHandler, PositionMode, DeleteAidingData,
       MuteOneSession, ReportPosition, UpdateEngineState, ReportedStatus, EngineDown,
       Reopen, EngineUp, outside

(* SsrFollowed is inductive.                                               *)
LEMMA SsrStep == TypeOK /\ SsrFollowed /\ [Next]_vars => SsrFollowed'
<1> SUFFICES ASSUME TypeOK, SsrFollowed, [Next]_vars PROVE SsrFollowed'
  OBVIOUS
<1>t. cb \in Seq(MsgType) /\ msgs \in Seq(MsgType)
  BY DEF TypeOK
<1>1. CASE Request
  <2>1. PICK m \in MsgType : m.type # "ssr" /\ msgs' = Append(msgs, m)
    BY <1>1, RequestPosts
  <2>2. cb' = cb
    BY <1>1 DEF Request
  <2>3. Followed(msgs) => Followed(msgs')
    BY <1>t, <2>1, AppendFollowed
  <2> QED BY <2>2, <2>3 DEF SsrFollowed
<1>2. CASE Handle
  <2>1. cb' = cb /\ msgs # <<>> /\ msgs' = Tail(msgs)
    BY <1>2, HandleTakes
  <2>2. Followed(msgs) => Followed(msgs')
    BY <1>t, <2>1, TailFollowed
  <2> QED BY <2>1, <2>2 DEF SsrFollowed
<1>3. CASE Post
  <2>1. /\ cb # <<>> /\ cb' = Tail(cb) /\ msgs' = Append(msgs, Head(cb))
        /\ Head(cb) \in MsgType
    BY <1>3, <1>t DEF Post
  <2>2. Followed(cb')
    BY <1>t, <2>1, TailFollowed DEF SsrFollowed
  <2>3. CASE Head(cb).type = "up"
    <3>1. Followed(msgs')
      BY <1>t, <2>1, <2>3, UpFollows
    <3> QED BY <2>2, <3>1 DEF SsrFollowed
  <2>4. CASE Head(cb).type = "ssr"
    <3>1. Has(cb', "up")
      BY <1>t, <2>1, <2>4, TakenFollowed DEF SsrFollowed
    <3> QED BY <2>2, <3>1 DEF SsrFollowed
  <2>5. CASE Head(cb).type # "up" /\ Head(cb).type # "ssr"
    <3>1. Has(cb, "up") => Has(cb', "up")
      BY <1>t, <2>1, <2>5, TailKeeps
    <3>2. Followed(msgs) => Followed(msgs')
      BY <1>t, <2>1, <2>5, AppendFollowed
    <3> QED BY <2>2, <3>1, <3>2 DEF SsrFollowed
  <2> QED BY <2>3, <2>4, <2>5
<1>4. CASE ErrorCb
  <2>1. cb' = <<Msg("down"), Msg("ssr"), Msg("up")>>
    BY <1>4 DEF ErrorCb
  <2>2. /\ DOMAIN cb' = 1 .. 3 /\ cb'[3].type = "up"
        /\ cb'[1].type = "down" /\ cb'[2].type = "ssr"
    BY <2>1 DEF Msg
  <2> QED BY <2>2 DEF SsrFollowed, Followed, Has
<1>5. CASE EngineTurns \/ Position
  <2>1. msgs' = msgs
    BY <1>5 DEF EngineTurns, Position
  <2>2. cb' = cb \/ (cb = <<>> /\ \A i \in DOMAIN cb' : cb'[i].type # "ssr")
    BY <1>5, EventPosts
  <2>3. CASE cb' = cb
    BY <2>1, <2>3 DEF SsrFollowed
  <2>4. CASE cb = <<>> /\ \A i \in DOMAIN cb' : cb'[i].type # "ssr"
    <3>1. ~Has(cb, "up") /\ Followed(cb')
      BY <2>4 DEF Has, Followed
    <3> QED BY <2>1, <3>1 DEF SsrFollowed
  <2> QED BY <2>2, <2>3, <2>4
<1>6. CASE Crash \/ Recover \/ UNCHANGED vars
  <2>1. cb' = cb /\ msgs' = msgs
    BY <1>6 DEF Crash, Recover, vars, outside
  <2> QED BY <2>1 DEF SsrFollowed
<1> QED BY <1>1, <1>2, <1>3, <1>4, <1>5, <1>6 DEF Next

(* A restart that is due stays due until LocEngUp is worked off.           *)
LEMMA DueStays ==
    ASSUME TypeOK, RestartDue, [Next]_vars, ~EngineUp
    PROVE  RestartDue'
<1>t. cb \in Seq(MsgType) /\ msgs \in Seq(MsgType)
  BY DEF TypeOK
<1>1. CASE Request
  <2>1. PICK m \in MsgType : msgs' = Append(msgs, m)
    BY <1>1, RequestPosts
  <2>2. cb' = cb /\ lost' = lost
    BY <1>1 DEF Request
  <2>3. Has(msgs, "up") => Has(msgs', "up")
    BY <1>t, <2>1, AppendKeeps
  <2> QED BY <2>2, <2>3 DEF RestartDue
<1>2. CASE Handle
  <2>1. /\ cb' = cb /\ lost' = lost /\ msgs # <<>> /\ msgs' = Tail(msgs)
        /\ Head(msgs).type # "up"
    BY <1>2, HandleTakes
  <2>2. Has(msgs, "up") => Has(msgs', "up")
    BY <1>t, <2>1, TailKeeps
  <2> QED BY <2>1, <2>2 DEF RestartDue
<1>3. CASE Post
  <2>1. /\ cb # <<>> /\ cb' = Tail(cb) /\ msgs' = Append(msgs, Head(cb))
        /\ Head(cb) \in MsgType /\ lost' = lost
    BY <1>3, <1>t DEF Post
  <2>2. Has(msgs, "up") => Has(msgs', "up")
    BY <1>t, <2>1, AppendKeeps
  <2>3. CASE Head(cb).type = "up"
    <3>1. Has(msgs', "up")
      BY <1>t, <2>1, <2>3, AppendHas
    <3> QED BY <3>1 DEF RestartDue
  <2>4. CASE Head(cb).type # "up"
    <3>1. Has(cb, "up") => Has(cb', "up")
      BY <1>t, <2>1, <2>4, TailKeeps
    <3> QED BY <2>1, <2>2, <3>1 DEF RestartDue
  <2> QED BY <2>3, <2>4
<1>4. CASE ErrorCb
  <2>1. cb' = <<Msg("down"), Msg("ssr"), Msg("up")>>
    BY <1>4 DEF ErrorCb
  <2>2. 3 \in DOMAIN cb' /\ cb'[3].type = "up"
    BY <2>1 DEF Msg
  <2> QED BY <2>2 DEF RestartDue, Has
<1>5. CASE EngineTurns \/ Position
  <2>1. msgs' = msgs /\ lost' = lost
    BY <1>5 DEF EngineTurns, Position
  <2>2. cb' = cb \/ cb = <<>>
    BY <1>5, EventPosts
  <2>3. Has(cb, "up") => cb' = cb
    BY <2>2 DEF Has
  <2> QED BY <2>1, <2>3 DEF RestartDue
<1>6. CASE Crash \/ Recover \/ UNCHANGED vars
  <2>1. cb' = cb /\ msgs' = msgs
    BY <1>6 DEF Crash, Recover, vars, outside
  <2>2. lost' = lost \/ lost' = (lost \/ linked)
    BY <1>6 DEF Crash, Recover, vars, outside
  <2> QED BY <2>1, <2>2 DEF RestartDue
<1> QED BY <1>1, <1>2, <1>3, <1>4, <1>5, <1>6 DEF Next

-----------------------------------------------------------------------------
(* The session.                                                            *)

(* FixInv holds while the session is not touched: what it needs of the     *)
(* rest is that the link stays up and a due restart stays due.             *)
LEMMA FixUntouched ==
    ASSUME FixInv, fix' = fix, linked' = linked,
           fix.navigating => told' = "session_begin", RestartDue => RestartDue'
    PROVE  FixInv'
BY DEF FixInv, NavigatingIsTold, SessionIsReported, NoPhantomSession, NoOrphanSession

(* FixInv is preserved by every step.                                      *)
LEMMA FixStep == TypeOK /\ SsrFollowed /\ FixInv /\ [Next]_vars => FixInv'
<1> SUFFICES ASSUME TypeOK, SsrFollowed, FixInv, [Next]_vars PROVE FixInv'
  OBVIOUS
<1> USE DEF NavigatingIsTold, SessionIsReported, NoPhantomSession, NoOrphanSession
<1>t. /\ fix \in FixType /\ linked \in BOOLEAN /\ mEngineOn \in BOOLEAN
      /\ fix.navigating \in BOOLEAN /\ fix.inSession \in BOOLEAN
      /\ fix.registered \in BOOLEAN /\ fix.kept \in BOOLEAN /\ fix.missed \in BOOLEAN
      /\ fix.tracking \in Recurrence \cup {"none"} /\ fix.recurrence \in Recurrence
  BY DEF TypeOK, FixType
<1>d. RestartDue /\ ~EngineUp => RestartDue'
  BY DueStays
<1>1. CASE StartHandler
  <2>1. ~EngineUp /\ linked' = linked
    BY <1>1 DEF StartHandler, EngineUp, Takes
  <2>2. PICK reg \in Replies, start \in Starts : fix' = Started(fix, reg, start)
    BY <1>1 DEF StartHandler
  <2>3. told' = IF fix'.navigating /\ ~fix.navigating THEN "session_begin" ELSE told
    BY <1>1 DEF StartHandler
  <2>4. CASE fix.navigating
    <3>1. fix' = fix /\ told' = told
      BY <2>2, <2>3, <2>4 DEF Started
    <3> QED BY <1>d, <2>1, <3>1, FixUntouched DEF FixInv
  <2>5. CASE ~fix.navigating
    <3>1. fix'.navigating = (start = "done") /\ StartEffect(fix, fix', start)
      BY <1>t, <2>2, <2>5, StartedIs
    <3>2. fix.recurrence # "none"
      BY <1>t DEF Recurrence
    <3>3. CASE start = "done"
      BY <2>1, <2>3, <2>5, <3>1, <3>2, <3>3 DEF FixInv, StartEffect
    <3>4. CASE linked /\ start # "done"
      BY <2>1, <2>3, <2>5, <3>1, <3>4 DEF FixInv, StartEffect
    <3>5. CASE ~linked /\ start # "done"
      BY <2>1, <2>3, <2>5, <3>1, <3>2, <3>5 DEF FixInv, StartEffect
    <3> QED BY <3>3, <3>4, <3>5
  <2> QED BY <2>4, <2>5
<1>2. CASE StopHandler
  <2>1. ~EngineUp /\ linked' = linked
    BY <1>2 DEF StopHandler, EngineUp, Takes
  <2>2. CASE ~fix.navigating
    <3>1. fix' = fix /\ told' = told
      BY <1>2, <2>2 DEF StopHandler
    <3> QED BY <1>d, <2>1, <2>2, <3>1, FixUntouched
  <2>3. CASE fix.navigating
    <3>1. PICK stop \in Replies, reg \in Replies :
             fix' = SetInSession(StopFix(fix, stop, reg), FALSE)
      BY <1>2, <2>3 DEF StopHandler
    <3> DEFINE g == StopFix(fix, stop, reg)
    <3>2. /\ g \in FixType /\ (g.registered => fix.registered)
          /\ g.missed => linked \/ fix.missed
          /\ g.tracking = "none" \/ g.tracking = fix.tracking
          /\ linked /\ g.tracking # "none" => g.failed = "stop"
      BY <1>t, StopFixIs
    <3>3. fix' = SetInSession(g, FALSE)
      BY <3>1
    <3> HIDE DEF g
    <3>4. /\ fix'.navigating = FALSE /\ fix'.tracking = g.tracking
          /\ fix'.registered = g.registered /\ fix'.failed = g.failed
          /\ fix'.missed = g.missed
      BY <3>2, <3>3, SetInSessionIs
    <3> QED BY <2>1, <3>2, <3>4 DEF FixInv
  <2> QED BY <2>2, <2>3
<1>3. CASE PositionMode
  <2> DEFINE f == [fix EXCEPT !.mode = Head(msgs).mode, !.recurrence = Head(msgs).recurrence]
  <2>1. ~EngineUp /\ linked' = linked /\ told' = told
    BY <1>3 DEF PositionMode, EngineUp, Takes
  <2>2. Head(msgs).mode \in Mode /\ Head(msgs).recurrence \in Recurrence
    BY <1>3, Taken, MsgCarries DEF PositionMode
  <2>3. /\ f \in FixType /\ f.recurrence \in Recurrence
        /\ f.navigating = fix.navigating /\ f.inSession = fix.inSession
        /\ f.registered = fix.registered /\ f.tracking = fix.tracking
        /\ f.failed = fix.failed /\ f.missed = fix.missed
    BY <1>t, <2>2 DEF FixType
  <2>4. PICK reg \in Replies, start \in Starts :
           fix' = IF fix.navigating THEN StartFix(f, reg, start) ELSE f
    BY <1>3 DEF PositionMode
  <2> HIDE DEF f
  <2>5. CASE ~fix.navigating
    BY <2>1, <2>3, <2>4, <2>5 DEF FixInv
  <2>6. CASE fix.navigating
    <3>1. fix'.navigating = f.navigating /\ StartEffect(f, fix', start)
      BY <1>t, <2>3, <2>4, <2>6, StartFixIs
    <3>2. f.recurrence # "none"
      BY <2>3 DEF Recurrence
    <3>3. ~linked => RestartDue'
      <4>1. ~linked => fix.registered = FALSE /\ fix.missed = FALSE
        BY <1>t DEF FixInv
      <4>2. ~linked => RestartDue
        BY <2>6, <4>1 DEF FixInv
      <4> QED BY <1>d, <2>1, <4>2
    <3>4. CASE start = "done"
      BY <2>1, <2>3, <2>6, <3>1, <3>2, <3>4 DEF FixInv, StartEffect
    <3>5. CASE linked /\ start # "done"
      BY <2>1, <2>3, <2>6, <3>1, <3>5 DEF FixInv, StartEffect
    <3>6. CASE ~linked
      BY <2>1, <2>3, <2>6, <3>1, <3>3, <3>6 DEF FixInv, StartEffect
    <3> QED BY <3>4, <3>5, <3>6
  <2> QED BY <2>5, <2>6
<1>4. CASE DeleteAidingData \/ MuteOneSession
  <2>1. ~EngineUp /\ fix' = fix /\ linked' = linked /\ told' = told
    BY <1>4 DEF DeleteAidingData, MuteOneSession, EngineUp, Takes
  <2> QED BY <1>d, <2>1, FixUntouched DEF FixInv
<1>5. CASE ReportPosition
  <2>1. ~EngineUp /\ linked' = linked /\ told' = told
    BY <1>5 DEF ReportPosition, EngineUp, Takes
  <2>2. CASE fix' = fix
    BY <1>d, <2>1, <2>2, FixUntouched DEF FixInv
  <2>3. CASE fix' # fix
    <3>1. PICK stop \in Replies, reg \in Replies :
             /\ fix.recurrence = "single"
             /\ fix' = SetInSession(IF Head(msgs).final THEN fix
                                    ELSE StopFix(fix, stop, reg), FALSE)
      BY <1>5, <2>3 DEF ReportPosition
    <3>2. /\ fix'.navigating = FALSE
          /\ fix'.registered => fix.registered
          /\ fix'.missed => linked \/ fix.missed
          /\ \/ fix'.tracking = "none"
             \/ fix'.tracking = fix.tracking /\ (fix'.failed = fix.failed \/ fix'.failed = "stop")
             \/ fix'.tracking = fix.tracking /\ ~linked
      <4>1. CASE Head(msgs).final
        BY <1>t, <3>1, <4>1, SetInSessionIs
      <4>2. CASE ~Head(msgs).final
        <5> DEFINE g == StopFix(fix, stop, reg)
        <5>1. /\ g \in FixType
              /\ g.registered => fix.registered
              /\ g.missed => linked \/ fix.missed
              /\ g.tracking = "none" \/ g.tracking = fix.tracking
              /\ linked /\ g.tracking # "none" => g.failed = "stop"
          BY <1>t, StopFixIs
        <5>2. fix' = SetInSession(g, FALSE)
          BY <3>1, <4>2
        <5> HIDE DEF g
        <5>3. /\ fix'.navigating = FALSE /\ fix'.tracking = g.tracking
              /\ fix'.registered = g.registered /\ fix'.failed = g.failed
              /\ fix'.missed = g.missed
          BY <5>1, <5>2, SetInSessionIs
        <5> QED BY <5>1, <5>3
      <4> QED BY <4>1, <4>2
    <3> QED BY <2>1, <3>1, <3>2 DEF FixInv
  <2> QED BY <2>2, <2>3
<1>6. CASE UpdateEngineState
  <2>1. ~EngineUp /\ linked' = linked /\ told' = told
    BY <1>6 DEF UpdateEngineState, EngineUp, Takes
  <2>2. CASE fix' = fix
    BY <1>d, <2>1, <2>2, FixUntouched DEF FixInv
  <2>3. CASE fix' # fix
    <3>1. PICK reg \in Replies : ~fix.inSession /\ fix' = RegisterEventMask(fix, reg)
      BY <1>6, <2>3 DEF UpdateEngineState
    <3>2. /\ fix'.navigating = fix.navigating /\ fix'.tracking = fix.tracking
          /\ fix'.failed = fix.failed /\ (fix'.missed => linked)
          /\ fix'.registered = FALSE \/ fix'.registered = fix.registered
      BY <1>t, <3>1, RegisterIs, RepliesAre
    <3> QED BY <2>1, <3>1, <3>2 DEF FixInv
  <2> QED BY <2>2, <2>3
<1>7. CASE ReportedStatus
  <2>1. ~EngineUp /\ fix' = fix /\ linked' = linked
    BY <1>7 DEF ReportedStatus, EngineUp, Takes
  <2>2. fix.navigating => told' = "session_begin"
    BY <1>7 DEF ReportedStatus, Passed, FixInv
  <2> QED BY <1>d, <2>1, <2>2, FixUntouched
<1>8. CASE EngineDown
  <2>1. ~EngineUp /\ fix' = fix /\ linked' = linked /\ told' = told
    BY <1>8 DEF EngineDown, EngineUp, Takes
  <2> QED BY <1>d, <2>1, FixUntouched DEF FixInv
<1>9. CASE Reopen
  <2>1. told' = told /\ cb' = cb
    BY <1>9 DEF Reopen, outside
  <2>2. /\ fix'.navigating = fix.navigating /\ fix'.inSession = fix.inSession
        /\ fix'.registered = FALSE /\ fix'.tracking = "none"
        /\ fix'.failed = "none" /\ fix'.missed = FALSE
    BY <1>9, <1>t DEF Reopen, FixType
  <2>3. RestartDue'
    <3>1. Head(msgs).type = "ssr" /\ msgs # <<>> /\ msgs' = Tail(msgs) /\ msgs \in Seq(MsgType)
      BY <1>9, Taken DEF Reopen, TypeOK
    <3>2. Has(cb', "up") \/ Has(msgs', "up")
      BY <2>1, <3>1, TakenFollowed DEF SsrFollowed
    <3> QED BY <3>2 DEF RestartDue
  <2> QED BY <2>1, <2>2, <2>3 DEF FixInv
<1>10. CASE EngineUp
  <2>1. linked' = linked
    BY <1>10 DEF EngineUp
  <2>2. told' = IF fix'.navigating THEN "session_begin" ELSE told
    BY <1>10 DEF EngineUp
  <2>3. CASE ~fix.navigating
    <3>1. fix' = fix
      BY <1>10, <2>3 DEF EngineUp
    <3> QED BY <2>1, <2>2, <2>3, <3>1 DEF FixInv
  <2>4. CASE fix.navigating
    <3>1. PICK reg1 \in Replies, reg2 \in Replies, start1 \in Starts, start2 \in Starts :
             fix' = Started(SetInSession(StartFix(fix, reg1, start1), FALSE), reg2, start2)
      BY <1>10, <2>4 DEF EngineUp
    <3> DEFINE a == StartFix(fix, reg1, start1)
               b == SetInSession(a, FALSE)
    <3>2. a \in FixType /\ StartEffect(fix, a, start1)
      BY <1>t, StartFixIs
    <3>3. /\ b \in FixType /\ b.navigating = FALSE /\ b.recurrence = a.recurrence
          /\ b.tracking = a.tracking /\ b.registered = a.registered
      BY <3>2, SetInSessionIs
    <3>4. fix' = Started(b, reg2, start2)
      BY <3>1
    <3> HIDE DEF a, b
    <3>5. fix'.navigating = (start2 = "done") /\ StartEffect(b, fix', start2)
      BY <1>t, <3>3, <3>4, StartedIs
    <3>6. fix.recurrence # "none"
      BY <1>t DEF Recurrence
    <3>7. CASE start2 = "done"
      BY <2>1, <2>2, <3>2, <3>3, <3>5, <3>6, <3>7 DEF FixInv, StartEffect
    <3>8. CASE linked /\ start2 # "done"
      BY <2>1, <2>2, <3>5, <3>8 DEF FixInv, StartEffect
    <3>9. CASE ~linked /\ start2 # "done"
      BY <2>1, <2>2, <3>2, <3>3, <3>5, <3>9 DEF FixInv, StartEffect
    <3> QED BY <3>7, <3>8, <3>9
  <2> QED BY <2>3, <2>4
<1>11. CASE Request \/ Post \/ ErrorCb \/ EngineTurns \/ Recover \/ UNCHANGED vars
  <2>1. fix' = fix /\ linked' = linked /\ told' = told
    BY <1>11 DEF Request, Post, ErrorCb, EngineTurns, Recover, vars
  <2>2. CASE EngineUp
    BY <1>10, <2>2
  <2>3. CASE ~EngineUp
    BY <1>d, <2>1, <2>3, FixUntouched DEF FixInv
  <2> QED BY <2>2, <2>3
<1>12. CASE Position
  <2>1. linked' = linked /\ told' = told /\ msgs' = msgs
    BY <1>12 DEF Position
  <2>2. CASE fix' = fix
    <3>1. CASE EngineUp
      BY <1>10, <3>1
    <3>2. CASE ~EngineUp
      BY <1>d, <2>1, <2>2, <3>2, FixUntouched DEF FixInv
    <3> QED BY <3>1, <3>2
  <2>3. CASE fix' # fix
    <3>1. /\ fix.tracking = "single" /\ fix' = [fix EXCEPT !.tracking = "none"]
      BY <1>12, <2>3 DEF Position
    <3>2. /\ fix'.navigating = fix.navigating /\ fix'.inSession = fix.inSession
          /\ fix'.registered = fix.registered /\ fix'.tracking = "none"
          /\ fix'.kept = fix.kept /\ fix'.missed = fix.missed
          /\ fix'.failed = fix.failed /\ fix'.recurrence = fix.recurrence
      BY <1>t, <3>1 DEF FixType
    <3>3. CASE EngineUp
      BY <1>10, <3>3
    <3>4. CASE ~EngineUp
      BY <1>d, <2>1, <3>1, <3>2, <3>4 DEF FixInv
    <3> QED BY <3>3, <3>4
  <2> QED BY <2>2, <2>3
<1>13. CASE Crash
  <2>1. told' = told /\ linked' = FALSE /\ (linked => lost')
    BY <1>13, <1>t DEF Crash
  <2>2. /\ fix'.navigating = fix.navigating /\ fix'.inSession = fix.inSession
        /\ fix'.registered = FALSE /\ fix'.tracking = "none"
        /\ fix'.failed = "none" /\ fix'.missed = FALSE
    BY <1>13, <1>t DEF Crash, FixType
  <2>3. fix.navigating => RestartDue'
    <3>1. CASE linked
      BY <2>1, <3>1 DEF RestartDue
    <3>2. CASE ~linked
      <4>1. msgs' = msgs /\ cb' = cb /\ lost' = (lost \/ linked)
        BY <1>13 DEF Crash
      <4>2. RestartDue => RestartDue'
        BY <4>1 DEF RestartDue
      <4>3. fix.registered = FALSE /\ fix.missed = FALSE
        BY <1>t, <3>2 DEF FixInv
      <4> QED BY <4>2, <4>3 DEF FixInv
    <3> QED BY <3>1, <3>2
  <2> QED BY <2>1, <2>2, <2>3 DEF FixInv
<1> QED BY <1>1, <1>2, <1>3, <1>4, <1>5, <1>6, <1>7, <1>8, <1>9, <1>10, <1>11, <1>12, <1>13
        DEF Next, Handle

-----------------------------------------------------------------------------
(* Theorems.                                                               *)

(* The types of FixSession, for every value of the constants.              *)
THEOREM TypeCorrect == Spec => []TypeOK
<1>1. Init => TypeOK
  <2> SUFFICES ASSUME Init PROVE TypeOK
    OBVIOUS
  <2>1. fix \in FixType
    BY BoundsAssumption DEF Init, FixType, Recurrence
  <2>2. count \in [cmds : 0 .. MaxCmds, events : 0 .. MaxEvents, crashes : 0 .. MaxCrashes]
    BY BoundsAssumption DEF Init
  <2>3. modem \in [up : BOOLEAN, engine : BOOLEAN]
    BY DEF Init
  <2>4. cb \in Seq(MsgType) /\ msgs \in Seq(MsgType)
    BY DEF Init
  <2> QED BY <2>1, <2>2, <2>3, <2>4 DEF Init, TypeOK
<1>2. TypeOK /\ [Next]_vars => TypeOK'
  BY TypeStep
<1> QED BY <1>1, <1>2, PTL DEF Spec

(* The inductive invariant.                                                *)
THEOREM SessionInvariant == Spec => [](SsrFollowed /\ FixInv)
<1>1. Init => SsrFollowed /\ FixInv
  <2> SUFFICES ASSUME Init PROVE SsrFollowed /\ FixInv
    OBVIOUS
  <2>1. Followed(cb) /\ Followed(msgs)
    BY DEF Init, Followed
  <2>2. FixInv
    BY DEF Init, FixInv, NavigatingIsTold, SessionIsReported, NoPhantomSession, NoOrphanSession
  <2> QED BY <2>1, <2>2 DEF SsrFollowed
<1>2. TypeOK /\ SsrFollowed /\ FixInv /\ [Next]_vars => (SsrFollowed /\ FixInv)'
  BY SsrStep, FixStep
<1> QED BY <1>1, <1>2, TypeCorrect, PTL DEF Spec

(* The adapter does not navigate for a modem that has forgotten it, but    *)
(* when the start of a new mode failed or the restart is still due.        *)
THEOREM NeverPhantom == Spec => []NoPhantomSession
<1>1. FixInv => NoPhantomSession
  BY DEF FixInv
<1> QED BY <1>1, SessionInvariant, PTL

(* The modem does not track for an adapter that ended the session, but     *)
(* when the last start or stop failed on a modem that runs.                *)
THEOREM NeverOrphan == Spec => []NoOrphanSession
<1>1. FixInv => NoOrphanSession
  BY DEF FixInv
<1> QED BY <1>1, SessionInvariant, PTL

(* The framework is not told of the end of a session that navigates.       *)
THEOREM NavigatingAlwaysTold == Spec => []NavigatingIsTold
<1>1. FixInv => NavigatingIsTold
  BY DEF FixInv
<1> QED BY <1>1, SessionInvariant, PTL

(* The reports of every session that runs are asked of the modem and let   *)
(* through, unless their registration failed or the restart is still due.  *)
THEOREM SessionsAlwaysReported == Spec => []SessionIsReported
<1>1. FixInv => SessionIsReported
  BY DEF FixInv
<1> QED BY <1>1, SessionInvariant, PTL

=============================================================================
