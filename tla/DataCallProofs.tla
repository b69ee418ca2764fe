--------------------------- MODULE DataCallProofs ---------------------------
(* Theorems about DataCall, for any number of sessions, DSI handles and    *)
(* profiles.                                                               *)
EXTENDS DataCall, SequenceTheorems, TLAPS

NoCall == \A d \in Dsi : calls[d] = "none"

(* Nothing is left of a call before the next one is opened.                *)
Quiet == task # Ready \/ nif = "released" => msgs = <<>> /\ NoCall

(* The events of one call, in order; it is over once its end is queued.    *)
EventsFit ==
    /\ msgs \in {<<>>, <<"opened">>, <<"closed">>, <<"opened", "closed">>}
    /\ msgs \in {<<"closed">>, <<"opened", "closed">>} => NoCall
    /\ msgs = <<"opened">> => \A d \in Dsi : calls[d] # "starting"

(* The call is started on the handle of the session just opened.           *)
StartFits ==
    task.pc = "start" => handle # None /\ net[handle] # None /\ owner[net[handle]] = handle

CallInv ==
    /\ TypeOK
    /\ LiveCallIsOurs
    /\ CallbackDataIsLive
    /\ Quiet
    /\ EventsFit
    /\ StartFits

-----------------------------------------------------------------------------
(* The types, one step per group of actions.                               *)

LEMMA InitTyped == Init => TypeOK
  BY DEF Init, TypeOK, Ready, Opening

LEMMA DecodedTyped ==
    ASSUME NEW m \in Settings, NEW s \in Settings PROVE Decoded(m, s) \in Settings
  BY DEF Settings, Decoded

LEMMA ClearedTyped == Cleared \in Settings
  BY DEF Settings, Cleared

LEMMA ReturnTyped ==
    ASSUME TypeOK, NEW ok \in BOOLEAN, Return(ok)
    PROVE  /\ task' = Ready
           /\ nif' \in {"released", "pending"}
  BY DEF Return, TypeOK

LEMMA CloseTyped ==
    ASSUME TypeOK, Close
    PROVE  /\ handle' \in Session \cup {None}
           /\ net' \in [Session -> Dsi \cup {None}]
           /\ owner' \in [Dsi -> Session \cup {None}]
           /\ calls' \in [Dsi -> {"none", "starting", "up", "stopping"}]
  BY DEF Close, TypeOK

(* What an open does to session and handle.                                *)
LEMMA OpenEffect ==
    ASSUME NEW s \in Session, OpenSession(s)
    PROVE  /\ handle' = s
           /\ \/ \E d \in Dsi : /\ owner[d] = None
                               /\ owner' = [owner EXCEPT ![d] = s]
                               /\ net' = [net EXCEPT ![s] = d]
              \/ net' = [net EXCEPT ![s] = None] /\ owner' = owner
           /\ UNCHANGED <<msgs, calls>>
  BY DEF OpenSession

LEMMA StepTyped ==
    ASSUME TypeOK, [Next]_vars PROVE TypeOK'
<1> USE DataCallAssumption
<1>1. CASE Request
  BY <1>1 DEF Request, Open, TypeOK
<1>2. CASE GetProfileList
  <2>1. ASSUME NEW l \in ProfileLists,
               task' = [pc |-> "search", list |-> l, i |-> 1, mem |-> Cleared, ip |-> "4"],
               UNCHANGED nif
        PROVE  TypeOK'
    BY <1>2, <2>1, ClearedTyped DEF GetProfileList, TypeOK, Ips
  <2>2. CASE Return(FALSE)
    BY <1>2, <2>2, ReturnTyped DEF GetProfileList, TypeOK
  <2>3. QED
    BY <1>2, <2>1, <2>2 DEF GetProfileList
<1>3. CASE Search
  <2>1. task \in [pc : {"search", "release", "start"}, list : Seq(Settings),
                  i : Nat, mem : Settings, ip : Ips]
    BY <1>3 DEF Search, At, TypeOK, Ready, Opening
  <2>2. IpVersion(Decoded(task.mem, task.list[task.i]).pdp) \in Ips
    BY DEF IpVersion, Ips
  <2> DEFINE ip == IpVersion(Decoded(task.mem, task.list[task.i]).pdp)
  <2>3. \/ task' = [task EXCEPT !.pc = "release", !.ip = ip]
        \/ task' = [task EXCEPT !.i = @ + 1, !.mem = Cleared]
    BY <1>3 DEF Search
  <2>4. ip \in Ips
    BY <2>2
  <2> HIDE DEF ip
  <2>5. task' \in [pc : {"search", "release", "start"}, list : Seq(Settings),
                   i : Nat, mem : Settings, ip : Ips]
    <3>1. CASE task' = [task EXCEPT !.pc = "release", !.ip = ip]
      BY <2>1, <2>4, <3>1
    <3>2. CASE task' = [task EXCEPT !.i = @ + 1, !.mem = Cleared]
      <4>1. task' = [pc |-> task.pc, list |-> task.list, i |-> task.i + 1, mem |-> Cleared, ip |-> task.ip]
        BY <2>1, <3>2
      <4>2. task.i + 1 \in Nat
        BY <2>1
      <4>3. QED
        BY <2>1, <4>1, <4>2, ClearedTyped
    <3>3. QED
      BY <2>3, <3>1, <3>2
  <2>6. QED
    BY <1>3, <2>5 DEF Search, TypeOK
<1>4. CASE SearchFailed
  BY <1>4, ReturnTyped DEF SearchFailed, TypeOK
<1>5. ASSUME NEW s \in Session, OpenSession(s) PROVE TypeOK'
  <2>1. task \in [pc : {"search", "release", "start"}, list : Seq(Settings),
                  i : Nat, mem : Settings, ip : Ips]
    BY <1>5 DEF OpenSession, At, TypeOK, Ready, Opening
  <2>2. task' = Ready \/ task' = [task EXCEPT !.pc = "start"]
    BY <1>5 DEF OpenSession, Return
  <2>3. task' = Ready \/ task' \in [pc : {"search", "release", "start"}, list : Seq(Settings),
                                    i : Nat, mem : Settings, ip : Ips]
    BY <2>1, <2>2
  <2>4. nif' \in {"released", "pending", "acquired", "releasing"}
    BY <1>5, ReturnTyped DEF OpenSession, TypeOK
  <2>5. /\ handle' \in Session \cup {None}
        /\ net' \in [Session -> Dsi \cup {None}]
        /\ owner' \in [Dsi -> Session \cup {None}]
    <3>1. ASSUME NEW d \in Dsi, owner' = [owner EXCEPT ![d] = s], net' = [net EXCEPT ![s] = d]
          PROVE  /\ net' \in [Session -> Dsi \cup {None}]
                 /\ owner' \in [Dsi -> Session \cup {None}]
      BY <3>1 DEF TypeOK
    <3>2. CASE net' = [net EXCEPT ![s] = None] /\ owner' = owner
      BY <1>5, <3>2, OpenEffect DEF TypeOK
    <3>3. QED
      BY <1>5, <3>1, <3>2, OpenEffect
  <2>6. UNCHANGED <<msgs, calls>>
    BY <1>5, OpenEffect
  <2>7. /\ msgs' \in Seq({"opened", "closed"})
        /\ calls' \in [Dsi -> {"none", "starting", "up", "stopping"}]
    BY <2>6 DEF TypeOK
  <2>8. task' \in {Ready, Opening} \/ task' \in [pc : {"search", "release", "start"}, list : Seq(Settings),
                                    i : Nat, mem : Settings, ip : Ips]
    BY <2>3
  <2>9. QED
    BY <2>4, <2>5, <2>7, <2>8 DEF TypeOK
<1>6. CASE StartCall
  BY <1>6, ReturnTyped DEF StartCall, TypeOK
<1>7. CASE StopCall
  BY <1>7 DEF StopCall, TypeOK
<1>8. CASE TakeOpened
  BY <1>8 DEF TakeOpened, Take, TypeOK
<1>9. CASE TakeClosed
  BY <1>9, CloseTyped DEF TakeClosed, Take, Open, TypeOK
<1>10. ASSUME NEW d \in Dsi, CallUp(d) PROVE TypeOK'
  BY <1>10 DEF CallUp, TypeOK
<1>11. ASSUME NEW d \in Dsi, CallGone(d) PROVE TypeOK'
  BY <1>11 DEF CallGone, TypeOK
<1>12. CASE UNCHANGED vars
  BY <1>12 DEF vars, TypeOK
<1>13. QED
  BY <1>1, <1>2, <1>3, <1>4, <1>5, <1>6, <1>7, <1>8, <1>9, <1>10, <1>11, <1>12 DEF Next

-----------------------------------------------------------------------------
(* The invariant.                                                          *)

LEMMA NoCallIsOurs == NoCall => LiveCallIsOurs
  BY DEF NoCall, LiveCallIsOurs

(* A step of the open that leaves handles and calls alone.                 *)
LEMMA StepWithin ==
    ASSUME CallInv, task # Ready, UNCHANGED <<msgs, handle, net, owner, calls>>,
           task'.pc # "start"
    PROVE  /\ LiveCallIsOurs' /\ CallbackDataIsLive' /\ Quiet' /\ EventsFit' /\ StartFits'
<1>1. NoCall /\ NoCall'
  BY DEF CallInv, Quiet, NoCall
<1>2. LiveCallIsOurs'
  BY <1>1 DEF NoCall, LiveCallIsOurs
<1>3. CallbackDataIsLive'
  BY DEF CallInv, CallbackDataIsLive
<1>4. Quiet' /\ EventsFit'
  BY <1>1 DEF CallInv, Quiet, EventsFit, NoCall
<1>5. QED
  BY <1>2, <1>3, <1>4 DEF StartFits

LEMMA CloseQuiet ==
    ASSUME CallInv, NoCall, Close
    PROVE  NoCall' /\ CallbackDataIsLive'
<1>1. CASE handle = None
  BY <1>1 DEF Close, NoCall, CallInv, CallbackDataIsLive
<1>2. CASE handle # None
  <2>1. NoCall'
    BY <1>2 DEF Close, NoCall
  <2>2. ASSUME NEW d \in Dsi, owner'[d] # None PROVE net'[owner'[d]] = d
    <3>1. d # net[handle] /\ owner'[d] = owner[d]
      BY <1>2, <2>2 DEF Close
    <3>2. net[owner[d]] = d /\ owner[d] \in Session
      BY <2>2, <3>1 DEF CallInv, TypeOK, CallbackDataIsLive
    <3>3. owner[d] # handle
      BY <3>1, <3>2
    <3>4. QED
      BY <1>2, <3>1, <3>2, <3>3 DEF Close, CallInv, TypeOK
  <2>3. QED
    BY <2>1, <2>2 DEF CallbackDataIsLive
<1>3. QED
  BY <1>1, <1>2

(* The queues of one call, at either end.                                  *)
LEMMA TailOne == \A e : Tail(<<e>>) = <<>>
  OBVIOUS

LEMMA TailTwo == \A e, f : Tail(<<e, f>>) = <<f>>
  OBVIOUS

LEMMA Append1 == \A e : Append(<<>>, e) = <<e>>
  OBVIOUS

LEMMA EventsHead ==
    ASSUME EventsFit, msgs # <<>>
    PROVE  /\ Head(msgs) = "opened" => msgs \in {<<"opened">>, <<"opened", "closed">>}
           /\ Head(msgs) = "closed" => msgs = <<"closed">>
<1>1. Head(<<"opened">>) = "opened" /\ Head(<<"opened", "closed">>) = "opened"
  OBVIOUS
<1>2. Head(<<"closed">>) = "closed"
  OBVIOUS
<1>3. QED
  BY <1>1, <1>2 DEF EventsFit

LEMMA InitInv == Init => CallInv
<1>1. Init => NoCall
  BY DEF Init, NoCall
<1>2. QED
  BY <1>1, InitTyped, NoCallIsOurs
     DEF Init, CallInv, CallbackDataIsLive, Quiet, EventsFit, StartFits, Ready

LEMMA StepInv == CallInv /\ [Next]_vars => CallInv'
<1> SUFFICES ASSUME CallInv, [Next]_vars PROVE CallInv'
  OBVIOUS
<1> USE DataCallAssumption
<1>0. TypeOK /\ TypeOK'
  BY StepTyped DEF CallInv
<1>1. CASE Request
  <2>1. task # Ready \/ nif = "released"
    BY <1>1 DEF Request
  <2>2. NoCall /\ msgs = <<>> /\ NoCall'
    BY <1>1, <2>1 DEF CallInv, Quiet, NoCall, Request
  <2>3. QED
    BY <1>0, <1>1, <2>2
       DEF Request, Open, Opening, CallInv, LiveCallIsOurs, CallbackDataIsLive, Quiet, EventsFit,
           StartFits, NoCall
<1>2. CASE GetProfileList
  <2>1. task # Ready /\ task'.pc # "start"
    BY <1>2 DEF GetProfileList, At, Return, Ready
  <2>2. QED
    BY <1>0, <1>2, <2>1, StepWithin DEF GetProfileList, CallInv
<1>3. CASE Search
  <2>1. task # Ready /\ task'.pc # "start"
    <3>1. task.pc = "search"
      BY <1>3 DEF Search, At
    <3>2. task \in [pc : {"search", "release", "start"}, list : Seq(Settings),
                    i : Nat, mem : Settings, ip : Ips]
      BY <1>0, <3>1 DEF TypeOK, Ready, Opening
    <3>3. \/ \E ip : task' = [task EXCEPT !.pc = "release", !.ip = ip]
          \/ task' = [task EXCEPT !.i = @ + 1, !.mem = Cleared]
      BY <1>3 DEF Search
    <3>4. task'.pc # "start"
      BY <3>1, <3>2, <3>3
    <3>5. QED
      BY <3>1, <3>4 DEF Ready
  <2>2. QED
    BY <1>0, <1>3, <2>1, StepWithin DEF Search, CallInv
<1>4. CASE SearchFailed
  <2>1. task # Ready /\ task'.pc # "start"
    BY <1>4 DEF SearchFailed, At, Return, Ready
  <2>2. QED
    BY <1>0, <1>4, <2>1, StepWithin DEF SearchFailed, CallInv
<1>5. ASSUME NEW s \in Session, OpenSession(s) PROVE CallInv'
  <2>1. task # Ready /\ (\A d \in Dsi : owner[d] # s)
    BY <1>5 DEF OpenSession, At, Ready
  <2>2. NoCall /\ msgs = <<>> /\ NoCall' /\ msgs' = <<>>
    BY <1>5, <2>1, OpenEffect DEF CallInv, Quiet, NoCall
  <2>3. CallbackDataIsLive'
    <3>1. ASSUME NEW d \in Dsi, owner' = [owner EXCEPT ![d] = s], net' = [net EXCEPT ![s] = d]
          PROVE  CallbackDataIsLive'
      BY <1>0, <2>1, <3>1 DEF CallInv, CallbackDataIsLive, TypeOK
    <3>2. CASE net' = [net EXCEPT ![s] = None] /\ owner' = owner
      BY <1>0, <2>1, <3>2 DEF CallInv, CallbackDataIsLive, TypeOK
    <3>3. QED
      BY <1>5, <3>1, <3>2, OpenEffect
  <2>4. StartFits'
    <3>1. CASE task' = Ready
      BY <3>1 DEF StartFits, Ready
    <3>2. CASE task' # Ready
      <4>1. PICK d \in Dsi : owner' = [owner EXCEPT ![d] = s] /\ net' = [net EXCEPT ![s] = d]
        BY <1>5, <3>2 DEF OpenSession, Return
      <4>2. handle' = s /\ s # None
        BY <1>5, OpenEffect
      <4>3. net'[s] = d /\ owner'[d] = s /\ d # None
        BY <1>0, <4>1 DEF TypeOK
      <4>4. QED
        BY <4>2, <4>3 DEF StartFits
    <3>3. QED
      BY <3>1, <3>2
  <2>5. LiveCallIsOurs' /\ Quiet' /\ EventsFit'
    BY <2>2 DEF LiveCallIsOurs, Quiet, EventsFit, NoCall
  <2>6. QED
    BY <1>0, <2>3, <2>4, <2>5 DEF CallInv
<1>6. CASE StartCall
  <2>1. task # Ready /\ task' = Ready
    BY <1>6 DEF StartCall, At, Ready, Return
  <2>2. NoCall /\ msgs = <<>> /\ msgs' = <<>>
    BY <1>6, <2>1 DEF CallInv, Quiet, StartCall
  <2>3. handle # None /\ net[handle] \in Dsi /\ owner[net[handle]] = handle
    BY <1>0, <1>6 DEF StartCall, At, CallInv, StartFits, TypeOK
  <2>4. StartFits' /\ CallbackDataIsLive'
    BY <1>6, <2>1 DEF StartCall, StartFits, Ready, CallInv, CallbackDataIsLive
  <2>5. CASE UNCHANGED calls
    <3>1. NoCall'
      BY <2>2, <2>5 DEF NoCall
    <3>2. LiveCallIsOurs' /\ Quiet' /\ EventsFit'
      BY <2>2, <3>1 DEF LiveCallIsOurs, Quiet, EventsFit, NoCall
    <3>3. QED
      BY <1>0, <2>4, <3>2 DEF CallInv
  <2>6. CASE calls' = [calls EXCEPT ![net[handle]] = "starting"] /\ Return(TRUE)
    <3>1. nif' = "pending"
      BY <2>6 DEF Return
    <3>2. \A d \in Dsi : calls'[d] # "none" => d = net[handle]
      BY <1>0, <2>2, <2>3, <2>6 DEF TypeOK, NoCall
    <3>3. LiveCallIsOurs'
      BY <1>6, <2>3, <3>1, <3>2 DEF LiveCallIsOurs, StartCall
    <3>4. Quiet' /\ EventsFit'
      BY <2>1, <2>2, <3>1 DEF Quiet, EventsFit
    <3>5. QED
      BY <1>0, <2>4, <3>3, <3>4 DEF CallInv
  <2>7. QED
    BY <1>6, <2>5, <2>6 DEF StartCall
<1>7. CASE StopCall
  <2>1. task = Ready /\ task' = Ready /\ nif # "released" /\ nif' = "releasing"
    BY <1>7 DEF StopCall
  <2>2. UNCHANGED <<msgs, handle, net, owner>>
    BY <1>7 DEF StopCall
  <2>3. ASSUME NEW d \in Dsi
        PROVE  /\ calls'[d] # "none" => calls[d] # "none"
               /\ calls'[d] = "starting" => calls[d] = "starting"
    BY <1>0, <1>7 DEF StopCall, TypeOK
  <2>4. StartFits' /\ CallbackDataIsLive' /\ Quiet'
    BY <2>1, <2>2 DEF StartFits, Ready, CallInv, CallbackDataIsLive, Quiet
  <2>5. LiveCallIsOurs'
    <3>1. ASSUME NEW d \in Dsi, calls'[d] # "none"
          PROVE  handle' # None /\ net'[handle'] = d /\ owner'[d] = handle'
      <4>0. calls[d] # "none"
        BY <2>3, <3>1
      <4>1. handle # None /\ net[handle] = d /\ owner[d] = handle
        BY <4>0 DEF CallInv, LiveCallIsOurs
      <4>2. handle' = handle /\ net' = net /\ owner' = owner
        BY <2>2
      <4>3. QED
        BY <4>1, <4>2
    <3>2. QED
      BY <2>1, <3>1 DEF LiveCallIsOurs
  <2>6. EventsFit'
    <3>1. msgs' = msgs
      BY <2>2
    <3>2. ASSUME NoCall PROVE NoCall'
      <4>1. ASSUME NEW d \in Dsi PROVE calls'[d] = "none"
        BY <2>3, <3>2 DEF NoCall
      <4>2. QED
        BY <4>1 DEF NoCall
    <3>3. ASSUME msgs = <<"opened">>, NEW d \in Dsi PROVE calls'[d] # "starting"
      BY <2>3, <3>3 DEF CallInv, EventsFit
    <3>4. QED
      BY <3>1, <3>2, <3>3 DEF CallInv, EventsFit
  <2>7. QED
    BY <1>0, <2>4, <2>5, <2>6 DEF CallInv
<1>8. CASE TakeOpened
  <2>1. msgs # <<>> /\ Head(msgs) = "opened" /\ msgs' = Tail(msgs)
    BY <1>8 DEF TakeOpened, Take
  <2>2. task = Ready /\ nif # "released"
    BY <2>1 DEF CallInv, Quiet
  <2>3. UNCHANGED <<task, handle, net, owner, calls>> /\ nif' # "released"
    BY <1>8, <2>2 DEF TakeOpened
  <2>4. \/ msgs = <<"opened">> /\ msgs' = <<>>
        \/ msgs = <<"opened", "closed">> /\ msgs' = <<"closed">>
    <3>1. msgs \in {<<"opened">>, <<"opened", "closed">>}
      BY <2>1, EventsHead DEF CallInv
    <3>2. msgs = <<"opened">> => Tail(msgs) = <<>>
      BY TailOne
    <3>3. msgs = <<"opened", "closed">> => Tail(msgs) = <<"closed">>
      BY TailTwo
    <3>4. QED
      BY <2>1, <3>1, <3>2, <3>3
  <2>5. EventsFit'
    BY <2>3, <2>4 DEF CallInv, EventsFit, NoCall
  <2>6. LiveCallIsOurs' /\ CallbackDataIsLive' /\ Quiet' /\ StartFits'
    BY <2>2, <2>3 DEF CallInv, LiveCallIsOurs, CallbackDataIsLive, Quiet, StartFits
  <2>7. QED
    BY <1>0, <2>5, <2>6 DEF CallInv
<1>9. CASE TakeClosed
  <2>1. msgs # <<>> /\ Head(msgs) = "closed" /\ msgs' = Tail(msgs)
    BY <1>9 DEF TakeClosed, Take
  <2>2. msgs = <<"closed">> /\ msgs' = <<>> /\ NoCall
    <3>1. msgs = <<"closed">>
      BY <2>1, EventsHead DEF CallInv
    <3>2. Tail(msgs) = <<>>
      BY <3>1, TailOne
    <3>3. QED
      BY <2>1, <3>1, <3>2 DEF CallInv, EventsFit
  <2>3. NoCall' /\ CallbackDataIsLive'
    <3>1. CASE Close
      BY <2>2, <3>1, CloseQuiet
    <3>2. CASE UNCHANGED <<handle, net, owner, calls>>
      BY <2>2, <3>2 DEF NoCall, CallInv, CallbackDataIsLive
    <3>3. QED
      BY <1>9, <3>1, <3>2 DEF TakeClosed
  <2>4. task'.pc # "start"
    BY <1>9 DEF TakeClosed, Take, Open, Ready, Opening
  <2>5. LiveCallIsOurs' /\ Quiet' /\ EventsFit' /\ StartFits'
    BY <2>2, <2>3, <2>4 DEF LiveCallIsOurs, Quiet, EventsFit, StartFits, NoCall
  <2>6. QED
    BY <1>0, <2>3, <2>5 DEF CallInv
<1>10. ASSUME NEW d \in Dsi, CallUp(d) PROVE CallInv'
  <2>1. calls[d] = "starting" /\ ~NoCall
    BY <1>10 DEF CallUp, NoCall
  <2>2. task = Ready /\ nif # "released" /\ msgs = <<>>
    BY <2>1 DEF CallInv, Quiet, EventsFit
  <2>3. /\ calls' = [calls EXCEPT ![d] = "up"]
        /\ msgs' = <<"opened">>
        /\ UNCHANGED <<nif, task, handle, net, owner>>
    BY <1>10, <2>2 DEF CallUp
  <2>4. \A e \in Dsi : calls[e] # "none" => e = d
    BY <2>1 DEF CallInv, LiveCallIsOurs
  <2>5. \A e \in Dsi : /\ calls'[e] # "none" => calls[e] # "none"
                      /\ calls'[e] # "starting"
    BY <1>0, <2>1, <2>3, <2>4 DEF TypeOK
  <2>6. EventsFit'
    BY <2>3, <2>5 DEF EventsFit
  <2>7. LiveCallIsOurs'
    BY <2>3, <2>5 DEF CallInv, LiveCallIsOurs
  <2>8. CallbackDataIsLive' /\ Quiet' /\ StartFits'
    BY <2>2, <2>3 DEF CallInv, CallbackDataIsLive, Quiet, StartFits
  <2>9. QED
    BY <1>0, <2>6, <2>7, <2>8 DEF CallInv
<1>11. ASSUME NEW d \in Dsi, CallGone(d) PROVE CallInv'
  <2>1. calls[d] # "none" /\ ~NoCall
    BY <1>11 DEF CallGone, NoCall
  <2>2. task = Ready /\ nif # "released" /\ msgs \in {<<>>, <<"opened">>}
    BY <2>1 DEF CallInv, Quiet, EventsFit
  <2>3. /\ calls' = [calls EXCEPT ![d] = "none"]
        /\ msgs' = Append(msgs, "closed")
        /\ UNCHANGED <<nif, task, handle, net, owner>>
    BY <1>11 DEF CallGone
  <2>4. \A e \in Dsi : calls[e] # "none" => e = d
    BY <2>1 DEF CallInv, LiveCallIsOurs
  <2>5. NoCall'
    BY <1>0, <2>3, <2>4 DEF NoCall, TypeOK
  <2>6. msgs' \in {<<"closed">>, <<"opened", "closed">>}
    <3>1. Append(<<>>, "closed") = <<"closed">>
      BY Append1
    <3>2. Append(<<"opened">>, "closed") = <<"opened", "closed">>
      <4> DEFINE q == Append(<<"opened">>, "closed")
      <4> DEFINE E == {"opened", "closed"}
      <4>0. /\ <<"opened">> \in Seq(E) /\ Len(<<"opened">>) = 1 /\ <<"opened">>[1] = "opened"
            /\ "closed" \in E
        OBVIOUS
      <4>1. q \in Seq(E) /\ Len(q) = 2 /\ q[1] = "opened" /\ q[2] = "closed"
        <5> HIDE DEF E
        <5>1. QED
          BY <4>0, AppendProperties
      <4>2. <<"opened", "closed">> \in Seq(E) /\ Len(<<"opened", "closed">>) = 2
        <5>1. "opened" \in E /\ "closed" \in E
          OBVIOUS
        <5> HIDE DEF E
        <5>2. QED
          BY <5>1
      <4> HIDE DEF q
      <4>3. \A i \in 1..2 : q[i] = <<"opened", "closed">>[i]
        BY <4>1
      <4>4. q = <<"opened", "closed">>
        BY <4>1, <4>2, <4>3, SeqEqual
      <4>5. QED
        BY <4>4 DEF q
    <3>3. QED
      BY <2>2, <2>3, <3>1, <3>2
  <2>7. EventsFit' /\ LiveCallIsOurs'
    BY <2>5, <2>6 DEF EventsFit, LiveCallIsOurs, NoCall
  <2>8. CallbackDataIsLive' /\ Quiet' /\ StartFits'
    BY <2>2, <2>3 DEF CallInv, CallbackDataIsLive, Quiet, StartFits
  <2>9. QED
    BY <1>0, <2>7, <2>8 DEF CallInv
<1>12. CASE UNCHANGED vars
  BY <1>0, <1>12
     DEF vars, CallInv, LiveCallIsOurs, CallbackDataIsLive, Quiet, EventsFit, StartFits, NoCall
<1>13. QED
  BY <1>1, <1>2, <1>3, <1>4, <1>5, <1>6, <1>7, <1>8, <1>9, <1>10, <1>11, <1>12 DEF Next

LEMMA CallsInvariant == Spec => []CallInv
<1>1. QED
  BY InitInv, StepInv, PTL DEF Spec

(* Whatever is retried, refused or leaked on the way, the one live call is *)
(* the call of dsClientHandle, and DSStateMachine waits for its events:    *)
(* openAndStartDataCall starts one only where nothing is left of another.  *)
THEOREM CallsAlwaysOurs == Spec => []LiveCallIsOurs
<1>1. CallInv => LiveCallIsOurs
  BY DEF CallInv
<1>2. QED
  BY <1>1, CallsInvariant, PTL

(* net_ev_cb is never called with a session that ds_client_close_call      *)
(* freed.                                                                  *)
THEOREM CallbacksAlwaysLive == Spec => []CallbackDataIsLive
<1>1. CallInv => CallbackDataIsLive
  BY DEF CallInv
<1>2. QED
  BY <1>1, CallsInvariant, PTL

-----------------------------------------------------------------------------
(* The refinement.                                                         *)

LEMMA TheCallIs ==
    ASSUME CallInv, NEW d \in Dsi, calls[d] # "none"
    PROVE  handle # None /\ net[handle] = d /\ TheCall = calls[d]
  BY DataCallAssumption DEF CallInv, LiveCallIsOurs, TheCall

LEMMA NoCallNone ==
    ASSUME TypeOK, NoCall PROVE TheCall = "none"
  BY DEF TypeOK, NoCall, TheCall

LEMMA StepRefines ==
    CallInv /\ CallInv' /\ [Next]_vars => [Contract!Next]_(Contract!vars)
<1> SUFFICES ASSUME CallInv, CallInv', [Next]_vars PROVE [Contract!Next]_(Contract!vars)
  OBVIOUS
<1> USE DataCallAssumption
<1>0. TypeOK /\ TypeOK'
  BY DEF CallInv
<1>1. CASE UNCHANGED <<msgs, handle, net, calls>>
  BY <1>1 DEF TheCall, Contract!vars
<1>2. ASSUME NEW s \in Session, OpenSession(s) PROVE UNCHANGED <<msgs, TheCall>>
  <2>1. task # Ready
    BY <1>2 DEF OpenSession, At, Ready
  <2>2. NoCall /\ NoCall'
    BY <1>2, <2>1, OpenEffect DEF CallInv, Quiet, NoCall
  <2>3. TheCall = "none" /\ TheCall' = "none"
    BY <1>0, <2>2, NoCallNone DEF NoCall, TypeOK, TheCall
  <2>4. QED
    BY <1>2, <2>3, OpenEffect
<1>3. CASE StartCall
  <2>1. task # Ready
    BY <1>3 DEF StartCall, At, Ready
  <2>2. NoCall /\ TheCall = "none"
    BY <1>0, <2>1, NoCallNone DEF CallInv, Quiet
  <2>3. handle # None /\ net[handle] \in Dsi
    BY <1>0, <1>3 DEF StartCall, At, CallInv, StartFits, TypeOK
  <2>4. CASE calls' = [calls EXCEPT ![net[handle]] = "starting"]
    <3>1. TheCall' = "starting"
      BY <1>0, <1>3, <2>3, <2>4 DEF StartCall, TheCall, TypeOK
    <3>2. QED
      BY <1>3, <2>2, <3>1 DEF StartCall, Contract!Next, Contract!Start
  <2>5. QED
    BY <1>1, <1>3, <2>4 DEF StartCall
<1>4. CASE StopCall
  <2>1. CASE /\ handle # None /\ net[handle] # None
             /\ calls[net[handle]] \in {"starting", "up"}
             /\ calls' = [calls EXCEPT ![net[handle]] = "stopping"]
    <3>1. TheCall \in {"starting", "up"}
      BY <2>1 DEF TheCall
    <3>2. TheCall' = "stopping"
      BY <1>0, <1>4, <2>1 DEF StopCall, TheCall, TypeOK
    <3>3. QED
      BY <1>4, <3>1, <3>2 DEF StopCall, Contract!Next, Contract!Stop
  <2>2. QED
    BY <1>1, <1>4, <2>1 DEF StopCall
<1>5. CASE TakeOpened
  <2>1. TheCall' = TheCall
    BY <1>5 DEF TakeOpened, TheCall
  <2>2. QED
    BY <1>5, <2>1 DEF TakeOpened, Take, Contract!Next, Contract!Taken
<1>6. CASE TakeClosed
  <2>1. msgs # <<>> /\ Head(msgs) = "closed" /\ msgs' = Tail(msgs)
    BY <1>6 DEF TakeClosed, Take
  <2>2. NoCall
    BY <2>1 DEF CallInv, EventsFit
  <2>3. NoCall'
    <3>1. CASE Close
      BY <2>2, <3>1, CloseQuiet
    <3>2. CASE UNCHANGED <<handle, net, owner, calls>>
      BY <2>2, <3>2 DEF NoCall
    <3>3. QED
      BY <1>6, <3>1, <3>2 DEF TakeClosed
  <2>4. TheCall = "none" /\ TheCall' = "none"
    BY <1>0, <2>2, <2>3 DEF NoCall, TypeOK, TheCall
  <2>5. QED
    BY <2>1, <2>4 DEF Contract!Next, Contract!Taken
<1>7. ASSUME NEW d \in Dsi, CallUp(d) PROVE Contract!Up
  <2>1. TheCall = "starting" /\ handle # None /\ net[handle] = d
    BY <1>7, TheCallIs DEF CallUp
  <2>2. TheCall' = "up"
    BY <1>0, <1>7, <2>1 DEF CallUp, TheCall, TypeOK
  <2>3. QED
    BY <1>7, <2>1, <2>2 DEF CallUp, Contract!Up
<1>8. ASSUME NEW d \in Dsi, CallGone(d) PROVE Contract!Gone
  <2>1. TheCall # "none" /\ handle # None /\ net[handle] = d
    BY <1>8, TheCallIs DEF CallGone
  <2>2. TheCall' = "none"
    BY <1>0, <1>8, <2>1 DEF CallGone, TheCall, TypeOK
  <2>3. QED
    BY <1>8, <2>1, <2>2 DEF CallGone, Contract!Gone
<1>9. CASE Request \/ GetProfileList \/ Search \/ SearchFailed \/ UNCHANGED vars
  BY <1>1, <1>9 DEF Request, GetProfileList, Search, SearchFailed, vars
<1>10. QED
  BY <1>2, <1>3, <1>4, <1>5, <1>6, <1>7, <1>8, <1>9 DEF Next, Contract!Next, Contract!vars

(* ds_client.c and its callers give DSStateMachine the data call its states *)
(* are written for: one at a time, stopped once, each change told once and  *)
(* in order.                                                                *)
THEOREM CallImplementsContract == Spec => ImplementsContract
<1>1. Init => Contract!Init
  BY DEF Init, Contract!Init, TheCall
<1>2. QED
  BY <1>1, CallsInvariant, StepRefines, PTL DEF Spec, Contract!Spec, ImplementsContract

(* The types of DataCall, for every value of the constants.                *)
THEOREM TypeCorrect == Spec => []TypeOK
<1>1. QED
  BY InitTyped, StepTyped, PTL DEF Spec
=============================================================================
