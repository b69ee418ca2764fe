--------------------------- MODULE MsgTaskProofs ----------------------------
(***************************************************************************)
(* Theorems about the MsgTask.  First its queue (MsgQ), for any set of     *)
(* messages; then what it asks of the modem outside a session              *)
(* (ModemCalls), for any calls, files, part lengths and bounds.            *)
(***************************************************************************)
EXTENDS MsgQ, ModemCalls, SequenceTheorems, FiniteSetTheorems, TLAPS

(* The queue starts in its invariant.                                      *)
LEMMA InitInv == QueueInit => QueueInv
<1> SUFFICES ASSUME QueueInit PROVE QueueInv
  OBVIOUS
<1>1. QueueTypeOK
  <2>1. order \in Seq(LocMsg)
    BY DEF QueueInit
  <2>2. next \in [LocMsg -> LocMsg \cup {NULL, FREE}] /\ prev = next
    BY DEF QueueInit
  <2> QED
    BY <2>1, <2>2 DEF QueueInit, QueueTypeOK
<1>2. MessagesFit
  BY MsgAssumption DEF QueueInit, MessagesFit
<1>3. ListShape
  BY DEF QueueInit, ListShape, Listed
<1> QED
  BY <1>1, <1>2, <1>3 DEF QueueInit, QueueInv, NoLostWakeup, EndsWhenTold

(* The ends of the list tell whether it is empty.                          *)
LEMMA EmptyEnds ==
    ASSUME QueueInv
    PROVE  /\ p_head = NULL <=> order = <<>>
           /\ p_tail = NULL <=> order = <<>>
           /\ order # <<>> => Len(order) \in Nat \ {0} /\ p_tail = order[1] /\ p_head = order[Len(order)]
BY MsgAssumption DEF QueueInv, QueueTypeOK, ListShape

LEMMA SendInv ==
    ASSUME QueueInv, NEW m \in LocMsg, MsgSend(m)
    PROVE  QueueInv'
<1> DEFINE n == Len(order)
<1>0. n = Len(order)
  OBVIOUS
<1>1. /\ order \in Seq(LocMsg) /\ n \in Nat /\ DOMAIN order = 1 .. n
      /\ order' = Append(order, m) /\ order' \in Seq(LocMsg)
      /\ Len(order') = n + 1 /\ DOMAIN order' = 1 .. n + 1
      /\ order'[n + 1] = m
      /\ \A i \in 1 .. n : order'[i] = order[i] /\ order[i] \in LocMsg
  BY DEF QueueInv, QueueTypeOK, MsgSend
<1> HIDE DEF n
<1>2. m \in unsent /\ \A i \in 1 .. n : order[i] # m
  BY <1>1 DEF QueueInv, MessagesFit, MsgSend
<1>3. ListAdd(m)
  BY DEF MsgSend
<1>4. p_head = NULL <=> n = 0
  BY <1>0, <1>1, EmptyEnds
<1>5. n # 0 => p_head = order[n] /\ p_tail = order[1]
  BY <1>0, <1>1, EmptyEnds
<1>6. n # 0 => \A i \in 1 .. n : order[i] = p_head <=> i = n
  <2>1. \A i, j \in 1 .. n : order[i] = order[j] => i = j
    BY <1>1 DEF QueueInv, MessagesFit
  <2>2. n # 0 => n \in 1 .. n
    BY <1>1
  <2> QED
    BY <1>5, <2>1, <2>2
<1>7. QueueTypeOK'
  BY <1>1, <1>3 DEF QueueInv, QueueTypeOK, ListAdd, MsgSend
<1>8. MessagesFit'
  <2>1. \A i, j \in 1 .. n + 1 : order'[i] = order'[j] => i = j
    BY <1>1, <1>2 DEF QueueInv, MessagesFit
  <2>2. \A i \in 1 .. n + 1 : order'[i] \notin unsent' /\ order'[i] # msg'
    BY <1>1, <1>2 DEF QueueInv, MessagesFit, MsgSend
  <2> QED
    BY <1>1, <2>1, <2>2 DEF QueueInv, MessagesFit, MsgSend
<1>9. ListShape'
  <2>1. p_tail' = order'[1] /\ p_head' = order'[n + 1] /\ order' # <<>>
    BY <1>1, <1>3, <1>4, <1>5 DEF ListAdd
  <2>2. ASSUME NEW i \in 1 .. n + 1
        PROVE  prev'[order'[i]] = IF i = n + 1 THEN NULL ELSE order'[i + 1]
    <3>1. CASE i = n + 1
      BY <1>1, <1>3, <3>1 DEF ListAdd
    <3>2. CASE i = n
      <4>1. order'[i] = order[n] /\ order[n] \in LocMsg /\ order[n] # m
        BY <1>1, <1>2, <3>2
      <4>2. order[n] = p_head
        BY <1>1, <1>5, <3>2
      <4>3. prev'[order[n]] = m
        BY <1>3, <4>1, <4>2 DEF ListAdd
      <4> QED
        BY <1>1, <3>2, <4>1, <4>3
    <3>3. CASE i \in 1 .. n - 1
      <4>1. prev[order[i]] = order[i + 1] /\ i + 1 \in 1 .. n
        BY <1>1, <3>3 DEF QueueInv, ListShape
      <4>2. QED
        <5>1. order'[i] = order[i] /\ order[i] \in LocMsg /\ order[i] # m /\ i # n /\ n # 0
          BY <1>1, <1>2, <3>3
        <5>2. order[i] # p_head
          BY <1>1, <1>6, <3>3, <5>1
        <5>3. prev'[order[i]] = prev[order[i]]
          BY <1>3, <5>1, <5>2 DEF ListAdd
        <5> QED
          BY <1>1, <3>3, <4>1, <5>1, <5>3
    <3> QED
      BY <1>1, <3>1, <3>2, <3>3
  <2>3. ASSUME NEW i \in 1 .. n + 1
        PROVE  next'[order'[i]] = IF i = 1 THEN NULL ELSE order'[i - 1]
    <3>1. CASE i = n + 1
      <4>1. next'[m] = p_head
        BY <1>3 DEF ListAdd, QueueInv, QueueTypeOK
      <4>2. p_head = IF i = 1 THEN NULL ELSE order'[i - 1]
        BY <1>1, <1>4, <1>5, <3>1
      <4> QED
        BY <1>1, <3>1, <4>1, <4>2
    <3>2. CASE i \in 1 .. n
      <4>1. next[order[i]] = IF i = 1 THEN NULL ELSE order[i - 1]
        BY <1>1, <3>2 DEF QueueInv, ListShape
      <4> QED
        BY <1>1, <1>2, <1>3, <3>2, <4>1 DEF ListAdd, QueueInv, QueueTypeOK
    <3> QED
      BY <1>1, <3>1, <3>2
  <2>4. ASSUME NEW e \in LocMsg, ~Listed(e)'
        PROVE  next'[e] = FREE /\ prev'[e] = FREE
    <3>1. e # m /\ \A i \in 1 .. n : order[i] # e
      BY <1>1, <2>4 DEF Listed
    <3>2. next[e] = FREE /\ prev[e] = FREE
      BY <1>1, <3>1 DEF QueueInv, ListShape, Listed
    <3>3. e # p_head
      BY <1>1, <1>4, <1>5, <3>1, MsgAssumption
    <3> QED
      BY <1>3, <3>1, <3>2, <3>3 DEF ListAdd, QueueInv, QueueTypeOK
  <2> QED
    BY <1>1, <2>1, <2>2, <2>3, <2>4 DEF ListShape
<1> QED
  BY <1>7, <1>8, <1>9 DEF QueueInv, MsgSend, NoLostWakeup, EndsWhenTold

LEMMA TakeInv ==
    ASSUME QueueInv, ReceiveTakes
    PROVE  QueueInv'
<1> DEFINE n == Len(order)
<1>0. n = Len(order)
  OBVIOUS
<1>1. /\ order \in Seq(LocMsg) /\ n \in Nat \ {0} /\ DOMAIN order = 1 .. n
      /\ order' = Tail(order) /\ order' \in Seq(LocMsg)
      /\ Len(order') = n - 1 /\ DOMAIN order' = 1 .. n - 1
      /\ \A i \in 1 .. n : order[i] \in LocMsg
      /\ \A i \in 1 .. n - 1 : order'[i] = order[i + 1]
  <2>1. order \in Seq(LocMsg) /\ order # <<>> /\ order' = Tail(order)
    BY EmptyEnds DEF QueueInv, QueueTypeOK, ReceiveTakes
  <2> QED
    BY <2>1
<1> HIDE DEF n
<1>2. p_tail = order[1] /\ p_head = order[n]
  BY <1>0, <1>1, EmptyEnds
<1>3. ListRemove /\ msg' = p_tail /\ loop' = "proc" /\ UNCHANGED <<unblocked, alive, unsent>>
  BY DEF ReceiveTakes
<1>4. \A i, j \in 1 .. n : order[i] = order[j] => i = j
  BY <1>1 DEF QueueInv, MessagesFit
<1>5. prev[p_tail] = IF n = 1 THEN NULL ELSE order[2]
  BY <1>0, <1>1, <1>2 DEF QueueInv, ListShape
<1>6. QueueTypeOK'
  BY <1>1, <1>2, <1>3, <1>5 DEF QueueInv, QueueTypeOK, ListRemove
<1>7. MessagesFit'
  <2>1. \A i, j \in 1 .. n - 1 : order'[i] = order'[j] => i = j
    BY <1>1, <1>4
  <2>2. \A i \in 1 .. n - 1 : order'[i] \notin unsent' /\ order'[i] # msg'
    BY <1>1, <1>2, <1>3, <1>4 DEF QueueInv, MessagesFit
  <2>3. msg' \notin unsent' /\ msg' # NULL
    BY <1>1, <1>2, <1>3, MsgAssumption DEF QueueInv, MessagesFit
  <2>4. alive' <=> loop' # "gone"
    BY <1>3 DEF QueueInv, MessagesFit, ReceiveTakes, Receiving
  <2> QED
    BY <1>1, <1>3, <2>1, <2>2, <2>3, <2>4 DEF MessagesFit
<1>8. ListShape'
  <2>1. p_tail' = IF n = 1 THEN NULL ELSE order'[1]
    BY <1>1, <1>3, <1>5 DEF ListRemove
  <2>2. p_head' = IF n = 1 THEN NULL ELSE order'[n - 1]
    BY <1>1, <1>2, <1>3, <1>5, MsgAssumption DEF ListRemove
  <2>3. ASSUME NEW i \in 1 .. n - 1
        PROVE  prev'[order'[i]] = IF i = n - 1 THEN NULL ELSE order'[i + 1]
    <3>1. prev[order[i + 1]] = IF i + 1 = n THEN NULL ELSE order[i + 2]
      BY <1>0, <1>1 DEF QueueInv, ListShape
    <3>2. order[i + 1] # p_tail
      BY <1>1, <1>2, <1>4
    <3> QED
      <4>1. prev'[order[i + 1]] = prev[order[i + 1]]
        BY <1>3, <3>2 DEF ListRemove, QueueInv, QueueTypeOK
      <4>2. i # n - 1 => order'[i + 1] = order[i + 2]
        BY <1>1
      <4>3. i + 1 = n <=> i = n - 1
        BY <1>1
      <4>4. order'[i] = order[i + 1]
        BY <1>1
      <4> QED
        BY <3>1, <4>1, <4>2, <4>3, <4>4
  <2>4. ASSUME NEW i \in 1 .. n - 1
        PROVE  next'[order'[i]] = IF i = 1 THEN NULL ELSE order'[i - 1]
    <3>1. next[order[i + 1]] = order[i]
      <4>1. i + 1 \in DOMAIN order /\ i + 1 # 1 /\ i + 1 - 1 = i
        BY <1>1
      <4>2. next[order[i + 1]] = IF i + 1 = 1 THEN NULL ELSE order[i + 1 - 1]
        BY <4>1, <1>0 DEF QueueInv, ListShape
      <4>3. QED
        BY <4>1, <4>2
    <3>2. order[i + 1] # p_tail
      BY <1>1, <1>2, <1>4
    <3>3. order[i + 1] = prev[p_tail] <=> i = 1
      BY <1>1, <1>4, <1>5
    <3> QED
      BY <1>1, <1>3, <3>1, <3>2, <3>3 DEF ListRemove
  <2>5. ASSUME NEW e \in LocMsg, ~Listed(e)'
        PROVE  next'[e] = FREE /\ prev'[e] = FREE
    <3>1. CASE e = p_tail
      BY <1>3, <3>1 DEF ListRemove, QueueInv, QueueTypeOK
    <3>2. CASE e # p_tail
      <4>1. \A i \in 1 .. n : order[i] # e
        <5>1. ASSUME NEW i \in 1 .. n, order[i] = e PROVE FALSE
          <6>1. i # 1 /\ i - 1 \in 1 .. n - 1
            BY <1>1, <1>2, <3>2, <5>1
          <6>2. order'[i - 1] = e
            BY <1>1, <5>1, <6>1
          <6> QED
            BY <1>1, <2>5, <6>1, <6>2 DEF Listed
        <5> QED
          BY <5>1
      <4>2. next[e] = FREE /\ prev[e] = FREE
        BY <1>1, <4>1 DEF QueueInv, ListShape, Listed
      <4>3. e # prev[p_tail]
        BY <1>1, <1>5, <4>1, MsgAssumption
      <4> QED
        BY <1>3, <3>2, <4>2, <4>3 DEF ListRemove
    <3> QED
      BY <3>1, <3>2
  <2>6. order' = <<>> <=> n = 1
    BY <1>1
  <2> QED
    BY <1>1, <2>1, <2>2, <2>3, <2>4, <2>5, <2>6 DEF ListShape
<1>9. NoLostWakeup' /\ EndsWhenTold'
  BY <1>3 DEF NoLostWakeup, EndsWhenTold
<1> QED
  BY <1>6, <1>7, <1>8, <1>9 DEF QueueInv

(* The other steps add nothing to the list and take nothing from it, but   *)
(* for Destroy, which leaves it empty.                                     *)
LEMMA OtherInv ==
    ASSUME QueueInv,
           \/ \E m \in LocMsg : SendRefused(m)
           \/ ReceiveRefused \/ ReceiveWaits \/ ReceiveFails
           \/ Proc \/ WakesOddly \/ Unblock \/ UNCHANGED queueVars
    PROVE  QueueInv'
<1>1. UNCHANGED list /\ UNCHANGED order
  BY DEF SendRefused, ReceiveRefused, ReceiveWaits, ReceiveFails, Proc,
         WakesOddly, Unblock, queueVars
<1>2. ListShape'
  BY <1>1 DEF QueueInv, ListShape, Listed, list
<1>3. QueueTypeOK'
  BY <1>1 DEF QueueInv, QueueTypeOK, list, SendRefused, ReceiveRefused, ReceiveWaits,
              ReceiveFails, Proc, WakesOddly, Unblock, queueVars
<1>4. unsent' \subseteq unsent /\ (msg' = msg \/ (Proc /\ msg' = NULL))
  BY DEF SendRefused, ReceiveRefused, ReceiveWaits, ReceiveFails, Proc,
         WakesOddly, Unblock, queueVars
<1>5. \A i \in DOMAIN order : order[i] \in LocMsg
  BY DEF QueueInv, QueueTypeOK
<1>6. MessagesFit'
  <2>1. \A i \in DOMAIN order : order[i] \notin unsent' /\ order[i] # msg'
    BY <1>4, <1>5, MsgAssumption DEF QueueInv, MessagesFit
  <2>2. msg' \notin unsent'
    BY <1>4, MsgAssumption DEF QueueInv, MessagesFit, QueueTypeOK
  <2>3. (msg' # NULL <=> loop' = "proc") /\ (alive' <=> loop' # "gone")
    BY DEF QueueInv, MessagesFit, SendRefused, ReceiveRefused, ReceiveWaits,
           ReceiveFails, Receiving, Proc, WakesOddly, Unblock, queueVars
  <2> QED
    BY <1>1, <2>1, <2>2, <2>3 DEF QueueInv, MessagesFit
<1>7. NoLostWakeup'
  BY <1>1 DEF list, QueueInv, NoLostWakeup, SendRefused, ReceiveRefused,
              ReceiveWaits, ReceiveFails, Proc, WakesOddly, Unblock, queueVars
<1>8. EndsWhenTold'
  BY EmptyEnds DEF QueueInv, EndsWhenTold, SendRefused, ReceiveRefused,
              ReceiveWaits, ReceiveFails, Proc, WakesOddly, Unblock, queueVars
<1> QED
  BY <1>2, <1>3, <1>6, <1>7, <1>8 DEF QueueInv

LEMMA DestroyInv ==
    ASSUME QueueInv, Destroy
    PROVE  QueueInv'
<1>1. order' = <<>> /\ order' \in Seq(LocMsg) /\ DOMAIN order' = {} /\ ListFlush
  BY DEF Destroy
<1>2. QueueTypeOK'
  BY <1>1 DEF QueueInv, QueueTypeOK, Destroy, ListFlush
<1>3. MessagesFit'
  BY <1>1 DEF QueueInv, MessagesFit, Destroy
<1>4. ListShape'
  BY <1>1 DEF ListShape, ListFlush
<1> QED
  BY <1>2, <1>3, <1>4 DEF QueueInv, Destroy, NoLostWakeup, EndsWhenTold

LEMMA QueueInvKept == QueueInv /\ [QueueNext]_queueVars => QueueInv'
<1> SUFFICES ASSUME QueueInv, [QueueNext]_queueVars
             PROVE  QueueInv'
  OBVIOUS
<1>1. CASE \E m \in LocMsg : MsgSend(m)
  BY <1>1, SendInv
<1>2. CASE ReceiveTakes
  BY <1>2, TakeInv
<1>3. CASE Destroy
  BY <1>3, DestroyInv
<1>4. CASE \/ \E m \in LocMsg : SendRefused(m)
           \/ ReceiveRefused \/ ReceiveWaits \/ ReceiveFails
           \/ Proc \/ WakesOddly \/ Unblock \/ UNCHANGED queueVars
  BY <1>4, OtherInv
<1> QED
  BY <1>1, <1>2, <1>3, <1>4 DEF QueueNext, Loop

THEOREM QueueInvariant == QueueSpec => []QueueInv
BY InitInv, QueueInvKept, PTL DEF QueueSpec

-----------------------------------------------------------------------------
(* The pointers of linked_list.c always are one doubly linked list of the  *)
(* accepted messages, newest at the head, and reach nothing that was freed.*)
THEOREM ListAlwaysShaped == QueueSpec => []ListShape
<1>1. QueueInv => ListShape
  BY DEF QueueInv
<1> QED
  BY <1>1, QueueInvariant, PTL

(* msg_q_rcv never sleeps on a message or on an unblocked queue.           *)
THEOREM WakeupsNotLost == QueueSpec => []NoLostWakeup
<1>1. QueueInv => NoLostWakeup
  BY DEF QueueInv
<1> QED
  BY <1>1, QueueInvariant, PTL

(* loopMain leaves its loop only after the MsgTask was deleted: its receive*)
(* does not fail for another reason, whatever wakes it.                    *)
THEOREM LoopEndsWhenTold == QueueSpec => []EndsWhenTold
<1>1. QueueInv => EndsWhenTold
  BY DEF QueueInv
<1> QED
  BY <1>1, QueueInvariant, PTL

-----------------------------------------------------------------------------
(* Every step is a step of Fifo, or changes nothing Fifo speaks of.        *)
LEMMA StepIsFifoStep ==
    ASSUME QueueInv, [QueueNext]_queueVars
    PROVE  [Promise!Next]_(Promise!vars)
<1>1. ASSUME NEW m \in LocMsg, MsgSend(m) PROVE Promise!Accept(m)
  BY <1>1 DEF MsgSend, Promise!Accept
<1>2. ASSUME ReceiveTakes PROVE Promise!Take
  <2>1. order # <<>> /\ p_tail = order[1]
    BY <1>2, EmptyEnds DEF ReceiveTakes
  <2>2. msg = NULL
    BY <1>2 DEF ReceiveTakes, Receiving, QueueInv, MessagesFit
  <2>3. p_tail = Head(order)
    BY <2>1 DEF QueueInv, QueueTypeOK
  <2> QED
    BY <1>2, <2>1, <2>2, <2>3 DEF ReceiveTakes, Promise!Take
<1>3. ASSUME Proc PROVE Promise!Finish
  BY <1>3 DEF Proc, Promise!Finish, QueueInv, MessagesFit
<1>4. ASSUME Destroy PROVE Promise!Drop
  BY <1>4 DEF Destroy, Promise!Drop, QueueInv, EndsWhenTold
<1>5. ASSUME Unblock PROVE Promise!Close
  BY <1>5 DEF Unblock, Promise!Close
<1>6. ASSUME \/ \E m \in LocMsg : SendRefused(m)
             \/ ReceiveRefused \/ ReceiveWaits \/ ReceiveFails
             \/ WakesOddly \/ UNCHANGED queueVars
      PROVE  UNCHANGED Promise!vars
  BY <1>6 DEF SendRefused, ReceiveRefused, ReceiveWaits, ReceiveFails,
              WakesOddly, queueVars, Promise!vars
<1> QED
  BY <1>1, <1>2, <1>3, <1>4, <1>5, <1>6 DEF QueueNext, Loop, Promise!Next

(* The MsgTask of the code keeps the promise of Fifo: messages are handled *)
(* in the order in which they were accepted, each once and one at a time.  *)
THEOREM QueueIsFifo == QueueSpec => ImplementsFifo
<1>1. QueueInit => Promise!Init
  BY DEF QueueInit, Promise!Init
<1>2. QueueInv /\ [QueueNext]_queueVars => [Promise!Next]_(Promise!vars)
  BY StepIsFifoStep
<1> QED
  BY <1>1, <1>2, QueueInvariant, PTL DEF QueueSpec, ImplementsFifo, Promise!Spec

-----------------------------------------------------------------------------
(* What ModemCalls owes the modem's settings and the caller of a file.     *)

(* LocOpenMsg and LocSsrMsg are followed by LocEngInit or LocEngUp.        *)
Resends(m) == m.type \in {"init", "up"}

OrderInv ==
    /\ cb \in {<<>>, <<Control("ssr"), Control("up")>>, <<Control("up")>>}
    /\ cb = <<>> => \A i \in DOMAIN msgs : msgs[i].type \in {"open", "ssr"} =>
                        \E j \in DOMAIN msgs : j > i /\ Resends(msgs[j])

(* A setting the modem does not have is still to be sent.                  *)
CallFailed == task.pc = "returned" /\ (task.result = "failure" \/ task.astray)

Doing(s) ==
    /\ task.pc # "idle" /\ task.msg.type = "call" /\ task.msg.req = s
    /\ task.pc = "returned" => CallFailed

Queued(s) ==
    \E i \in DOMAIN msgs : Resends(msgs[i]) \/ (msgs[i].type = "call" /\ msgs[i].req = s)

SettingsInv ==
    linked /\ ~failed =>
        \A s \in Settings : s \in conf \/ lost \/ cb # <<>> \/ Queued(s) \/ Doing(s)

(* The only request of a setting that is not answered is that of the call, *)
(* unless one was given up before.                                         *)
RequestInv ==
    linked /\ ~failed =>
        \A i \in DOMAIN asked : asked[i].req \in Settings =>
            /\ task.pc \in {"waiting", "returned"} /\ Doing(asked[i].req)
            /\ \A j \in DOMAIN asked : asked[j].req \in Settings => j = i

ConfInv == OrderInv /\ SettingsInv /\ RequestInv

(* The parts of a file.                                                    *)
PartOf(m, p) ==
    IF IsXtra(m)
      THEN [part |-> p, from |-> (p - 1) * PartLen,
            len |-> IF p = TotalParts(m.size) THEN m.size - (p - 1) * PartLen ELSE PartLen]
      ELSE NoChunk

PartsUpTo(m, k) == {PartOf(m, p) : p \in 1 .. k}

SentParts(t) == IF t.pc = "waiting" THEN t.part ELSE t.part - 1

Small(t) == IsXtra(t.msg) => t.msg.size <= LenMod

ReqOf(m) == IF IsXtra(m) THEN XtraPart ELSE m.req

Older(q, t, o) == {i \in 1 .. o : q[i].req.ind = ReqOf(t.msg).ind}

(* Of call t the modem has taken k parts; of the requests q that it has    *)
(* not answered o are older than t, and the others are the next parts.     *)
Stands(q, t, o, k) ==
    /\ Len(q) = o + SentParts(t) - k
    /\ o > 0 => k = 0
    /\ \A i \in 1 .. o : ~q[i].own
    /\ \A i \in o + 1 .. Len(q) :
          q[i].own /\ q[i].req = ReqOf(t.msg) /\ q[i].chunk = PartOf(t.msg, k + i - o)
    /\ t.took = PartsUpTo(t.msg, k)
    /\ k = 0 => t.part - 1 + Cardinality(Older(q, t, o)) <= t.late

InOrder(q, t) ==
    /\ IsXtra(t.msg) => t.injected = (t.part - 1) * PartLen
    /\ \E o \in 0 .. Len(q), k \in 0 .. SentParts(t) : Stands(q, t, o, k)

Sound(t) == ~t.astray /\ Small(t)

UnderwayInv ==
    linked /\ task.pc \in {"sending", "waiting"} /\ Sound(task) => InOrder(asked, task)

AllTaken(q, t) ==
    t.result = "success" /\ Sound(t) /\ t.late < Parts(t.msg) =>
        /\ t.took = PartsUpTo(t.msg, Parts(t.msg))
        /\ \A i \in DOMAIN q : ~q[i].own

DoneInv == task.pc = "returned" => AllTaken(asked, task)

CallInv ==
    /\ task.pc = "idle" => \A i \in DOMAIN asked : ~asked[i].own
    /\ ~linked => asked = <<>>
    /\ UnderwayInv
    /\ DoneInv

-----------------------------------------------------------------------------
(* The parts of a file, in numbers.                                        *)

LEMMA Times ==
    ASSUME NEW a \in Nat, NEW b \in Nat, NEW c \in Nat, a <= b
    PROVE  a * c \in Nat /\ a * c <= b * c
<1>1. PICK d \in Nat : b = a + d
  <2>1. b - a \in Nat /\ b = a + (b - a)
    OBVIOUS
  <2> QED BY <2>1
<1>2. b * c = a * c + d * c
  BY <1>1
<1>3. a * c \in Nat /\ d * c \in Nat
  OBVIOUS
<1> QED BY <1>2, <1>3

LEMMA PartsCover ==
    ASSUME NEW n \in Nat
    PROVE  /\ TotalParts(n) \in Nat \ {0}
           /\ n = 0 => TotalParts(n) = 1
           /\ n # 0 => /\ (TotalParts(n) - 1) * PartLen < n
                       /\ n <= TotalParts(n) * PartLen
<1>1. PartLen \in Nat \ {0}
  BY CallsAssumption
<1>2. CASE n = 0
  BY <1>2 DEF TotalParts
<1>3. CASE n # 0
  <2> DEFINE q == (n - 1) \div PartLen
             r == (n - 1) % PartLen
  <2>1. n - 1 \in Nat
    BY <1>3
  <2>2. q \in Nat /\ r \in 0 .. PartLen - 1 /\ n - 1 = PartLen * q + r
    BY <2>1, <1>1
  <2>3. TotalParts(n) = q + 1
    BY <1>3 DEF TotalParts
  <2> HIDE DEF q, r
  <2>4. q * PartLen = PartLen * q /\ (q + 1) * PartLen = PartLen * q + PartLen
    BY <2>2, <1>1
  <2>5. PartLen * q \in Nat
    BY <2>2, <1>1
  <2> QED
    BY <2>2, <2>3, <2>4, <2>5, <1>1, <1>3
<1> QED BY <1>2, <1>3

(* The p-th chunk of a file is its p-th part, if len_injected can hold it. *)
LEMMA ChunkIsPart ==
    ASSUME NEW n \in Sizes, n <= LenMod, NEW p \in 1 .. TotalParts(n)
    PROVE  /\ (p - 1) * PartLen \in 0 .. LenMod - 1
           /\ Chunk(n, p, (p - 1) * PartLen) = PartOf(XtraMsg(n), p)
           /\ p < TotalParts(n) =>
                ((p - 1) * PartLen + Chunk(n, p, (p - 1) * PartLen).len) % LenMod
                  = (p + 1 - 1) * PartLen
<1> DEFINE t == TotalParts(n)
           i == (p - 1) * PartLen
           l == Chunk(n, p, i).len
<1>1. n \in Nat /\ PartLen \in Nat \ {0} /\ LenMod \in Nat \ {0}
  BY CallsAssumption
<1>2. t \in Nat \ {0} /\ p \in 1 .. t
  BY <1>1, PartsCover
<1>3. i \in Nat /\ p * PartLen = i + PartLen /\ p * PartLen \in Nat
  <2>1. p - 1 \in Nat /\ p = (p - 1) + 1
    BY <1>2
  <2>2. p * PartLen = (p - 1) * PartLen + PartLen
    BY <2>1, <1>1
  <2> QED
    BY <2>1, <2>2, <1>1
<1>4. l = IF n >= i /\ PartLen > n - i THEN n - i ELSE PartLen
  BY DEF Chunk
<1>5. PartOf(XtraMsg(n), p) =
        [part |-> p, from |-> i, len |-> IF p = t THEN n - i ELSE PartLen]
  BY DEF PartOf, XtraMsg, IsXtra
<1>6. Chunk(n, p, i) = [part |-> p, from |-> i, len |-> l]
  BY DEF Chunk
<1>7. i <= n /\ i < LenMod /\ l = (IF p = t THEN n - i ELSE PartLen) /\ (p < t => i + PartLen < LenMod)
  <2>1. CASE n = 0
    <3>1. t = 1 /\ p = 1
      BY <1>1, <1>2, <2>1, PartsCover
    <3>2. i = 0
      BY <3>1, <1>1
    <3> HIDE DEF t, i, l
    <3> QED
      BY <1>1, <1>4, <2>1, <3>1, <3>2
  <2>2. CASE n # 0
    <3>1. (t - 1) * PartLen < n /\ n <= t * PartLen
      BY <1>1, <2>2, PartsCover
    <3>2. i <= (t - 1) * PartLen
      <4>1. p - 1 \in Nat /\ t - 1 \in Nat /\ p - 1 <= t - 1
        BY <1>2
      <4> HIDE DEF t
      <4> QED
        BY <4>1, <1>1, Times
    <3>3. p < t => p * PartLen <= (t - 1) * PartLen
      <4>1. p \in Nat /\ t - 1 \in Nat /\ (p < t => p <= t - 1)
        BY <1>2
      <4> HIDE DEF t
      <4> QED
        BY <4>1, <1>1, Times
    <3>4. (t - 1) * PartLen \in Nat
      BY <1>1, <1>2
    <3>5. p = t => p * PartLen = t * PartLen
      OBVIOUS
    <3> DEFINE u == (t - 1) * PartLen
               v == p * PartLen
               w == t * PartLen
    <3>6. /\ u < n /\ n <= w /\ i <= u /\ (p < t => v <= u) /\ u \in Nat
          /\ (p = t => v = w) /\ v = i + PartLen /\ v \in Nat /\ i \in Nat
      BY <3>1, <3>2, <3>3, <3>4, <3>5, <1>3
    <3> HIDE DEF t, i, l, u, v, w
    <3>7. CASE p = t
      BY <3>6, <3>7, <1>1, <1>2, <1>4
    <3>8. CASE p < t
      BY <3>6, <3>8, <1>1, <1>2, <1>4
    <3> QED
      BY <3>7, <3>8, <1>2
  <2> QED
    BY <2>1, <2>2
<1>8. p < t => (i + l) % LenMod = (p + 1 - 1) * PartLen
  <2> SUFFICES ASSUME p < t PROVE (i + l) % LenMod = (p + 1 - 1) * PartLen
    OBVIOUS
  <2>1. p + 1 - 1 = p
    BY <1>2
  <2>2. (p + 1 - 1) * PartLen = i + PartLen
    BY <2>1, <1>3
  <2> HIDE DEF t, i, l
  <2>3. i + l \in Nat /\ i + l = i + PartLen /\ i + l < LenMod
    BY <1>1, <1>2, <1>3, <1>7
  <2>4. (i + l) % LenMod = i + l
    BY <1>1, <2>3
  <2> QED
    BY <2>2, <2>3, <2>4
<1> QED
  BY <1>1, <1>3, <1>5, <1>6, <1>7, <1>8

-----------------------------------------------------------------------------
(* Types of ModemCalls.                                                    *)

TaskMsgs == CallMsgs \cup {XtraMsg(n) : n \in Sizes}

Busy ==
    [pc : {"sending", "waiting", "returned"}, msg : Msg, part : Nat \ {0},
     injected : 0 .. LenMod - 1, result : {"none", "success", "failure"},
     took : SUBSET Chunks, late : Nat, astray : BOOLEAN]

TaskFits(t) == t.msg \in TaskMsgs /\ t.part <= Parts(t.msg)

ModemTyped == TypeOK /\ (task.pc # "idle" => TaskFits(task))

(* The MsgTask is idle or busy with a call.                                *)
LEMMA TaskKinds ==
    /\ TypeOK => task = Idle \/ task \in Busy
    /\ \A t \in Busy : t.pc # "idle"
    /\ Idle.pc = "idle" /\ Idle \in Task /\ Busy \subseteq Task
BY DEF TypeOK, Task, Idle, Busy

(* The messages the MsgTask can be at work on.                             *)
LEMMA MsgKinds ==
    /\ \A m \in TaskMsgs : m \in Msg /\ m.type \in {"call", "xtra"}
    /\ \A m \in TaskMsgs : m.type = "call" =>
          /\ m.req \in Calls \cup Settings /\ m = CallMsg(m.req)
          /\ ~IsXtra(m) /\ Parts(m) = 1
    /\ \A m \in TaskMsgs : m.type = "xtra" =>
          /\ m.size \in Sizes /\ m.size \in Nat /\ m = XtraMsg(m.size)
          /\ IsXtra(m) /\ Parts(m) = TotalParts(m.size)
    /\ \A m \in Msg : m.type \in {"call", "xtra"} => m \in TaskMsgs
    /\ \A type \in {"open", "init", "ssr", "up"} :
          Control(type) \in Msg /\ Control(type).type = type
    /\ \A r \in Calls \cup Settings : CallMsg(r) \in Msg
    /\ \A n \in Sizes : XtraMsg(n) \in Msg
<1>1. Sizes \subseteq Nat
  BY CallsAssumption
<1>2. /\ \A r : CallMsg(r).type = "call" /\ CallMsg(r).req = r
      /\ \A n : XtraMsg(n).type = "xtra" /\ XtraMsg(n).size = n
      /\ \A type : Control(type).type = type
  BY DEF Control, CallMsg, XtraMsg
<1>3. ASSUME NEW m \in TaskMsgs
      PROVE  \/ m.type = "call" /\ m.req \in Calls \cup Settings /\ m = CallMsg(m.req)
             \/ m.type = "xtra" /\ m.size \in Sizes /\ m = XtraMsg(m.size)
  BY <1>2 DEF TaskMsgs, CallMsgs
<1>4. ASSUME NEW m \in Msg, m.type \in {"call", "xtra"} PROVE m \in TaskMsgs
  <2>1. CASE m \in {Control(type) : type \in {"open", "init", "ssr", "up"}}
    <3>1. PICK type \in {"open", "init", "ssr", "up"} : m = Control(type)
      BY <2>1
    <3>2. m.type = type
      BY <3>1, <1>2
    <3> QED
      BY <3>2, <1>4
  <2>2. CASE m \in TaskMsgs
    BY <2>2
  <2> QED
    BY <2>1, <2>2 DEF Msg, TaskMsgs
<1>5. \A m \in TaskMsgs : m \in Msg
  BY DEF Msg, TaskMsgs
<1>6. \A type \in {"open", "init", "ssr", "up"} : Control(type) \in Msg
  BY DEF Msg
<1>7. /\ \A r \in Calls \cup Settings : CallMsg(r) \in Msg
      /\ \A n \in Sizes : XtraMsg(n) \in Msg
  BY DEF Msg, CallMsgs
<1> QED
  BY <1>1, <1>2, <1>3, <1>4, <1>5, <1>6, <1>7 DEF IsXtra, Parts

(* What a call sends next is of a part's type.                             *)
LEMMA ThisChunkTyped ==
    ASSUME ModemTyped, task.pc # "idle"
    PROVE  ThisChunk \in Chunks /\ ThisChunk.len \in Nat
<1>1. task \in Busy /\ TaskFits(task)
  BY TaskKinds DEF ModemTyped
<1>2. CASE IsXtra(task.msg)
  <2> DEFINE n == task.msg.size
  <2>1. n \in Sizes /\ n \in Nat /\ task.part \in 1 .. TotalParts(n)
    BY <1>1, <1>2, MsgKinds, PartsCover DEF TaskFits, Busy, IsXtra
  <2>2. task.injected \in 0 .. LenMod - 1
    BY <1>1 DEF Busy
  <2>3. ThisChunk = Chunk(n, task.part, task.injected)
    BY <1>2 DEF ThisChunk
  <2>4. Chunk(n, task.part, task.injected) \in Chunks
    BY <2>1, <2>2 DEF Chunks
  <2>5. Chunk(n, task.part, task.injected).len \in Nat
    BY <2>1, <2>2, CallsAssumption DEF Chunk
  <2> QED
    BY <2>3, <2>4, <2>5
<1>3. CASE ~IsXtra(task.msg)
  BY <1>3 DEF ThisChunk, Chunks, NoChunk
<1> QED BY <1>2, <1>3

(* The request of a call is one of the modem's requests.                   *)
LEMMA ReqTyped ==
    ASSUME ModemTyped, task.pc # "idle"
    PROVE  /\ Req \in Calls \cup Settings \cup {XtraPart}
           /\ IsXtra(task.msg) <=> task.msg.type = "xtra"
           /\ ~IsXtra(task.msg) <=> task.msg.type = "call"
           /\ ~IsXtra(task.msg) => Req = task.msg.req /\ Req \in Calls \cup Settings
           /\ IsXtra(task.msg) => Req = XtraPart
<1>1. task.msg \in TaskMsgs
  BY DEF ModemTyped, TaskFits
<1> QED
  BY <1>1, MsgKinds DEF Req, IsXtra

(* What the end of a request makes of the call.                            *)
LEMMA GrantedIs ==
    ASSUME ModemTyped, task.pc # "idle",
           NEW t \in Busy, t.msg = task.msg, t.part = task.part
    PROVE  /\ Granted(t) \in Busy /\ TaskFits(Granted(t))
           /\ Granted(t).msg = t.msg /\ Granted(t).took = t.took
           /\ Granted(t).late = t.late /\ Granted(t).astray = t.astray
           /\ t.part < Parts(t.msg) =>
                /\ Granted(t).pc = "sending" /\ Granted(t).part = t.part + 1
                /\ Granted(t).injected = (t.injected + ThisChunk.len) % LenMod
           /\ t.part = Parts(t.msg) =>
                /\ Granted(t).pc = "returned" /\ Granted(t).part = t.part
                /\ Granted(t).result = "success"
           /\ Parts(t.msg) \in Nat \ {0} /\ t.part \in 1 .. Parts(t.msg)
<1>1. ThisChunk.len \in Nat /\ TaskFits(t)
  BY ThisChunkTyped DEF ModemTyped, TaskFits
<1>2. Parts(t.msg) \in Nat \ {0}
  BY <1>1, MsgKinds, PartsCover DEF TaskFits
<1>3. (t.injected + ThisChunk.len) % LenMod \in 0 .. LenMod - 1
  BY <1>1, CallsAssumption DEF Busy
<1> DEFINE i == (t.injected + ThisChunk.len) % LenMod
<1>4. CASE t.part < Parts(t.msg)
  <2> DEFINE g == [t EXCEPT !.pc = "sending", !.part = @ + 1, !.injected = i]
  <2>1. i \in 0 .. LenMod - 1
    BY <1>3
  <2>2. Granted(t) = [t EXCEPT !.pc = "sending", !.part = @ + 1,
                               !.injected = (@ + ThisChunk.len) % LenMod]
    BY <1>4 DEF Granted
  <2>3. Granted(t) = g
    BY <2>2
  <2> HIDE DEF i
  <2> DEFINE p == t.part + 1
  <2>6. p \in Nat \ {0} /\ g = [t EXCEPT !.pc = "sending", !.part = p, !.injected = i]
    BY DEF Busy
  <2> HIDE DEF p
  <2>4. /\ g \in Busy /\ g.pc = "sending" /\ g.part = p /\ g.injected = i
        /\ g.msg = t.msg /\ g.took = t.took /\ g.late = t.late /\ g.astray = t.astray
    <3> HIDE DEF g
    <3> QED
      BY <2>1, <2>6 DEF Busy
  <2>5. t.part + 1 <= Parts(t.msg)
    BY <1>2, <1>4 DEF Busy
  <2> HIDE DEF g
  <2> QED
    BY <1>1, <1>2, <1>4, <2>3, <2>4, <2>5 DEF i, p, TaskFits, Busy
<1>5. CASE ~(t.part < Parts(t.msg))
  <2> DEFINE g == [t EXCEPT !.pc = "returned", !.result = "success"]
  <2>1. Granted(t) = g
    BY <1>5 DEF Granted
  <2>2. /\ g \in Busy /\ g.pc = "returned" /\ g.part = t.part /\ g.result = "success"
        /\ g.msg = t.msg /\ g.took = t.took /\ g.late = t.late /\ g.astray = t.astray
    BY DEF Busy
  <2> HIDE DEF g
  <2> QED
    BY <1>1, <1>2, <1>5, <2>1, <2>2 DEF TaskFits, Busy
<1> QED BY <1>4, <1>5

(* A refusal ends the call.                                                *)
LEMMA DeniedIs ==
    ASSUME NEW t \in Busy
    PROVE  /\ Denied(t) \in Busy
           /\ Denied(t).pc = "returned" /\ Denied(t).result = "failure"
           /\ Denied(t).msg = t.msg /\ Denied(t).part = t.part
BY DEF Denied, Busy

-----------------------------------------------------------------------------
(* What loc_eng_reinit sends is what the configuration asks for.           *)
LEMMA ReinitIs ==
    /\ Reinit \in Seq(Settings)
    /\ \A s \in Settings : \E i \in 1 .. Len(Reinit) : Reinit[i] = s
<1> DEFINE a == <<setSUPLVersion, setLPPConfig, setSensorControlConfig, setAGLONASSProtocol>>
           b == IF GyroEtcValid THEN <<setSensorProperties>> ELSE <<>>
           c == <<setSensorPerfControlConfig>>
<1>1. /\ setSUPLVersion \in Settings /\ setLPPConfig \in Settings
      /\ setSensorControlConfig \in Settings /\ setAGLONASSProtocol \in Settings
      /\ setSensorPerfControlConfig \in Settings
      /\ GyroEtcValid => setSensorProperties \in Settings
      /\ \A s \in Settings :
            \/ s \in {setSUPLVersion, setLPPConfig, setSensorControlConfig,
                      setAGLONASSProtocol, setSensorPerfControlConfig}
            \/ GyroEtcValid /\ s = setSensorProperties
  BY DEF Settings
<1>2. a \in Seq(Settings) /\ b \in Seq(Settings) /\ c \in Seq(Settings)
  BY <1>1
<1>3. Len(a) = 4 /\ Len(b) = (IF GyroEtcValid THEN 1 ELSE 0) /\ Len(c) = 1
  OBVIOUS
<1>4. /\ a[1] = setSUPLVersion /\ a[2] = setLPPConfig
      /\ a[3] = setSensorControlConfig /\ a[4] = setAGLONASSProtocol
      /\ GyroEtcValid => b[1] = setSensorProperties
      /\ c[1] = setSensorPerfControlConfig
  OBVIOUS
<1>5. Reinit = (a \o b) \o c
  BY DEF Reinit
<1> HIDE DEF a, b, c
<1> DEFINE d == a \o b
<1>6. /\ d \in Seq(Settings) /\ Len(d) = 4 + Len(b)
      /\ \A i \in 1 .. 4 : d[i] = a[i]
      /\ GyroEtcValid => d[5] = b[1]
  <2>1. /\ d \in Seq(Settings) /\ Len(d) = Len(a) + Len(b)
        /\ \A i \in 1 .. Len(a) + Len(b) : d[i] = IF i <= Len(a) THEN a[i] ELSE b[i - Len(a)]
    BY <1>2, ConcatProperties
  <2> HIDE DEF d
  <2> QED BY <1>3, <2>1
<1> HIDE DEF d
<1>7. /\ d \o c \in Seq(Settings) /\ Len(d \o c) = Len(d) + 1
      /\ \A i \in 1 .. Len(d) : (d \o c)[i] = d[i]
      /\ (d \o c)[Len(d) + 1] = c[1]
  <2> DEFINE e == d \o c
  <2>1. /\ e \in Seq(Settings) /\ Len(e) = Len(d) + Len(c) /\ Len(d) \in Nat
        /\ \A i \in 1 .. Len(d) + Len(c) : e[i] = IF i <= Len(d) THEN d[i] ELSE c[i - Len(d)]
    <3>1. d \in Seq(Settings) /\ c \in Seq(Settings)
      BY <1>2, <1>6
    <3>2. Len(d) \in Nat
      BY <3>1, LenProperties
    <3> QED
      BY <3>1, <3>2, ConcatProperties
  <2> HIDE DEF e
  <2>2. /\ e \in Seq(Settings) /\ Len(e) = Len(d) + 1
        /\ \A i \in 1 .. Len(d) : e[i] = d[i]
        /\ e[Len(d) + 1] = c[1]
    BY <1>3, <2>1
  <2> QED BY <2>2 DEF e
<1>8. Reinit = d \o c
  BY <1>5 DEF d
<1>9. ASSUME NEW s \in Settings PROVE \E i \in 1 .. Len(Reinit) : Reinit[i] = s
  <2>1. CASE s = setSensorPerfControlConfig
    <3>1. Len(d) + 1 \in 1 .. Len(Reinit) /\ Reinit[Len(d) + 1] = s
      BY <1>3, <1>4, <1>6, <1>7, <1>8, <2>1
    <3> QED BY <3>1
  <2>2. CASE GyroEtcValid /\ s = setSensorProperties
    <3>1. 5 \in 1 .. Len(d) /\ 5 \in 1 .. Len(Reinit) /\ Reinit[5] = s
      BY <1>3, <1>4, <1>6, <1>7, <1>8, <2>2
    <3> QED BY <3>1
  <2>3. CASE s \in {a[1], a[2], a[3], a[4]}
    <3>1. PICK i \in 1 .. 4 : a[i] = s
      BY <2>3
    <3>2. i \in 1 .. Len(d) /\ i \in 1 .. Len(Reinit) /\ Reinit[i] = s
      BY <1>3, <1>6, <1>7, <1>8, <3>1
    <3> QED BY <3>2
  <2> QED
    BY <1>1, <1>4, <2>1, <2>2, <2>3
<1> QED
  BY <1>7, <1>8, <1>9

(* The messages of loc_eng_reinit are calls, one per setting.              *)
LEMMA SettingMsgsAre ==
    /\ SettingMsgs \in Seq(Msg) /\ Len(SettingMsgs) = Len(Reinit)
    /\ \A i \in 1 .. Len(SettingMsgs) :
          /\ SettingMsgs[i].type = "call"
          /\ SettingMsgs[i].req = Reinit[i] /\ Reinit[i] \in Settings
    /\ \A s \in Settings : \E i \in 1 .. Len(SettingMsgs) :
          SettingMsgs[i].type = "call" /\ SettingMsgs[i].req = s
<1> DEFINE n == Len(Reinit)
<1>1. n \in Nat /\ DOMAIN Reinit = 1 .. n /\ \A i \in 1 .. n : Reinit[i] \in Settings
  BY ReinitIs, LenProperties
<1>2. /\ \A r : CallMsg(r).type = "call" /\ CallMsg(r).req = r
      /\ \A r \in Settings : CallMsg(r) \in Msg
  BY MsgKinds DEF CallMsg
<1>3. SettingMsgs = [i \in 1 .. n |-> CallMsg(Reinit[i])]
  BY <1>1 DEF SettingMsgs
<1>4. \A i \in 1 .. n : CallMsg(Reinit[i]) \in Msg
  BY <1>1, <1>2
<1>5. SettingMsgs \in Seq(Msg) /\ Len(SettingMsgs) = n
  BY <1>1, <1>3, <1>4
<1>6. \A i \in 1 .. n : SettingMsgs[i] = CallMsg(Reinit[i])
  BY <1>3
<1> HIDE DEF n
<1> QED
  BY <1>1, <1>2, <1>5, <1>6, ReinitIs DEF n

(* What LocEngInit and LocEngUp put behind the queue.                      *)
LEMMA SettingsBehind ==
    ASSUME NEW queue \in Seq(Msg)
    PROVE  /\ queue \o SettingMsgs \in Seq(Msg)
           /\ Len(queue \o SettingMsgs) = Len(queue) + Len(SettingMsgs)
           /\ \A i \in 1 .. Len(queue) : (queue \o SettingMsgs)[i] = queue[i]
           /\ \A i \in 1 .. Len(queue \o SettingMsgs) :
                 i \notin 1 .. Len(queue) => (queue \o SettingMsgs)[i].type = "call"
           /\ \A s \in Settings : \E i \in 1 .. Len(queue \o SettingMsgs) :
                 (queue \o SettingMsgs)[i].type = "call" /\ (queue \o SettingMsgs)[i].req = s
<1> DEFINE q == queue \o SettingMsgs
           n == Len(queue)
           k == Len(SettingMsgs)
<1>1. /\ q \in Seq(Msg) /\ Len(q) = n + k /\ n \in Nat /\ k \in Nat
      /\ \A i \in 1 .. n + k : q[i] = IF i <= n THEN queue[i] ELSE SettingMsgs[i - n]
  <2>1. SettingMsgs \in Seq(Msg)
    BY SettingMsgsAre
  <2> HIDE DEF SettingMsgs
  <2>2. n \in Nat /\ k \in Nat
    BY <2>1, LenProperties
  <2> QED
    BY <2>1, <2>2, ConcatProperties
<1> HIDE DEF q, n, k
<1>2. \A i \in 1 .. n : q[i] = queue[i]
  BY <1>1
<1>3. ASSUME NEW i \in 1 .. n + k, i \notin 1 .. n PROVE q[i].type = "call"
  <2>1. i - n \in 1 .. k /\ q[i] = SettingMsgs[i - n]
    BY <1>1, <1>3
  <2> QED
    BY <2>1, SettingMsgsAre DEF k
<1>4. ASSUME NEW s \in Settings
      PROVE  \E i \in 1 .. n + k : q[i].type = "call" /\ q[i].req = s
  <2>1. PICK i \in 1 .. k : SettingMsgs[i].type = "call" /\ SettingMsgs[i].req = s
    BY SettingMsgsAre DEF k
  <2>2. n + i \in 1 .. n + k /\ q[n + i] = SettingMsgs[i]
    BY <1>1
  <2> QED BY <2>1, <2>2
<1> QED
  BY <1>1, <1>2, <1>3, <1>4 DEF q, n, k

-----------------------------------------------------------------------------
(* The requests the modem has.                                             *)

(* A request is appended to those the modem has.                           *)
LEMMA SentIs ==
    ASSUME ModemTyped, task.pc # "idle"
    PROVE  /\ Sent \in Seq(Asked) /\ Len(asked) \in Nat /\ Len(Sent) = Len(asked) + 1
           /\ \A i \in 1 .. Len(asked) : Sent[i] = asked[i]
           /\ Sent[Len(asked) + 1].req = Req
           /\ Sent[Len(asked) + 1].chunk = ThisChunk
           /\ Sent[Len(asked) + 1].own
<1> DEFINE a == [req |-> Req, chunk |-> ThisChunk, own |-> TRUE]
<1>1. a \in Asked
  BY ReqTyped, ThisChunkTyped DEF Asked
<1>2. asked \in Seq(Asked) /\ Len(asked) \in Nat
  BY LenProperties DEF ModemTyped, TypeOK
<1>3. Sent = Append(asked, a)
  BY DEF Sent
<1>4. a.req = Req /\ a.chunk = ThisChunk /\ a.own
  OBVIOUS
<1> HIDE DEF a
<1>5. /\ Append(asked, a) \in Seq(Asked)
      /\ Len(Append(asked, a)) = Len(asked) + 1
      /\ \A i \in 1 .. Len(asked) : Append(asked, a)[i] = asked[i]
      /\ Append(asked, a)[Len(asked) + 1] = a
  BY <1>1, <1>2, AppendProperties
<1> QED
  BY <1>2, <1>3, <1>4, <1>5

(* Without its head a queue has the others, each one place further.        *)
LEMMA TailIs ==
    ASSUME NEW S, NEW q \in Seq(S), q # <<>>
    PROVE  /\ Head(q) \in S /\ Head(q) = q[1] /\ Tail(q) \in Seq(S)
           /\ Len(q) \in Nat \ {0} /\ Len(Tail(q)) = Len(q) - 1
           /\ DOMAIN q = 1 .. Len(q) /\ DOMAIN Tail(q) = 1 .. Len(q) - 1
           /\ \A i \in 1 .. Len(q) - 1 : Tail(q)[i] = q[i + 1]
<1>1. Head(q) \in S /\ Tail(q) \in Seq(S) /\ Len(Tail(q)) = Len(q) - 1
  BY HeadTailProperties
<1>2. \A i \in 1 .. Len(Tail(q)) : Tail(q)[i] = q[i + 1]
  BY HeadTailProperties
<1>3. Len(q) \in Nat \ {0} /\ DOMAIN q = 1 .. Len(q)
  BY EmptySeq, LenProperties
<1>4. DOMAIN Tail(q) = 1 .. Len(Tail(q))
  BY <1>1, LenProperties
<1>5. Head(q) = q[1]
  BY <1>3
<1> QED
  BY <1>1, <1>2, <1>3, <1>4, <1>5

Disowned == [i \in DOMAIN asked |-> [asked[i] EXCEPT !.own = FALSE]]

(* Requests that no call owns any more.                                    *)
LEMMA DisownedIs ==
    ASSUME TypeOK
    PROVE  /\ Disowned \in Seq(Asked) /\ Len(Disowned) = Len(asked)
           /\ DOMAIN Disowned = DOMAIN asked /\ DOMAIN asked = 1 .. Len(asked)
           /\ \A i \in 1 .. Len(asked) :
                 ~Disowned[i].own /\ Disowned[i].req = asked[i].req
<1> DEFINE n == Len(asked)
<1>1. n \in Nat /\ DOMAIN asked = 1 .. n /\ \A i \in 1 .. n : asked[i] \in Asked
  BY LenProperties DEF TypeOK
<1>2. ASSUME NEW a \in Asked
      PROVE  /\ [a EXCEPT !.own = FALSE] \in Asked
             /\ [a EXCEPT !.own = FALSE].own = FALSE
             /\ [a EXCEPT !.own = FALSE].req = a.req
  BY DEF Asked
<1>3. Disowned = [i \in 1 .. n |-> [asked[i] EXCEPT !.own = FALSE]]
  BY <1>1 DEF Disowned
<1> HIDE DEF n
<1>4. \A i \in 1 .. n : [asked[i] EXCEPT !.own = FALSE] \in Asked
  BY <1>1, <1>2
<1>5. Disowned \in Seq(Asked) /\ Len(Disowned) = n /\ DOMAIN Disowned = 1 .. n
  BY <1>1, <1>3, <1>4
<1>6. \A i \in 1 .. n : Disowned[i] = [asked[i] EXCEPT !.own = FALSE]
  BY <1>3
<1> QED
  BY <1>1, <1>2, <1>5, <1>6 DEF n

(* What an answer of the modem does.                                       *)
Here(a) == task.pc = "waiting" /\ Req.ind = a.req.ind
Mine(a) == task # Idle /\ a.own
Told(a) == IF Mine(a) THEN [task EXCEPT !.took = @ \cup {a.chunk}] ELSE task

(* An answer, in terms of the waiting call and of the oldest request.      *)
LEMMA AnswerIs ==
    ASSUME ModemTyped, Answer, NEW a, a = asked[1]
    PROVE  /\ a \in Asked /\ a.own \in BOOLEAN /\ asked # <<>> /\ asked' = Tail(asked)
           /\ \/ /\ Here(a) /\ conf' = conf \cup {a.req} /\ count' = count
                 /\ \/ task' = Granted(Told(a)) /\ TRUE \in Accepted(a)
                    \/ task' = Denied(Told(a))
              \/ /\ Here(a) /\ conf' = conf /\ Refused /\ task' = Denied(task)
              \/ /\ ~Here(a) /\ conf' = conf \cup {a.req} /\ count' = count
                 /\ task' = Told(a)
              \/ /\ ~Here(a) /\ conf' = conf /\ Refused
                 /\ task' = IF Mine(a) THEN [task EXCEPT !.astray = TRUE] ELSE task
           /\ UNCHANGED <<msgs, linked, up, lost, cb, failed>>
<1>1. asked # <<>> /\ asked \in Seq(Asked) /\ Head(asked) = a /\ a \in Asked
  BY TailIs DEF Answer, ModemTyped, TypeOK
<1>2. a.own \in BOOLEAN
  BY <1>1 DEF Asked
<1>3. UNCHANGED <<msgs, linked, up, lost, cb, failed>> /\ asked' = Tail(asked)
  BY DEF Answer, error
<1>4. \/ /\ conf' = conf \cup {a.req}
         /\ IF Here(a) THEN \E ok \in Accepted(a) : task' = IF ok THEN Granted(Told(a)) ELSE Denied(Told(a))
                       ELSE task' = Told(a)
         /\ UNCHANGED count
      \/ /\ Refused
         /\ task' = IF Here(a) THEN Denied(task)
                    ELSE IF Mine(a) THEN [task EXCEPT !.astray = TRUE] ELSE task
         /\ UNCHANGED conf
  <2>1. Head(asked) = a
    BY <1>1
  <2>2. Answer
    OBVIOUS
  <2> QED
    BY ONLY <2>1, <2>2, Zenon DEF Answer, Here, Mine, Told
<1>5. CASE /\ conf' = conf \cup {a.req}
           /\ IF Here(a) THEN \E ok \in Accepted(a) : task' = IF ok THEN Granted(Told(a)) ELSE Denied(Told(a))
                         ELSE task' = Told(a)
           /\ UNCHANGED count
  <2>1. CASE Here(a)
    <3>1. PICK ok \in Accepted(a) : task' = IF ok THEN Granted(Told(a)) ELSE Denied(Told(a))
      BY <1>5, <2>1
    <3>2. ok \in BOOLEAN
      BY DEF Accepted
    <3>3. CASE ok
      <4>1. TRUE \in Accepted(a) /\ task' = Granted(Told(a))
        BY <3>1, <3>2, <3>3
      <4> QED
        BY <1>1, <1>2, <1>3, <1>5, <2>1, <4>1
    <3>4. CASE ~ok
      BY <1>1, <1>2, <1>3, <1>5, <2>1, <3>1, <3>4
    <3> QED
      BY <3>2, <3>3, <3>4
  <2>2. CASE ~Here(a)
    BY <1>1, <1>2, <1>3, <1>5, <2>2
  <2> QED
    BY <2>1, <2>2
<1>6. CASE /\ Refused
           /\ task' = IF Here(a) THEN Denied(task)
                      ELSE IF Mine(a) THEN [task EXCEPT !.astray = TRUE] ELSE task
           /\ UNCHANGED conf
  BY <1>1, <1>2, <1>3, <1>6
<1> QED
  BY <1>4, <1>5, <1>6

(* The call after the modem took its part.                                 *)
LEMMA ToldIs ==
    ASSUME ModemTyped, NEW a \in Asked
    PROVE  /\ task.pc # "idle" =>
                /\ Told(a) \in Busy /\ TaskFits(Told(a))
                /\ Told(a).pc = task.pc /\ Told(a).msg = task.msg /\ Told(a).part = task.part
                /\ Told(a).injected = task.injected /\ Told(a).result = task.result
                /\ Told(a).late = task.late /\ Told(a).astray = task.astray
                /\ Told(a).took = IF a.own THEN task.took \cup {a.chunk} ELSE task.took
           /\ task.pc = "idle" => Told(a) = task
           /\ task.pc # "idle" <=> task # Idle
<1>1. task.pc # "idle" <=> task # Idle
  BY TaskKinds DEF ModemTyped
<1>2. CASE task.pc # "idle"
  <2>1. task \in Busy /\ TaskFits(task)
    BY <1>2, TaskKinds DEF ModemTyped
  <2>2. a.chunk \in Chunks
    BY DEF Asked
  <2> DEFINE k == task.took \cup {a.chunk}
  <2>3. k \in SUBSET Chunks
    BY <2>1, <2>2 DEF Busy
  <2> HIDE DEF k
  <2> DEFINE t == [task EXCEPT !.took = k]
  <2>4. /\ t \in Busy /\ t.pc = task.pc /\ t.msg = task.msg /\ t.part = task.part
        /\ t.injected = task.injected /\ t.result = task.result
        /\ t.late = task.late /\ t.astray = task.astray /\ t.took = k
    BY <2>1, <2>3 DEF Busy
  <2>5. Told(a) = IF a.own THEN t ELSE task
    BY <1>1, <1>2 DEF Told, Mine, k
  <2> HIDE DEF t
  <2>6. TaskFits(t)
    BY <2>1, <2>4 DEF TaskFits
  <2> QED
    BY <1>1, <1>2, <2>1, <2>4, <2>5, <2>6 DEF k
<1>3. CASE task.pc = "idle"
  BY <1>1, <1>3 DEF Told, Mine
<1> QED
  BY <1>1, <1>2, <1>3

(* Marks a call whose request ended without an answer.                     *)
LEMMA AstrayIs ==
    ASSUME ModemTyped, task.pc # "idle"
    PROVE  LET t == [task EXCEPT !.astray = TRUE]
           IN  /\ t \in Busy /\ TaskFits(t) /\ t.astray
               /\ t.pc = task.pc /\ t.msg = task.msg /\ t.part = task.part
<1>1. task \in Busy /\ TaskFits(task)
  BY TaskKinds DEF ModemTyped
<1> DEFINE t == [task EXCEPT !.astray = TRUE]
<1>2. t \in Busy /\ t.astray /\ t.pc = task.pc /\ t.msg = task.msg /\ t.part = task.part
  BY <1>1 DEF Busy
<1> HIDE DEF t
<1>3. TaskFits(t)
  BY <1>1, <1>2 DEF TaskFits
<1> QED
  BY <1>2, <1>3 DEF t

-----------------------------------------------------------------------------
(* The types are kept.                                                     *)

LEMMA Counted ==
    ASSUME TypeOK
    PROVE  /\ Refused => count' \in [posts : 0 .. MaxPosts, refusals : 0 .. MaxRefusals,
                                     crashes : 0 .. MaxCrashes]
           /\ count.posts < MaxPosts => [count EXCEPT !.posts = @ + 1] \in
                [posts : 0 .. MaxPosts, refusals : 0 .. MaxRefusals, crashes : 0 .. MaxCrashes]
           /\ count.crashes < MaxCrashes => [count EXCEPT !.crashes = @ + 1] \in
                [posts : 0 .. MaxPosts, refusals : 0 .. MaxRefusals, crashes : 0 .. MaxCrashes]
<1>1. MaxPosts \in Nat /\ MaxRefusals \in Nat /\ MaxCrashes \in Nat
  BY CallsAssumption
<1> DEFINE C == [posts : 0 .. MaxPosts, refusals : 0 .. MaxRefusals, crashes : 0 .. MaxCrashes]
<1>2. count \in C
  BY DEF TypeOK
<1>3. ASSUME NEW k \in 0 .. MaxPosts PROVE [count EXCEPT !.posts = k] \in C
  BY <1>2
<1>4. ASSUME NEW k \in 0 .. MaxRefusals PROVE [count EXCEPT !.refusals = k] \in C
  BY <1>2
<1>5. ASSUME NEW k \in 0 .. MaxCrashes PROVE [count EXCEPT !.crashes = k] \in C
  BY <1>2
<1>6. /\ count.posts < MaxPosts => count.posts + 1 \in 0 .. MaxPosts
      /\ count.refusals < MaxRefusals => count.refusals + 1 \in 0 .. MaxRefusals
      /\ count.crashes < MaxCrashes => count.crashes + 1 \in 0 .. MaxCrashes
  BY <1>1, <1>2
<1> HIDE DEF C
<1>7. count.posts < MaxPosts => [count EXCEPT !.posts = @ + 1] \in C
  BY <1>3, <1>6
<1>8. Refused => count' \in C
  BY <1>4, <1>6 DEF Refused
<1>9. count.crashes < MaxCrashes => [count EXCEPT !.crashes = @ + 1] \in C
  BY <1>5, <1>6
<1> QED
  BY <1>7, <1>8, <1>9 DEF C

(* The first state is typed.                                               *)
LEMMA ModemTypedInit == Init => ModemTyped
<1> SUFFICES ASSUME Init PROVE ModemTyped
  OBVIOUS
<1>1. msgs \in Seq(Msg)
  BY MsgKinds DEF Init
<1>2. count \in [posts : 0 .. MaxPosts, refusals : 0 .. MaxRefusals, crashes : 0 .. MaxCrashes]
  BY CallsAssumption DEF Init
<1>3. asked \in Seq(Asked) /\ cb \in Seq(Msg)
  BY DEF Init
<1> QED
  BY <1>1, <1>2, <1>3, TaskKinds DEF Init, ModemTyped, TypeOK

(* A call begins; some end at once, at their arguments.                    *)
LEMMA BeginIs ==
    ASSUME ModemTyped, Begin, NEW m, m = msgs[1]
    PROVE  /\ m \in TaskMsgs /\ task.pc = "idle" /\ task' \in Busy /\ TaskFits(task')
           /\ task'.msg = m /\ task'.part = 1 /\ task'.injected = 0 /\ ~task'.astray
           /\ task'.took = {} /\ task'.late = Late(IF IsXtra(m) THEN XtraPart.ind ELSE m.req.ind)
           /\ \/ task'.pc = "sending"
              \/ /\ task'.pc = "returned" /\ task'.result = "failure"
                 /\ m.type = "call" /\ m.req \in Checking
           /\ msgs # <<>> /\ msgs' = Tail(msgs)
<1>1. msgs # <<>> /\ msgs \in Seq(Msg) /\ m = Head(msgs) /\ m \in Msg /\ m.type \in {"call", "xtra"}
  BY TailIs DEF ModemTyped, TypeOK, Begin, Takes
<1>2. m \in TaskMsgs
  BY <1>1, MsgKinds
<1>3. task.pc = "idle" /\ msgs' = Tail(msgs)
  BY TaskKinds DEF Begin, Takes
<1> DEFINE l == Late(IF IsXtra(m) THEN XtraPart.ind ELSE m.req.ind)
           s == [pc |-> "sending", msg |-> m, part |-> 1, injected |-> 0,
                 result |-> "none", took |-> {}, late |-> l, astray |-> FALSE]
           f == [s EXCEPT !.pc = "returned", !.result = "failure"]
<1>4. task' = s \/ (m.type = "call" /\ m.req \in Checking /\ task' = f)
  <2>1. Head(msgs) = m
    BY <1>1
  <2>2. Begin
    OBVIOUS
  <2> QED
    BY ONLY <2>1, <2>2, Zenon DEF Begin
<1>5. l \in Nat
  <2> DEFINE d == IF IsXtra(m) THEN XtraPart.ind ELSE m.req.ind
             S == {i \in DOMAIN asked : asked[i].req.ind = d}
  <2>1. DOMAIN asked = 1 .. Len(asked) /\ Len(asked) \in Nat
    BY LenProperties DEF ModemTyped, TypeOK
  <2>2. IsFiniteSet(1 .. Len(asked))
    BY <2>1, FS_Interval
  <2>3. IsFiniteSet(S)
    BY <2>1, <2>2, FS_Subset
  <2> QED
    BY <2>3, FS_CardinalityType DEF Late
<1>6. 0 \in 0 .. LenMod - 1
  BY CallsAssumption
<1> HIDE DEF l
<1>7. /\ s \in Busy /\ s.pc = "sending" /\ s.msg = m /\ s.part = 1 /\ s.injected = 0
      /\ ~s.astray /\ s.took = {} /\ s.late = l
  BY <1>1, <1>5, <1>6 DEF Busy
<1> HIDE DEF s
<1>8. /\ f \in Busy /\ f.pc = "returned" /\ f.result = "failure" /\ f.msg = m /\ f.part = 1
      /\ f.injected = 0 /\ ~f.astray /\ f.took = {} /\ f.late = l
  BY <1>7 DEF Busy
<1> HIDE DEF f
<1>9. TaskFits(s) /\ TaskFits(f)
  <2>1. Parts(m) \in Nat \ {0}
    BY <1>2, MsgKinds, PartsCover
  <2> QED
    BY <1>2, <1>7, <1>8, <2>1 DEF TaskFits
<1> QED
  BY <1>1, <1>2, <1>3, <1>4, <1>7, <1>8, <1>9 DEF l

(* The other steps of a call.                                              *)
LEMMA ReturnsIs ==
    ASSUME ModemTyped, task.pc # "idle", NEW result \in {"success", "failure"}
    PROVE  /\ Returns(result) \in Busy /\ TaskFits(Returns(result))
           /\ Returns(result).pc = "returned" /\ Returns(result).result = result
           /\ Returns(result).msg = task.msg /\ Returns(result).astray = task.astray
<1>1. task \in Busy /\ TaskFits(task)
  BY TaskKinds DEF ModemTyped
<1> DEFINE t == Returns(result)
<1>2. t \in Busy /\ t.pc = "returned" /\ t.result = result /\ t.msg = task.msg
      /\ t.part = task.part /\ t.astray = task.astray
  BY <1>1 DEF Busy, Returns
<1> HIDE DEF t
<1>3. TaskFits(t)
  BY <1>1, <1>2 DEF TaskFits
<1> QED
  BY <1>2, <1>3 DEF t

(* A request goes out to the modem.                                        *)
LEMMA SendIs ==
    ASSUME ModemTyped, Send
    PROVE  /\ task.pc = "sending" /\ task' \in Busy /\ TaskFits(task') /\ task'.pc = "waiting"
           /\ task'.msg = task.msg /\ task'.part = task.part /\ task'.injected = task.injected
           /\ task'.took = task.took /\ task'.late = task.late /\ task'.astray = task.astray
           /\ task'.result = task.result
<1>1. task.pc = "sending" /\ task' = [task EXCEPT !.pc = "waiting"]
  BY DEF Send
<1>2. task \in Busy /\ TaskFits(task)
  BY <1>1, TaskKinds DEF ModemTyped
<1>3. /\ task' \in Busy /\ task'.pc = "waiting" /\ task'.msg = task.msg
      /\ task'.part = task.part /\ task'.injected = task.injected
      /\ task'.took = task.took /\ task'.late = task.late /\ task'.astray = task.astray
      /\ task'.result = task.result
  BY <1>1, <1>2 DEF Busy
<1> QED
  BY <1>1, <1>2, <1>3 DEF TaskFits

(* A wait ends without an answer.                                          *)
LEMMA WokenIs ==
    ASSUME ModemTyped, WokenOddly
    PROVE  /\ task.pc = "waiting" /\ task' \in Busy /\ TaskFits(task')
           /\ task'.msg = task.msg
           /\ \/ task'.pc = "returned" /\ task'.result = "failure"
              \/ task'.pc \in {"sending", "returned"} /\ task'.astray
           /\ task.msg.type = "call" => task'.pc = "returned"
<1>1. task.pc = "waiting" /\ task \in Busy /\ TaskFits(task)
  BY TaskKinds DEF ModemTyped, WokenOddly
<1> DEFINE t == [task EXCEPT !.astray = TRUE]
<1>2. t \in Busy /\ TaskFits(t) /\ t.astray /\ t.msg = task.msg /\ t.part = task.part
  BY <1>1, AstrayIs
<1>3. task' = Granted(t) \/ task' = Denied(t)
  BY DEF WokenOddly
<1> HIDE DEF t
<1>4. CASE task' = Granted(t)
  <2>1. /\ Granted(t) \in Busy /\ TaskFits(Granted(t)) /\ Granted(t).msg = t.msg
        /\ Granted(t).astray = t.astray
        /\ Granted(t).pc \in {"sending", "returned"}
        /\ task.msg.type = "call" => Granted(t).pc = "returned"
    <3>1. t.part \in 1 .. Parts(t.msg) /\ Parts(t.msg) \in Nat \ {0}
      BY <1>1, <1>2, GrantedIs
    <3>2. t.part < Parts(t.msg) \/ t.part = Parts(t.msg)
      BY <3>1
    <3>3. task.msg.type = "call" => Parts(t.msg) = 1
      BY <1>1, <1>2, MsgKinds DEF TaskFits
    <3>4. task.msg.type = "call" => t.part = Parts(t.msg)
      BY <3>1, <3>3
    <3> QED
      BY <1>1, <1>2, <3>2, <3>4, GrantedIs
  <2> QED
    BY <1>1, <1>2, <1>4, <2>1
<1>5. CASE task' = Denied(t)
  BY <1>1, <1>2, <1>5, DeniedIs DEF TaskFits
<1> QED
  BY <1>3, <1>4, <1>5

(* The modem is lost.                                                      *)
LEMMA CrashIs ==
    ASSUME ModemTyped, Crash
    PROVE  /\ task.pc = "idle" => task' = task
           /\ task.pc # "idle" =>
                /\ task' \in Busy /\ TaskFits(task') /\ task'.pc = task.pc
                /\ task'.msg = task.msg /\ task'.part = task.part /\ task'.result = task.result
                /\ task'.astray = task.astray /\ task'.late = task.late
                /\ task.pc = "returned" => task'.took = task.took
<1>1. task' = IF task.pc \in {"sending", "waiting"} THEN [task EXCEPT !.took = {}] ELSE task
  BY DEF Crash
<1>2. CASE task.pc \in {"sending", "waiting"}
  <2>1. task \in Busy /\ TaskFits(task)
    BY <1>2, TaskKinds DEF ModemTyped
  <2>2. /\ task' \in Busy /\ task'.pc = task.pc /\ task'.msg = task.msg /\ task'.part = task.part
        /\ task'.result = task.result /\ task'.astray = task.astray /\ task'.late = task.late
    BY <1>1, <1>2, <2>1 DEF Busy
  <2> QED
    BY <1>2, <2>1, <2>2 DEF TaskFits
<1>3. CASE task.pc \notin {"sending", "waiting"}
  BY <1>1, <1>3, TaskKinds DEF ModemTyped
<1> QED
  BY <1>2, <1>3

LEMMA AnswerKeepsTypes ==
    ASSUME ModemTyped, Answer
    PROVE  ModemTyped'
<1> DEFINE a == asked[1]
<1>1. /\ a \in Asked /\ asked # <<>> /\ asked' = Tail(asked)
      /\ \/ Here(a) /\ task' = Granted(Told(a))
         \/ Here(a) /\ task' = Denied(Told(a))
         \/ Here(a) /\ task' = Denied(task)
         \/ task' = Told(a)
         \/ task' = IF Mine(a) THEN [task EXCEPT !.astray = TRUE] ELSE task
      /\ conf' = conf \cup {a.req} \/ conf' = conf
      /\ count' = count \/ Refused
      /\ UNCHANGED <<msgs, linked, up, lost, cb, failed>>
  BY AnswerIs
<1> HIDE DEF a
<1>2. asked' \in Seq(Asked)
  BY <1>1, TailIs DEF ModemTyped, TypeOK
<1>3. conf' \in SUBSET (Calls \cup Settings \cup {XtraPart})
  BY <1>1 DEF ModemTyped, TypeOK, Asked
<1>4. count' \in [posts : 0 .. MaxPosts, refusals : 0 .. MaxRefusals, crashes : 0 .. MaxCrashes]
  BY <1>1, Counted DEF ModemTyped, TypeOK
<1>5. task' \in Task /\ (task'.pc # "idle" => TaskFits(task'))
  <2>1. CASE task.pc = "idle"
    <3>1. task' = task
      BY <1>1, <2>1, ToldIs DEF Here, Mine
    <3> QED
      BY <2>1, <3>1, TaskKinds DEF ModemTyped, TypeOK
  <2>2. CASE task.pc # "idle"
    <3>1. /\ task \in Busy /\ TaskFits(task) /\ Told(a) \in Busy /\ TaskFits(Told(a))
          /\ Told(a).msg = task.msg /\ Told(a).part = task.part
      BY <1>1, <2>2, ToldIs, TaskKinds DEF ModemTyped
    <3>2. Granted(Told(a)) \in Busy /\ TaskFits(Granted(Told(a)))
      BY <2>2, <3>1, GrantedIs
    <3>3. Denied(Told(a)) \in Busy /\ TaskFits(Denied(Told(a)))
      BY <3>1, DeniedIs DEF TaskFits
    <3>4. Denied(task) \in Busy /\ TaskFits(Denied(task))
      BY <3>1, DeniedIs DEF TaskFits
    <3>5. [task EXCEPT !.astray = TRUE] \in Busy /\ TaskFits([task EXCEPT !.astray = TRUE])
      BY <2>2, AstrayIs
    <3>6. task' \in Busy /\ TaskFits(task')
      BY <1>1, <3>1, <3>2, <3>3, <3>4, <3>5
    <3> QED
      BY <3>6, TaskKinds
  <2> QED
    BY <2>1, <2>2
<1>6. TypeOK'
  BY <1>1, <1>2, <1>3, <1>4, <1>5 DEF ModemTyped, TypeOK
<1> QED
  BY <1>5, <1>6 DEF ModemTyped, TaskFits, Parts, TotalParts

LEMMA CallKeepsTypes ==
    ASSUME ModemTyped, Begin \/ Send \/ SendFails \/ TimedOut \/ WokenOddly \/ Return
    PROVE  ModemTyped'
<1>1. CASE Begin
  <2>1. task' \in Busy /\ TaskFits(task') /\ msgs # <<>> /\ msgs' = Tail(msgs)
    BY <1>1, BeginIs
  <2>2. msgs' \in Seq(Msg)
    BY <2>1, TailIs DEF ModemTyped, TypeOK
  <2>3. UNCHANGED <<linked, up, conf, asked, lost, cb, failed, count>>
    BY <1>1 DEF Begin, modem, error
  <2> QED
    BY <2>1, <2>2, <2>3, TaskKinds DEF ModemTyped, TypeOK, TaskFits, Parts, TotalParts
<1>2. CASE Send
  <2>1. task' \in Busy /\ TaskFits(task') /\ task.pc # "idle"
    BY <1>2, SendIs
  <2>2. asked' \in Seq(Asked)
    BY <1>2, <2>1, SentIs DEF Send
  <2>3. UNCHANGED <<msgs, linked, up, conf, lost, cb, failed, count>>
    BY <1>2 DEF Send, error
  <2> QED
    BY <2>1, <2>2, <2>3, TaskKinds DEF ModemTyped, TypeOK, TaskFits, Parts, TotalParts
<1>3. CASE SendFails
  <2>1. task.pc # "idle" /\ task' = Returns("failure") /\ asked' \in {asked, Sent}
        /\ (count' = count \/ Refused)
    BY <1>3 DEF SendFails
  <2>2. task' \in Busy /\ TaskFits(task')
    BY <2>1, ReturnsIs
  <2>3. asked' \in Seq(Asked)
    BY <2>1, SentIs DEF ModemTyped, TypeOK
  <2>4. count' \in [posts : 0 .. MaxPosts, refusals : 0 .. MaxRefusals, crashes : 0 .. MaxCrashes]
    BY <2>1, Counted DEF ModemTyped, TypeOK
  <2>5. UNCHANGED <<msgs, linked, up, conf, lost, cb, failed>>
    BY <1>3 DEF SendFails, error
  <2> QED
    BY <2>2, <2>3, <2>4, <2>5, TaskKinds DEF ModemTyped, TypeOK, TaskFits, Parts, TotalParts
<1>4. CASE TimedOut
  <2>1. task' \in Busy /\ TaskFits(task')
    BY <1>4, ReturnsIs DEF TimedOut
  <2>2. UNCHANGED <<msgs, linked, up, conf, asked, lost, cb, failed, count>>
    BY <1>4 DEF TimedOut, modem, error
  <2> QED
    BY <2>1, <2>2, TaskKinds DEF ModemTyped, TypeOK, TaskFits, Parts, TotalParts
<1>5. CASE WokenOddly
  <2>1. task' \in Busy /\ TaskFits(task')
    BY <1>5, WokenIs
  <2>2. UNCHANGED <<msgs, linked, up, conf, asked, lost, cb, failed>> /\ Refused
    BY <1>5 DEF WokenOddly, modem, error
  <2>3. count' \in [posts : 0 .. MaxPosts, refusals : 0 .. MaxRefusals, crashes : 0 .. MaxCrashes]
    BY <2>2, Counted DEF ModemTyped
  <2> QED
    BY <2>1, <2>2, <2>3, TaskKinds DEF ModemTyped, TypeOK, TaskFits, Parts, TotalParts
<1>6. CASE Return
  <2>1. asked' = Disowned /\ task' = Idle /\ UNCHANGED <<msgs, linked, up, conf, lost, cb, count>>
    BY <1>6 DEF Return, Disowned, error
  <2>2. failed' \in BOOLEAN
    BY <1>6 DEF Return, ModemTyped, TypeOK
  <2>3. asked' \in Seq(Asked)
    BY <2>1, DisownedIs DEF ModemTyped
  <2> QED
    BY <2>1, <2>2, <2>3, TaskKinds DEF ModemTyped, TypeOK
<1> QED
  BY <1>1, <1>2, <1>3, <1>4, <1>5, <1>6

LEMMA OtherKeepsTypes ==
    ASSUME ModemTyped,
           Post \/ LocEngInit \/ LocEngUp \/ Open \/ Crash \/ Recover \/ ErrorCb \/ PostCb
    PROVE  ModemTyped'
<1>1. CASE Post
  <2>1. UNCHANGED <<task, linked, up, conf, asked, lost, cb, failed>>
    BY <1>1 DEF Post, modem, error
  <2>2. count' \in [posts : 0 .. MaxPosts, refusals : 0 .. MaxRefusals, crashes : 0 .. MaxCrashes]
    BY <1>1, Counted DEF Post, ModemTyped
  <2>3. \E m \in Msg : msgs' = Append(msgs, m)
    BY <1>1, MsgKinds DEF Post
  <2>4. msgs' \in Seq(Msg)
    BY <2>3, AppendProperties DEF ModemTyped, TypeOK
  <2> QED
    BY <2>1, <2>2, <2>4 DEF ModemTyped, TypeOK, TaskFits, Parts, TotalParts
<1>2. CASE LocEngInit \/ LocEngUp
  <2>1. /\ UNCHANGED <<task, linked, up, conf, asked, lost, cb, failed, count>>
        /\ msgs # <<>> /\ msgs' = Tail(msgs) \o SettingMsgs
    BY <1>2 DEF LocEngInit, LocEngUp, Takes, modem, error
  <2>2. Tail(msgs) \in Seq(Msg)
    BY <2>1, TailIs DEF ModemTyped, TypeOK
  <2>3. msgs' \in Seq(Msg)
    BY <2>1, <2>2, SettingsBehind
  <2> QED
    BY <2>1, <2>3 DEF ModemTyped, TypeOK, TaskFits, Parts, TotalParts
<1>3. CASE Open
  <2>1. /\ UNCHANGED <<task, up, conf, lost, cb, count>>
        /\ msgs # <<>> /\ msgs' = Tail(msgs) /\ linked' = up /\ failed' = FALSE /\ asked' = <<>>
    BY <1>3 DEF Open, Takes, error
  <2>2. msgs' \in Seq(Msg)
    BY <2>1, TailIs DEF ModemTyped, TypeOK
  <2>3. linked' \in BOOLEAN /\ failed' \in BOOLEAN /\ asked' \in Seq(Asked)
    <3>1. linked' = up /\ up \in BOOLEAN
      BY <2>1 DEF ModemTyped, TypeOK
    <3>2. linked' \in BOOLEAN
      BY ONLY <3>1, Zenon
    <3>3. failed' \in BOOLEAN
      BY ONLY <2>1, Zenon
    <3>4. asked' \in Seq(Asked)
      BY ONLY <2>1, EmptySeq
    <3> QED
      BY <3>2, <3>3, <3>4
  <2>4. UNCHANGED <<task, up, conf, lost, cb, count>>
    BY <2>1
  <2>5. TypeOK'
    BY ONLY ModemTyped, <2>2, <2>3, <2>4, Zenon DEF ModemTyped, TypeOK
  <2> QED
    BY <2>4, <2>5 DEF ModemTyped, TaskFits, Parts, TotalParts
<1>4. CASE Crash
  <2>1. /\ UNCHANGED <<msgs, cb, failed>>
        /\ up' = FALSE /\ conf' = {} /\ asked' = <<>> /\ linked' = FALSE
        /\ lost' = (lost \/ linked)
    BY <1>4 DEF Crash
  <2>2. count' \in [posts : 0 .. MaxPosts, refusals : 0 .. MaxRefusals, crashes : 0 .. MaxCrashes]
    BY <1>4, Counted DEF Crash, ModemTyped
  <2>3. task' \in Task /\ (task'.pc # "idle" => TaskFits(task'))
    BY <1>4, CrashIs, TaskKinds DEF ModemTyped, TypeOK
  <2>4. lost' \in BOOLEAN /\ up' \in BOOLEAN /\ linked' \in BOOLEAN
    BY <2>1 DEF ModemTyped, TypeOK
  <2>5. asked' \in Seq(Asked) /\ conf' \in SUBSET (Calls \cup Settings \cup {XtraPart})
    BY <2>1
  <2>6. UNCHANGED <<msgs, cb, failed>>
    BY <2>1
  <2>7. TypeOK'
    BY ONLY ModemTyped, <2>2, <2>3, <2>4, <2>5, <2>6, Zenon DEF ModemTyped, TypeOK
  <2> QED
    BY <2>3, <2>7 DEF ModemTyped, TaskFits, Parts, TotalParts
<1>5. CASE Recover
  BY <1>5 DEF Recover, error, ModemTyped, TypeOK, TaskFits, Parts, TotalParts
<1>6. CASE ErrorCb
  <2>1. /\ UNCHANGED <<msgs, task, linked, up, conf, asked, failed, count>>
        /\ lost' = FALSE /\ cb' = <<Control("ssr"), Control("up")>>
    BY <1>6 DEF ErrorCb, modem
  <2>2. cb' \in Seq(Msg)
    BY <2>1, MsgKinds
  <2>3. TypeOK'
    BY <2>1, <2>2 DEF ModemTyped, TypeOK
  <2> QED
    BY <2>1, <2>3 DEF ModemTyped, TaskFits, Parts, TotalParts
<1>7. CASE PostCb
  <2>1. /\ UNCHANGED <<task, linked, up, conf, asked, lost, failed, count>>
        /\ cb # <<>> /\ msgs' = Append(msgs, Head(cb)) /\ cb' = Tail(cb)
    BY <1>7 DEF PostCb, modem
  <2>2. Head(cb) \in Msg /\ cb' \in Seq(Msg)
    BY <2>1, TailIs DEF ModemTyped, TypeOK
  <2>3. msgs' \in Seq(Msg)
    BY <2>1, <2>2, AppendProperties DEF ModemTyped, TypeOK
  <2>4. TypeOK'
    BY <2>1, <2>2, <2>3 DEF ModemTyped, TypeOK
  <2> QED
    BY <2>1, <2>4 DEF ModemTyped, TaskFits, Parts, TotalParts
<1> QED
  BY <1>1, <1>2, <1>3, <1>4, <1>5, <1>6, <1>7

LEMMA ModemTypedKept == ModemTyped /\ [Next]_vars => ModemTyped'
<1> SUFFICES ASSUME ModemTyped, [Next]_vars PROVE ModemTyped'
  OBVIOUS
<1>1. CASE UNCHANGED vars
  BY <1>1 DEF vars, modem, error, ModemTyped, TypeOK, TaskFits, Parts, TotalParts
<1>2. CASE Next
  BY <1>2, AnswerKeepsTypes, CallKeepsTypes, OtherKeepsTypes DEF Next, MsgTask
<1> QED BY <1>1, <1>2

(* Everything ModemCalls keeps stays within its types, and no file is sent *)
(* beyond its last part.                                                   *)
THEOREM ModemTypeCorrect == Spec => []TypeOK
<1>1. ModemTyped => TypeOK
  BY DEF ModemTyped
<1> QED
  BY <1>1, ModemTypedInit, ModemTypedKept, PTL DEF Spec

-----------------------------------------------------------------------------
(* The settings.                                                           *)

(* A setting shares its indication with other settings only, and no call   *)
(* that sends one looks at arguments first.                                *)
LEMMA SettingsApart ==
    /\ \A r \in Calls \cup Settings \cup {XtraPart}, s \in Settings :
          r.ind = s.ind => r \in Settings
    /\ Settings \cap Checking = {}
    /\ XtraPart \notin Settings
<1>0. \A ind, about : Request(ind, about).ind = ind
  BY DEF Request
<1>1. \A s \in Settings : s.ind \in {"SET_PROTOCOL_CONFIG_PARAMETERS", "SET_SENSOR_CONTROL_CONFIG",
         "SET_SENSOR_PROPERTIES", "SET_SENSOR_PERFORMANCE_CONTROL_CONFIGURATION"}
  <2>1. /\ setSUPLVersion.ind = "SET_PROTOCOL_CONFIG_PARAMETERS"
        /\ setLPPConfig.ind = "SET_PROTOCOL_CONFIG_PARAMETERS"
        /\ setAGLONASSProtocol.ind = "SET_PROTOCOL_CONFIG_PARAMETERS"
        /\ setSensorControlConfig.ind = "SET_SENSOR_CONTROL_CONFIG"
        /\ setSensorProperties.ind = "SET_SENSOR_PROPERTIES"
        /\ setSensorPerfControlConfig.ind = "SET_SENSOR_PERFORMANCE_CONTROL_CONFIGURATION"
    BY <1>0 DEF setSUPLVersion, setLPPConfig, setAGLONASSProtocol, setSensorControlConfig,
                setSensorProperties, setSensorPerfControlConfig
  <2> QED
    BY <2>1 DEF Settings
<1>2. \A r \in Checking : r.ind \in {"NI_USER_RESPONSE", "SET_SERVER",
         "INFORM_LOCATION_SERVER_CONN_STATUS", "SET_EXTERNAL_POWER_CONFIG"}
  <2>1. /\ informNiResponse.ind = "NI_USER_RESPONSE" /\ setServerUrl.ind = "SET_SERVER"
        /\ atlOpenStatus.ind = "INFORM_LOCATION_SERVER_CONN_STATUS"
        /\ setExtPowerConfig.ind = "SET_EXTERNAL_POWER_CONFIG"
    BY <1>0 DEF informNiResponse, setServerUrl, atlOpenStatus, setExtPowerConfig
  <2> QED
    BY <2>1 DEF Checking
<1>3. \A r \in Asking : r.ind \in {"GET_PREDICTED_ORBITS_DATA_SOURCE",
         "GET_BEST_AVAILABLE_POSITION", "GET_ENGINE_LOCK"}
  <2>1. /\ requestXtraServer.ind = "GET_PREDICTED_ORBITS_DATA_SOURCE"
        /\ getZppFix.ind = "GET_BEST_AVAILABLE_POSITION" /\ getGpsLock.ind = "GET_ENGINE_LOCK"
    BY <1>0 DEF requestXtraServer, getZppFix, getGpsLock
  <2> QED
    BY <2>1 DEF Asking
<1>4. \A r \in {setTime, injectPosition, deleteAidingData, setServerIpv4, atlCloseStatus, setGpsLock} :
         r.ind \in {"INJECT_UTC_TIME", "INJECT_POSITION", "DELETE_ASSIST_DATA", "SET_SERVER",
                    "INFORM_LOCATION_SERVER_CONN_STATUS", "SET_ENGINE_LOCK"}
  <2>1. /\ setTime.ind = "INJECT_UTC_TIME" /\ injectPosition.ind = "INJECT_POSITION"
        /\ deleteAidingData.ind = "DELETE_ASSIST_DATA" /\ setServerIpv4.ind = "SET_SERVER"
        /\ atlCloseStatus.ind = "INFORM_LOCATION_SERVER_CONN_STATUS"
        /\ setGpsLock.ind = "SET_ENGINE_LOCK"
    BY <1>0 DEF setTime, injectPosition, deleteAidingData, setServerIpv4, atlCloseStatus,
                setGpsLock
  <2> QED
    BY <2>1
<1>5. XtraPart.ind = "INJECT_PREDICTED_ORBITS_DATA"
  BY <1>0 DEF XtraPart
<1>6. Calls \subseteq Call
  BY CallsAssumption
<1>7. \A r \in Call \cup {XtraPart}, s \in Settings : r.ind # s.ind
  <2>1. \A r \in Call \cup {XtraPart} :
           \/ r \in Checking \/ r \in Asking \/ r = XtraPart
           \/ r \in {setTime, injectPosition, deleteAidingData, setServerIpv4, atlCloseStatus, setGpsLock}
    BY DEF Call
  <2> QED
    BY ONLY <1>1, <1>2, <1>3, <1>4, <1>5, <2>1
<1>8. \A r \in Checking : r \in Call
  BY DEF Call
<1> QED
  BY ONLY <1>6, <1>7, <1>8

(* LocOpenMsg is followed by LocEngInit from the start.                    *)
LEMMA ConfInit == Init => ConfInv
<1> SUFFICES ASSUME Init PROVE ConfInv
  OBVIOUS
<1>1. msgs = <<Control("open"), Control("init")>> /\ cb = <<>> /\ asked = <<>> /\ linked = FALSE
  BY DEF Init
<1>2. OrderInv
  <2>1. msgs[2] = Control("init") /\ DOMAIN msgs = 1 .. 2
    BY <1>1
  <2>2. msgs[1] = Control("open") /\ Resends(msgs[2]) /\ msgs[2].type = "init"
    BY <1>1, <2>1 DEF Resends, Control
  <2>3. \A i \in DOMAIN msgs : msgs[i].type \in {"open", "ssr"} =>
            \E j \in DOMAIN msgs : j > i /\ Resends(msgs[j])
    BY <2>1, <2>2
  <2> QED
    BY <1>1, <2>3 DEF OrderInv
<1> QED
  BY <1>1, <1>2 DEF ConfInv, SettingsInv, RequestInv

(* A message is taken.                                                     *)
LEMMA TakeKeepsOrder ==
    ASSUME OrderInv, msgs \in Seq(Msg), msgs # <<>>, msgs' = Tail(msgs), cb' = cb
    PROVE  OrderInv'
<1>1. /\ Len(msgs) \in Nat \ {0} /\ DOMAIN msgs = 1 .. Len(msgs)
      /\ DOMAIN msgs' = 1 .. Len(msgs) - 1
      /\ \A i \in 1 .. Len(msgs) - 1 : msgs'[i] = msgs[i + 1]
  BY TailIs
<1>2. ASSUME cb' = <<>>, NEW i \in DOMAIN msgs', msgs'[i].type \in {"open", "ssr"}
      PROVE  \E j \in DOMAIN msgs' : j > i /\ Resends(msgs'[j])
  <2>1. i + 1 \in DOMAIN msgs /\ msgs[i + 1].type \in {"open", "ssr"}
    BY <1>1, <1>2
  <2>2. PICK j \in DOMAIN msgs : j > i + 1 /\ Resends(msgs[j])
    BY <1>2, <2>1 DEF OrderInv
  <2>3. j - 1 \in DOMAIN msgs' /\ j - 1 > i /\ msgs'[j - 1] = msgs[j]
    BY <1>1, <2>2, <1>2
  <2> QED
    BY <2>2, <2>3
<1> QED
  BY <1>2 DEF OrderInv, Resends

(* What was queued and is not taken stays queued.                          *)
LEMMA TakeKeepsQueued ==
    ASSUME msgs \in Seq(Msg), msgs # <<>>, msgs' = Tail(msgs), NEW s, Queued(s),
           ~Resends(msgs[1]), ~(msgs[1].type = "call" /\ msgs[1].req = s)
    PROVE  Queued(s)'
<1>1. /\ Len(msgs) \in Nat \ {0} /\ DOMAIN msgs = 1 .. Len(msgs)
      /\ DOMAIN msgs' = 1 .. Len(msgs) - 1
      /\ \A i \in 1 .. Len(msgs) - 1 : msgs'[i] = msgs[i + 1]
  BY TailIs
<1>2. PICK i \in DOMAIN msgs : Resends(msgs[i]) \/ (msgs[i].type = "call" /\ msgs[i].req = s)
  BY DEF Queued
<1>3. i # 1
  BY <1>2
<1>4. i - 1 \in DOMAIN msgs' /\ msgs'[i - 1] = msgs[i]
  BY <1>1, <1>2, <1>3
<1>5. Resends(msgs'[i - 1]) \/ (msgs'[i - 1].type = "call" /\ msgs'[i - 1].req = s)
  BY <1>2, <1>4
<1> QED
  BY <1>4, <1>5 DEF Queued, Resends

(* What is posted comes last.                                              *)
LEMMA PostKeeps ==
    ASSUME msgs \in Seq(Msg), NEW m \in Msg, msgs' = Append(msgs, m)
    PROVE  /\ Len(msgs) \in Nat /\ DOMAIN msgs = 1 .. Len(msgs)
           /\ DOMAIN msgs' = 1 .. Len(msgs) + 1
           /\ \A i \in 1 .. Len(msgs) : msgs'[i] = msgs[i]
           /\ msgs'[Len(msgs) + 1] = m
           /\ \A s : Queued(s) => Queued(s)'
<1>1. /\ Len(msgs) \in Nat /\ DOMAIN msgs = 1 .. Len(msgs)
      /\ DOMAIN msgs' = 1 .. Len(msgs) + 1
      /\ \A i \in 1 .. Len(msgs) : msgs'[i] = msgs[i]
      /\ msgs'[Len(msgs) + 1] = m
  <2>1. Len(msgs) \in Nat /\ DOMAIN msgs = 1 .. Len(msgs)
    BY LenProperties
  <2>2. /\ msgs' \in Seq(Msg) /\ Len(msgs') = Len(msgs) + 1
        /\ \A i \in 1 .. Len(msgs) : msgs'[i] = msgs[i]
        /\ msgs'[Len(msgs) + 1] = m
    BY AppendProperties
  <2>3. DOMAIN msgs' = 1 .. Len(msgs')
    BY <2>2, LenProperties
  <2> QED
    BY <2>1, <2>2, <2>3
<1>2. ASSUME NEW s, Queued(s) PROVE Queued(s)'
  <2>1. PICK i \in 1 .. Len(msgs) : Resends(msgs[i]) \/ (msgs[i].type = "call" /\ msgs[i].req = s)
    BY <1>1, <1>2 DEF Queued
  <2>2. i \in DOMAIN msgs' /\ msgs'[i] = msgs[i]
    BY <1>1
  <2> QED
    BY <2>1, <2>2 DEF Queued, Resends
<1> QED
  BY <1>1, <1>2

LEMMA QueueStepKeepsConf ==
    ASSUME ModemTyped, ConfInv, LocEngInit \/ LocEngUp \/ Open \/ Post
    PROVE  ConfInv'
<1>0. msgs \in Seq(Msg)
  BY DEF ModemTyped, TypeOK
<1>1. CASE LocEngInit \/ LocEngUp
  <2>1. /\ UNCHANGED <<task, linked, up, conf, asked, lost, cb, failed>>
        /\ msgs # <<>> /\ msgs' = Tail(msgs) \o SettingMsgs
    BY <1>1 DEF LocEngInit, LocEngUp, Takes, modem, error
  <2> DEFINE q == Tail(msgs)
  <2>2. /\ q \in Seq(Msg) /\ Len(msgs) \in Nat \ {0} /\ Len(q) = Len(msgs) - 1
        /\ DOMAIN msgs = 1 .. Len(msgs)
        /\ \A i \in 1 .. Len(msgs) - 1 : q[i] = msgs[i + 1]
    BY <1>0, <2>1, TailIs
  <2>3. /\ msgs' \in Seq(Msg) /\ Len(msgs') = Len(q) + Len(SettingMsgs)
        /\ \A i \in 1 .. Len(q) : msgs'[i] = q[i]
        /\ \A i \in 1 .. Len(msgs') : i \notin 1 .. Len(q) => msgs'[i].type = "call"
        /\ \A s \in Settings : \E i \in 1 .. Len(msgs') :
              msgs'[i].type = "call" /\ msgs'[i].req = s
    BY <2>1, <2>2, SettingsBehind
  <2>4. DOMAIN msgs' = 1 .. Len(msgs') /\ Len(SettingMsgs) \in Nat
    BY <2>3, SettingMsgsAre, LenProperties
  <2> HIDE DEF q
  <2>5. OrderInv'
    <3>1. ASSUME cb' = <<>>, NEW i \in DOMAIN msgs', msgs'[i].type \in {"open", "ssr"}
          PROVE  \E j \in DOMAIN msgs' : j > i /\ Resends(msgs'[j])
      <4>1. i \in 1 .. Len(q)
        BY <2>3, <2>4, <3>1
      <4>2. i + 1 \in DOMAIN msgs /\ msgs[i + 1].type \in {"open", "ssr"}
        BY <2>2, <2>3, <3>1, <4>1
      <4>3. PICK j \in DOMAIN msgs : j > i + 1 /\ Resends(msgs[j])
        BY <2>1, <3>1, <4>2 DEF ConfInv, OrderInv
      <4>4. j - 1 \in 1 .. Len(q) /\ j - 1 > i /\ j - 1 \in DOMAIN msgs'
        BY <2>2, <2>3, <2>4, <4>1, <4>3
      <4>5. msgs'[j - 1] = msgs[j]
        BY <2>2, <2>3, <4>4, <4>3
      <4> QED
        BY <4>3, <4>4, <4>5
    <3> QED
      BY <2>1, <3>1 DEF ConfInv, OrderInv, Resends
  <2>6. \A s \in Settings : Queued(s)'
    BY <2>3, <2>4 DEF Queued
  <2> QED
    BY <2>1, <2>5, <2>6 DEF ConfInv, SettingsInv, RequestInv, Doing, CallFailed
<1>2. CASE Open
  <2>1. /\ UNCHANGED <<task, up, conf, lost, cb>>
        /\ msgs # <<>> /\ msgs' = Tail(msgs) /\ asked' = <<>>
        /\ Head(msgs).type \in {"open", "ssr"}
    BY <1>2 DEF Open, Takes, error
  <2>2. OrderInv'
    BY <1>0, <2>1, TakeKeepsOrder DEF ConfInv
  <2>3. /\ Len(msgs) \in Nat \ {0} /\ DOMAIN msgs = 1 .. Len(msgs) /\ Head(msgs) = msgs[1]
        /\ DOMAIN msgs' = 1 .. Len(msgs) - 1
        /\ \A i \in 1 .. Len(msgs) - 1 : msgs'[i] = msgs[i + 1]
    BY <1>0, <2>1, TailIs
  <2>4. ASSUME cb = <<>>, NEW s PROVE Queued(s)'
    <3>1. 1 \in DOMAIN msgs /\ msgs[1].type \in {"open", "ssr"}
      BY <2>1, <2>3
    <3>2. PICK j \in DOMAIN msgs : j > 1 /\ Resends(msgs[j])
      BY <2>4, <3>1 DEF ConfInv, OrderInv
    <3>3. j - 1 \in DOMAIN msgs' /\ msgs'[j - 1] = msgs[j]
      BY <2>3, <3>2
    <3> QED
      BY <3>2, <3>3 DEF Queued, Resends
  <2>5. SettingsInv'
    BY <2>1, <2>4 DEF SettingsInv
  <2>6. RequestInv'
    BY <2>1 DEF RequestInv
  <2> QED
    BY <2>2, <2>5, <2>6 DEF ConfInv
<1>3. CASE Post
  <2>1. UNCHANGED <<task, linked, up, conf, asked, lost, cb, failed>>
    BY <1>3 DEF Post, modem, error
  <2>2. PICK m \in Msg : msgs' = Append(msgs, m) /\ m.type \in {"call", "xtra"}
    BY <1>3, MsgKinds DEF Post, CallMsg, XtraMsg
  <2>3. /\ Len(msgs) \in Nat /\ DOMAIN msgs = 1 .. Len(msgs)
        /\ DOMAIN msgs' = 1 .. Len(msgs) + 1
        /\ \A i \in 1 .. Len(msgs) : msgs'[i] = msgs[i]
        /\ msgs'[Len(msgs) + 1] = m
        /\ \A s : Queued(s) => Queued(s)'
    BY <1>0, <2>2, PostKeeps
  <2>4. ASSUME cb' = <<>>, NEW i \in DOMAIN msgs', msgs'[i].type \in {"open", "ssr"}
        PROVE  \E j \in DOMAIN msgs' : j > i /\ Resends(msgs'[j])
    <3>1. i \in 1 .. Len(msgs) /\ msgs[i].type \in {"open", "ssr"}
      BY <2>2, <2>3, <2>4
    <3>2. PICK j \in DOMAIN msgs : j > i /\ Resends(msgs[j])
      BY <2>1, <2>3, <2>4, <3>1 DEF ConfInv, OrderInv
    <3> QED
      BY <2>3, <3>2
  <2>5. OrderInv'
    BY <2>1, <2>4 DEF ConfInv, OrderInv, Resends
  <2>6. SettingsInv'
    BY <2>1, <2>3 DEF ConfInv, SettingsInv, Doing, CallFailed
  <2> QED
    BY <2>1, <2>5, <2>6 DEF ConfInv, RequestInv, Doing, CallFailed
<1> QED
  BY <1>1, <1>2, <1>3

LEMMA LossKeepsConf ==
    ASSUME ModemTyped, ConfInv, Crash \/ Recover \/ ErrorCb \/ PostCb
    PROVE  ConfInv'
<1>0. msgs \in Seq(Msg)
  BY DEF ModemTyped, TypeOK
<1>1. CASE Crash
  <2>1. UNCHANGED <<msgs, cb>> /\ ~linked'
    BY <1>1 DEF Crash
  <2> QED
    BY <2>1 DEF ConfInv, OrderInv, SettingsInv, RequestInv, Resends
<1>2. CASE Recover
  <2>1. UNCHANGED <<msgs, task, linked, conf, asked, lost, cb, failed>>
    BY <1>2 DEF Recover, error
  <2> QED
    BY <2>1 DEF ConfInv, OrderInv, SettingsInv, RequestInv, Resends, Queued, Doing, CallFailed
<1>3. CASE ErrorCb
  <2>1. /\ UNCHANGED <<msgs, task, linked, up, conf, asked, failed>>
        /\ cb' = <<Control("ssr"), Control("up")>>
    BY <1>3 DEF ErrorCb, modem
  <2>2. cb' # <<>>
    BY <2>1
  <2>3. OrderInv' /\ SettingsInv'
    BY <2>1, <2>2 DEF OrderInv, SettingsInv
  <2> QED
    BY <2>1, <2>3 DEF ConfInv, RequestInv, Doing, CallFailed
<1>4. CASE PostCb
  <2>1. /\ UNCHANGED <<task, linked, up, conf, asked, lost, failed>>
        /\ cb # <<>> /\ msgs' = Append(msgs, Head(cb)) /\ cb' = Tail(cb)
    BY <1>4 DEF PostCb, modem
  <2>2. \/ cb = <<Control("ssr"), Control("up")>>
        \/ cb = <<Control("up")>>
    BY <2>1 DEF ConfInv, OrderInv
  <2>3. CASE cb = <<Control("ssr"), Control("up")>>
    <3>1. cb' = <<Control("up")>> /\ cb' # <<>>
      BY <2>1, <2>3
    <3> QED
      BY <2>1, <3>1 DEF ConfInv, OrderInv, SettingsInv, RequestInv, Doing, CallFailed
  <2>4. CASE cb = <<Control("up")>>
    <3>1. cb' = <<>> /\ msgs' = Append(msgs, Control("up"))
      BY <2>1, <2>4
    <3>2. Control("up") \in Msg /\ Resends(Control("up")) /\ Control("up").type = "up"
      BY MsgKinds DEF Resends
    <3> DEFINE m == Control("up")
    <3>3. /\ Len(msgs) \in Nat /\ DOMAIN msgs' = 1 .. Len(msgs) + 1
          /\ msgs'[Len(msgs) + 1] = m
      BY <1>0, <3>1, <3>2, PostKeeps
    <3> HIDE DEF m
    <3>4. Len(msgs) + 1 \in DOMAIN msgs' /\ Resends(msgs'[Len(msgs) + 1])
      BY <3>2, <3>3 DEF m
    <3>5. \A s : Queued(s)'
      BY <3>4 DEF Queued, Resends
    <3>6. ASSUME NEW i \in DOMAIN msgs', msgs'[i].type \in {"open", "ssr"}
          PROVE  \E j \in DOMAIN msgs' : j > i /\ Resends(msgs'[j])
      <4>1. i # Len(msgs) + 1
        BY <3>2, <3>3, <3>6 DEF m
      <4>2. Len(msgs) + 1 > i
        BY <3>3, <4>1
      <4> QED
        BY <3>4, <4>2
    <3>7. OrderInv'
      BY <3>1, <3>6 DEF OrderInv, Resends
    <3> QED
      BY <2>1, <3>5, <3>7 DEF ConfInv, SettingsInv, RequestInv, Doing, CallFailed
  <2> QED
    BY <2>2, <2>3, <2>4
<1> QED
  BY <1>1, <1>2, <1>3, <1>4

LEMMA CallKeepsConf ==
    ASSUME ModemTyped, ConfInv, Begin \/ Send \/ SendFails \/ TimedOut \/ WokenOddly \/ Return
    PROVE  ConfInv'
<1>0. msgs \in Seq(Msg) /\ DOMAIN asked = 1 .. Len(asked) /\ Len(asked) \in Nat
  BY LenProperties DEF ModemTyped, TypeOK
<1>1. CASE Begin
  <2> DEFINE m == msgs[1]
  <2>1. /\ m \in TaskMsgs /\ task.pc = "idle" /\ task'.msg = m
        /\ \/ task'.pc = "sending"
           \/ task'.pc = "returned" /\ m.type = "call" /\ m.req \in Checking
        /\ msgs # <<>> /\ msgs' = Tail(msgs)
    BY <1>1, BeginIs
  <2>2. m.type \in {"call", "xtra"}
    BY <2>1, MsgKinds
  <2>3. UNCHANGED <<linked, up, conf, asked, lost, cb, failed>>
    BY <1>1 DEF Begin, modem, error
  <2> HIDE DEF m
  <2>4. OrderInv'
    BY <1>0, <2>1, <2>3, TakeKeepsOrder DEF ConfInv
  <2>5. ASSUME NEW s \in Settings, Queued(s) PROVE Queued(s)' \/ Doing(s)'
    <3>1. CASE m.type = "call" /\ m.req = s
      <4>1. task'.pc = "sending"
        BY <2>1, <3>1, SettingsApart
      <4> QED
        BY <2>1, <3>1, <4>1 DEF Doing
    <3>2. CASE ~(m.type = "call" /\ m.req = s)
      <4>1. ~Resends(m)
        BY <2>2 DEF Resends
      <4> QED
        BY <1>0, <2>1, <2>5, <3>2, <4>1, TakeKeepsQueued DEF m
    <3> QED
      BY <3>1, <3>2
  <2>6. SettingsInv'
    BY <2>1, <2>3, <2>5 DEF ConfInv, SettingsInv, Doing
  <2>7. RequestInv'
    BY <2>1, <2>3 DEF ConfInv, RequestInv
  <2> QED
    BY <2>4, <2>6, <2>7 DEF ConfInv
<1>2. ASSUME task.pc = "sending", UNCHANGED <<msgs, cb, linked, failed, conf, lost>>,
             asked' = asked \/ asked' = Sent,
             task'.msg = task.msg, task'.pc \in {"waiting", "returned"},
             task'.pc = "returned" => task'.result = "failure"
      PROVE  ConfInv'
  <2>1. OrderInv'
    BY <1>2 DEF ConfInv, OrderInv, Resends
  <2>2. \A s : Doing(s) => Doing(s)'
    BY <1>2 DEF Doing, CallFailed
  <2>3. SettingsInv'
    BY <1>2, <2>2 DEF ConfInv, SettingsInv, Queued, Resends
  <2>4. ASSUME linked, ~failed, NEW i \in DOMAIN asked', asked'[i].req \in Settings
        PROVE  asked' = Sent /\ i = Len(asked) + 1
    <3>1. \A k \in DOMAIN asked : asked[k].req \notin Settings
      BY <1>2, <2>4 DEF ConfInv, RequestInv
    <3>2. asked' # asked
      BY <2>4, <3>1
    <3>3. asked' = Sent
      BY <1>2, <3>2
    <3>4. /\ Sent \in Seq(Asked) /\ Len(Sent) = Len(asked) + 1
          /\ \A k \in 1 .. Len(asked) : Sent[k] = asked[k]
      BY <1>2, SentIs
    <3>5. DOMAIN Sent = 1 .. Len(asked) + 1
      BY <3>4, LenProperties
    <3> QED
      BY <1>0, <2>4, <3>1, <3>3, <3>4, <3>5
  <2>5. ASSUME linked, ~failed, NEW i \in DOMAIN asked', asked'[i].req \in Settings
        PROVE  /\ task'.pc \in {"waiting", "returned"} /\ Doing(asked[i].req)'
               /\ \A j \in DOMAIN asked' : asked'[j].req \in Settings => j = i
    <3>1. asked' = Sent /\ i = Len(asked) + 1
      BY <2>4, <2>5
    <3>2. asked'[i].req = Req
      BY <1>2, <3>1, SentIs
    <3>3. task.msg.type = "call" /\ task.msg.req = Req
      BY <1>2, <2>5, <3>2, ReqTyped, SettingsApart
    <3>4. Doing(asked[i].req)'
      BY <1>2, <3>2, <3>3 DEF Doing, CallFailed
    <3> QED
      BY <1>2, <2>4, <2>5, <3>1, <3>4
  <2>6. RequestInv'
    BY <1>2, <2>5 DEF RequestInv
  <2> QED
    BY <2>1, <2>3, <2>6 DEF ConfInv
<1>3. CASE Send
  <2>1. /\ task.pc = "sending" /\ task'.pc = "waiting" /\ task'.msg = task.msg
        /\ UNCHANGED <<msgs, cb, linked, failed, conf, lost>> /\ asked' = Sent
    BY <1>3, SendIs DEF Send, error
  <2> QED
    BY <1>2, <2>1
<1>4. CASE SendFails
  <2>1. /\ task.pc = "sending" /\ UNCHANGED <<msgs, cb, linked, failed, conf, lost>>
        /\ asked' = asked \/ asked' = Sent
        /\ task' = Returns("failure")
    BY <1>4 DEF SendFails, error
  <2>2. task'.msg = task.msg /\ task'.pc = "returned" /\ task'.result = "failure"
    BY <2>1, ReturnsIs
  <2> QED
    BY <1>2, <2>1, <2>2
<1>5. ASSUME task.pc = "waiting", UNCHANGED <<msgs, cb, linked, failed, conf, lost, asked>>,
             task'.msg = task.msg,
             \/ task'.pc = "returned" /\ (task'.result = "failure" \/ task'.astray)
             \/ task'.pc = "sending" /\ task.msg.type # "call"
      PROVE  ConfInv'
  <2>1. OrderInv'
    BY <1>5 DEF ConfInv, OrderInv, Resends
  <2>2. \A s : Doing(s) => Doing(s)' /\ task'.pc = "returned"
    BY <1>5 DEF Doing, CallFailed
  <2>3. SettingsInv'
    BY <1>5, <2>2 DEF ConfInv, SettingsInv, Queued, Resends
  <2>4. RequestInv'
    BY <1>5, <2>2 DEF ConfInv, RequestInv
  <2> QED
    BY <2>1, <2>3, <2>4 DEF ConfInv
<1>6. CASE TimedOut
  <2>1. /\ task.pc = "waiting" /\ UNCHANGED <<msgs, cb, linked, failed, conf, lost, asked>>
        /\ task' = Returns("failure")
    BY <1>6 DEF TimedOut, modem, error
  <2>2. task'.msg = task.msg /\ task'.pc = "returned" /\ task'.result = "failure"
    BY <2>1, ReturnsIs
  <2> QED
    BY <1>5, <2>1, <2>2
<1>7. CASE WokenOddly
  <2>1. UNCHANGED <<msgs, cb, linked, failed, conf, lost, asked>>
    BY <1>7 DEF WokenOddly, modem, error
  <2>2. /\ task.pc = "waiting" /\ task'.msg = task.msg
        /\ \/ task'.pc = "returned" /\ task'.result = "failure"
           \/ task'.pc \in {"sending", "returned"} /\ task'.astray
        /\ task.msg.type = "call" => task'.pc = "returned"
    BY <1>7, WokenIs
  <2> QED
    BY <1>5, <2>1, <2>2
<1>8. CASE Return
  <2>1. /\ task.pc = "returned" /\ UNCHANGED <<msgs, cb, linked, conf, lost>>
        /\ asked' = Disowned
        /\ failed' = (failed \/ (~IsXtra(task.msg) /\ Req \in Settings
                                   /\ (task.result = "failure" \/ task.astray)))
    BY <1>8 DEF Return, Disowned, error
  <2>2. OrderInv'
    BY <2>1 DEF ConfInv, OrderInv, Resends
  <2>3. ASSUME ~failed', NEW s \in Settings PROVE ~Doing(s)
    <3>1. SUFFICES ASSUME Doing(s) PROVE FALSE
      OBVIOUS
    <3>2. ~IsXtra(task.msg) /\ Req = s
      BY <2>1, <3>1, ReqTyped DEF Doing
    <3>3. task.result = "failure" \/ task.astray
      BY <2>1, <3>1 DEF Doing, CallFailed
    <3> QED
      BY <2>1, <2>3, <3>2, <3>3
  <2>4. ~failed' => ~failed
    BY <2>1
  <2>5. SettingsInv'
    BY <2>1, <2>3, <2>4 DEF ConfInv, SettingsInv, Queued, Resends
  <2>6. ASSUME linked, ~failed', NEW i \in DOMAIN asked', asked'[i].req \in Settings
        PROVE  FALSE
    <3>1. i \in DOMAIN asked /\ asked'[i].req = asked[i].req
      BY <1>0, <2>1, <2>6, DisownedIs DEF ModemTyped
    <3>2. Doing(asked[i].req)
      BY <2>4, <2>6, <3>1 DEF ConfInv, RequestInv
    <3> QED
      BY <2>3, <2>6, <3>1, <3>2
  <2>7. RequestInv'
    BY <2>1, <2>6 DEF RequestInv
  <2> QED
    BY <2>2, <2>5, <2>7 DEF ConfInv
<1> QED
  BY <1>1, <1>3, <1>4, <1>6, <1>7, <1>8

LEMMA AnswerKeepsConf ==
    ASSUME ModemTyped, ConfInv, Answer
    PROVE  ConfInv'
<1> DEFINE a == asked[1]
<1>1. /\ a \in Asked /\ asked # <<>> /\ asked' = Tail(asked)
      /\ \/ /\ Here(a) /\ conf' = conf \cup {a.req}
            /\ task' = Granted(Told(a)) \/ task' = Denied(Told(a))
         \/ Here(a) /\ conf' = conf /\ task' = Denied(task)
         \/ ~Here(a) /\ conf' = conf \cup {a.req} /\ task' = Told(a)
         \/ /\ ~Here(a) /\ conf' = conf
            /\ task' = IF Mine(a) THEN [task EXCEPT !.astray = TRUE] ELSE task
      /\ UNCHANGED <<msgs, linked, lost, cb, failed>>
  BY AnswerIs
<1>2. /\ Len(asked) \in Nat \ {0} /\ DOMAIN asked = 1 .. Len(asked)
      /\ DOMAIN asked' = 1 .. Len(asked) - 1
      /\ \A i \in 1 .. Len(asked) - 1 : asked'[i] = asked[i + 1]
  BY <1>1, TailIs DEF ModemTyped, TypeOK
<1>3. a.req \in Calls \cup Settings \cup {XtraPart} /\ 1 \in DOMAIN asked
  BY <1>1, <1>2 DEF Asked
<1>4. OrderInv'
  BY <1>1 DEF ConfInv, OrderInv, Resends
<1>5. a = asked[1]
  OBVIOUS
<1> HIDE DEF a
(* A setting that the call was about to send or waits for.                 *)
<1>6. ASSUME ~Here(a), NEW s, Doing(s)
      PROVE  Doing(s)' /\ task'.pc = task.pc
  <2>1. task.pc # "idle"
    BY <1>6 DEF Doing
  <2>2. /\ Told(a).pc = task.pc /\ Told(a).msg = task.msg
        /\ Told(a).result = task.result /\ Told(a).astray = task.astray
    BY <1>1, <2>1, ToldIs
  <2> DEFINE t == [task EXCEPT !.astray = TRUE]
  <2>3. t.pc = task.pc /\ t.msg = task.msg /\ t.astray
    BY <2>1, AstrayIs
  <2> HIDE DEF t
  <2>4. task' = Told(a) \/ task' = t \/ task' = task
    BY <1>1, <1>6 DEF t
  <2> QED
    BY <1>6, <2>2, <2>3, <2>4 DEF Doing, CallFailed
<1>7. ASSUME Here(a), linked, ~failed, NEW s \in Settings, Doing(s)
      PROVE  s \in conf' \/ Doing(s)'
  <2>1. task.pc = "waiting" /\ Req = s /\ Req.ind = a.req.ind /\ task \in Busy
    BY <1>7, ReqTyped, TaskKinds DEF Here, Doing, ModemTyped
  <2>2. a.req \in Settings
    BY <1>3, <2>1, SettingsApart
  <2>3. a.req = s
    BY <1>3, <1>5, <1>7, <2>2 DEF ConfInv, RequestInv, Doing
  <2>4. CASE conf' = conf \cup {a.req}
    BY <2>3, <2>4
  <2>5. CASE task' = Denied(task)
    <3>1. task'.pc = "returned" /\ task'.result = "failure" /\ task'.msg = task.msg
      BY <2>1, <2>5, DeniedIs
    <3> QED
      BY <1>7, <3>1 DEF Doing, CallFailed
  <2> QED
    BY <1>1, <1>7, <2>4, <2>5
<1>8. SettingsInv'
  BY <1>1, <1>6, <1>7 DEF ConfInv, SettingsInv, Queued, Resends
<1>9. ASSUME linked, ~failed, NEW i \in DOMAIN asked', asked'[i].req \in Settings
      PROVE  /\ task'.pc \in {"waiting", "returned"} /\ Doing(asked[i].req)'
             /\ \A j \in DOMAIN asked' : asked'[j].req \in Settings => j = i
  <2>1. i + 1 \in DOMAIN asked /\ asked'[i] = asked[i + 1] /\ i + 1 # 1
    BY <1>2, <1>9
  <2>2. /\ task.pc \in {"waiting", "returned"} /\ Doing(asked[i + 1].req)
        /\ \A j \in DOMAIN asked : asked[j].req \in Settings => j = i + 1
    BY <1>9, <2>1 DEF ConfInv, RequestInv
  <2>3. a.req \notin Settings
    BY <1>3, <1>5, <2>1, <2>2
  <2>4. ~Here(a)
    <3>1. Req = asked[i + 1].req
      BY <2>2, ReqTyped DEF Doing
    <3> QED
      BY <1>3, <1>9, <2>1, <2>3, <3>1, SettingsApart DEF Here
  <2>5. Doing(asked[i].req)' /\ task'.pc = task.pc
    <3>0. PICK s : s = asked[i + 1].req
      OBVIOUS
    <3>1. Doing(s)' /\ task'.pc = task.pc
      BY <1>6, <2>2, <2>4, <3>0
    <3>2. asked'[i].req = s
      BY <2>1, <3>0
    <3> QED
      BY <3>1, <3>2 DEF Doing, CallFailed
  <2>6. ASSUME NEW j \in DOMAIN asked', asked'[j].req \in Settings PROVE j = i
    <3>1. j + 1 \in DOMAIN asked /\ asked'[j] = asked[j + 1]
      BY <1>2, <2>6
    <3>2. j + 1 = i + 1
      BY <2>2, <2>6, <3>1
    <3> QED
      BY <1>2, <3>2
  <2> QED
    BY <2>2, <2>5, <2>6
<1>10. RequestInv'
  BY <1>1, <1>9 DEF RequestInv
<1> QED
  BY <1>4, <1>8, <1>10 DEF ConfInv

LEMMA ConfKept == ModemTyped /\ ConfInv /\ [Next]_vars => ConfInv'
<1> SUFFICES ASSUME ModemTyped, ConfInv, [Next]_vars PROVE ConfInv'
  OBVIOUS
<1>1. CASE UNCHANGED vars
  BY <1>1 DEF vars, modem, error, ConfInv, OrderInv, SettingsInv, RequestInv, Resends, Queued,
              Doing, CallFailed
<1>2. CASE Next
  BY <1>2, AnswerKeepsConf, CallKeepsConf, QueueStepKeepsConf, LossKeepsConf DEF Next, MsgTask
<1> QED BY <1>1, <1>2

(* A modem that runs when nothing is left to do has every setting, unless  *)
(* a request of one failed since the client was opened: wherever in        *)
(* loc_eng_reinit and however often the modem restarted, and whatever      *)
(* other calls and files the queue held (loc_eng.cpp:1555-1607).           *)
THEOREM ConfigAlwaysRestored == Spec => []ConfigRestored
<1>1. ConfInv => ConfigRestored
  BY DEF ConfInv, SettingsInv, ConfigRestored, Settled, Queued, Doing, Idle
<1>2. Spec => [](ModemTyped /\ ConfInv)
  BY ModemTypedInit, ModemTypedKept, ConfInit, ConfKept, PTL DEF Spec
<1> QED
  BY <1>1, <1>2, PTL

-----------------------------------------------------------------------------
(* The parts the modem took.                                               *)

LEMMA ReqIs ==
    ASSUME ModemTyped, task.pc # "idle"
    PROVE  Req = ReqOf(task.msg)
BY DEF Req, ReqOf

(* A request older than the call is answered.                              *)
LEMMA OlderGoes ==
    ASSUME NEW q \in Seq(Asked), q # <<>>, NEW t, NEW o \in 1 .. Len(q)
    PROVE  /\ Cardinality(Older(q, t, o)) \in Nat
           /\ Cardinality(Older(Tail(q), t, o - 1)) \in Nat
           /\ Cardinality(Older(Tail(q), t, o - 1)) <= Cardinality(Older(q, t, o))
           /\ q[1].req.ind = ReqOf(t.msg).ind =>
                Cardinality(Older(Tail(q), t, o - 1)) + 1 <= Cardinality(Older(q, t, o))
<1> DEFINE d == ReqOf(t.msg).ind
           S == Older(q, t, o)
           T == Older(Tail(q), t, o - 1)
<1>1. /\ Len(q) \in Nat \ {0} /\ o \in Nat
      /\ \A i \in 1 .. Len(q) - 1 : Tail(q)[i] = q[i + 1]
  BY TailIs
<1>2. S = {i \in 1 .. o : q[i].req.ind = d} /\ T = {i \in 1 .. o - 1 : Tail(q)[i].req.ind = d}
  BY DEF Older
<1> HIDE DEF d, S, T
<1>3. IsFiniteSet(S) /\ IsFiniteSet(T)
  <2>1. IsFiniteSet(1 .. o) /\ IsFiniteSet(1 .. o - 1)
    BY <1>1, FS_Interval
  <2>2. S \in SUBSET (1 .. o) /\ T \in SUBSET (1 .. o - 1)
    BY <1>2
  <2> QED
    BY <2>1, <2>2, FS_Subset
<1>4. Cardinality(S) \in Nat /\ Cardinality(T) \in Nat
  BY <1>3, FS_CardinalityType
<1> DEFINE f == [i \in T |-> i + 1]
<1>5. f \in Injection(T, S \ {1})
  <2>1. ASSUME NEW i \in T PROVE i + 1 \in S \ {1} /\ i \in Nat
    <3>1. i \in 1 .. o - 1 /\ Tail(q)[i].req.ind = d
      BY <1>2
    <3>2. i \in 1 .. Len(q) - 1 /\ i + 1 \in 1 .. o /\ i + 1 # 1
      BY <1>1, <3>1
    <3> QED
      BY <1>1, <1>2, <3>1, <3>2
  <2>2. f \in [T -> S \ {1}]
    BY <2>1
  <2>3. \A i, j \in T : f[i] = f[j] => i = j
    BY <2>1
  <2> QED
    BY <2>2, <2>3 DEF Injection, IsInjective
<1>6. IsFiniteSet(S \ {1}) /\ Cardinality(S \ {1}) = IF 1 \in S THEN Cardinality(S) - 1 ELSE Cardinality(S)
  BY <1>3, FS_RemoveElement
<1> HIDE DEF f
<1>7. Cardinality(T) <= Cardinality(S \ {1})
  BY <1>5, <1>6, FS_Injection
<1>8. q[1].req.ind = d => 1 \in S
  BY <1>1, <1>2
<1> QED
  BY <1>4, <1>6, <1>7, <1>8 DEF S, T, d

(* No part has been taken before the first.                                *)
LEMMA NoParts == \A m : PartsUpTo(m, 0) = {}
BY DEF PartsUpTo

LEMMA MoreParts ==
    ASSUME NEW m, NEW k \in Nat
    PROVE  PartsUpTo(m, k + 1) = PartsUpTo(m, k) \cup {PartOf(m, k + 1)}
<1>1. 1 .. k + 1 = (1 .. k) \cup {k + 1}
  OBVIOUS
<1> QED
  BY <1>1 DEF PartsUpTo

(* The part a call is about to send is the right one.                      *)
LEMMA ThisPart ==
    ASSUME ModemTyped, task.pc # "idle", Small(task),
           IsXtra(task.msg) => task.injected = (task.part - 1) * PartLen
    PROVE  /\ ThisChunk = PartOf(task.msg, task.part)
           /\ IsXtra(task.msg) /\ task.part < Parts(task.msg) =>
                (task.injected + ThisChunk.len) % LenMod = (task.part + 1 - 1) * PartLen
<1>1. task \in Busy /\ TaskFits(task)
  BY TaskKinds DEF ModemTyped
<1>2. CASE IsXtra(task.msg)
  <2> DEFINE n == task.msg.size
             p == task.part
  <2>1. n \in Sizes /\ n \in Nat /\ task.msg = XtraMsg(n) /\ Parts(task.msg) = TotalParts(n)
    BY <1>1, <1>2, MsgKinds DEF TaskFits, IsXtra
  <2>2. n <= LenMod
    BY <1>2 DEF Small
  <2>3. p \in 1 .. TotalParts(n)
    BY <1>1, <2>1, PartsCover DEF TaskFits, Busy
  <2>4. ThisChunk = Chunk(n, p, (p - 1) * PartLen) /\ task.injected = (p - 1) * PartLen
    BY <1>2 DEF ThisChunk
  <2> HIDE DEF n, p
  <2>5. /\ Chunk(n, p, (p - 1) * PartLen) = PartOf(XtraMsg(n), p)
        /\ p < TotalParts(n) =>
             ((p - 1) * PartLen + Chunk(n, p, (p - 1) * PartLen).len) % LenMod
               = (p + 1 - 1) * PartLen
    BY <2>1, <2>2, <2>3, ChunkIsPart
  <2> QED
    BY <1>2, <2>1, <2>4, <2>5 DEF p
<1>3. CASE ~IsXtra(task.msg)
  BY <1>3 DEF ThisChunk, PartOf
<1> QED
  BY <1>2, <1>3

(* No call is under way at first.                                          *)
LEMMA CallInit == Init => CallInv
BY DEF Init, CallInv, UnderwayInv, DoneInv, Idle

LEMMA BeginKeepsCall ==
    ASSUME ModemTyped, CallInv, Begin
    PROVE  CallInv'
<1> DEFINE m == msgs[1]
<1>1. /\ m \in TaskMsgs /\ task.pc = "idle" /\ task' \in Busy /\ TaskFits(task')
      /\ task'.msg = m /\ task'.part = 1 /\ task'.injected = 0 /\ ~task'.astray
      /\ task'.took = {} /\ task'.late = Late(IF IsXtra(m) THEN XtraPart.ind ELSE m.req.ind)
      /\ \/ task'.pc = "sending"
         \/ task'.pc = "returned" /\ task'.result = "failure"
  BY BeginIs
<1> HIDE DEF m
<1>2. asked' = asked /\ linked' = linked
  BY DEF Begin, modem
<1>3. /\ \A i \in DOMAIN asked : ~asked[i].own
      /\ DOMAIN asked = 1 .. Len(asked) /\ Len(asked) \in Nat
  BY <1>1, LenProperties DEF CallInv, ModemTyped, TypeOK
<1>4. task'.late = Cardinality(Older(asked, task', Len(asked)))
  <2>1. (IF IsXtra(m) THEN XtraPart.ind ELSE m.req.ind) = ReqOf(task'.msg).ind
    BY <1>1 DEF ReqOf
  <2> QED
    BY <1>1, <1>3, <2>1 DEF Late, Older
<1>5. task'.late \in Nat
  BY <1>1 DEF Busy
<1>6. task'.pc = "sending" => InOrder(asked, task')
  <2> SUFFICES ASSUME task'.pc = "sending" PROVE InOrder(asked, task')
    OBVIOUS
  <2>1. SentParts(task') = 0
    BY <1>1 DEF SentParts
  <2>2. (task'.part - 1) * PartLen = 0
    BY <1>1, CallsAssumption
  <2>3. Stands(asked, task', Len(asked), 0)
    BY <1>1, <1>3, <1>4, <1>5, <2>1, NoParts DEF Stands
  <2> QED
    BY <1>1, <1>3, <2>1, <2>2, <2>3 DEF InOrder
<1>7. UnderwayInv'
  BY <1>1, <1>2, <1>6 DEF UnderwayInv
<1>8. DoneInv'
  BY <1>1 DEF DoneInv, AllTaken
<1> QED
  BY <1>1, <1>2, <1>7, <1>8 DEF CallInv

LEMMA SendKeepsCall ==
    ASSUME ModemTyped, CallInv, Send
    PROVE  CallInv'
<1>1. /\ task.pc = "sending" /\ task' \in Busy /\ task'.pc = "waiting"
      /\ task'.msg = task.msg /\ task'.part = task.part /\ task'.injected = task.injected
      /\ task'.took = task.took /\ task'.late = task.late /\ task'.astray = task.astray
      /\ task \in Busy
  BY SendIs, TaskKinds DEF ModemTyped
<1>2. linked /\ linked' = linked /\ asked' = Sent
  BY DEF Send
<1>3. /\ Sent \in Seq(Asked) /\ Len(asked) \in Nat /\ Len(Sent) = Len(asked) + 1
      /\ \A i \in 1 .. Len(asked) : Sent[i] = asked[i]
      /\ Sent[Len(asked) + 1].req = Req
      /\ Sent[Len(asked) + 1].chunk = ThisChunk
      /\ Sent[Len(asked) + 1].own
  BY <1>1, SentIs
<1>4. ASSUME Sound(task) PROVE InOrder(Sent, task')
  <2>1. InOrder(asked, task)
    BY <1>1, <1>2, <1>4 DEF CallInv, UnderwayInv
  <2>2. PICK o \in 0 .. Len(asked), k \in 0 .. SentParts(task) : Stands(asked, task, o, k)
    BY <2>1 DEF InOrder
  <2>3. /\ SentParts(task) = task.part - 1 /\ SentParts(task') = task.part
        /\ task.part \in Nat \ {0}
    BY <1>1 DEF SentParts, Busy
  <2>4. ThisChunk = PartOf(task.msg, task.part) /\ Req = ReqOf(task.msg)
    BY <1>1, <1>4, <2>1, ThisPart, ReqIs DEF Sound, InOrder
  <2>5. Older(Sent, task', o) = Older(asked, task, o)
    BY <1>1, <1>3 DEF Older
  <2> DEFINE n == Len(asked)
  <2>6. o \in 0 .. n /\ n = o + (task.part - 1) - k /\ k \in 0 .. task.part - 1 /\ n \in Nat
    BY <1>3, <2>2, <2>3 DEF Stands
  <2>7. ASSUME NEW i \in o + 1 .. n + 1
        PROVE  /\ Sent[i].own /\ Sent[i].req = ReqOf(task.msg)
               /\ Sent[i].chunk = PartOf(task.msg, k + i - o)
    <3>1. CASE i \in o + 1 .. n
      BY <1>3, <2>2, <2>6, <3>1 DEF Stands
    <3>2. CASE i = n + 1
      <4> DEFINE p == task.part
      <4>1. k + i - o = p
        <5>1. /\ p \in Nat \ {0} /\ o \in 0 .. n /\ k \in 0 .. p - 1 /\ n \in Nat
              /\ n = o + (p - 1) - k /\ i = n + 1
          BY <2>3, <2>6, <3>2
        <5> HIDE DEF n, p
        <5> QED
          BY ONLY <5>1
      <4> QED
        BY <1>3, <2>4, <3>2, <4>1
    <3> QED
      BY <2>6, <3>1, <3>2
  <2>8. \A i \in 1 .. o : ~Sent[i].own
    BY <1>3, <2>2, <2>6 DEF Stands
  <2>9. Stands(Sent, task', o, k)
    <3>1. Len(Sent) = o + SentParts(task') - k /\ Len(Sent) = n + 1
      BY <1>3, <2>3, <2>6
    <3>2. (o > 0 => k = 0) /\ task'.took = PartsUpTo(task'.msg, k)
      BY <1>1, <2>2 DEF Stands
    <3>3. k = 0 => task'.part - 1 + Cardinality(Older(Sent, task', o)) <= task'.late
      BY <1>1, <2>2, <2>5 DEF Stands
    <3> HIDE DEF n
    <3> QED
      BY <1>1, <2>7, <2>8, <3>1, <3>2, <3>3 DEF Stands
  <2>10. o \in 0 .. Len(Sent) /\ k \in 0 .. SentParts(task')
    BY <1>3, <2>3, <2>6
  <2> QED
    BY <1>1, <2>1, <2>9, <2>10 DEF InOrder
<1>5. Sound(task') => Sound(task)
  BY <1>1 DEF Sound, Small
<1>6. UnderwayInv'
  BY <1>2, <1>4, <1>5 DEF UnderwayInv
<1> QED
  BY <1>1, <1>2, <1>6 DEF CallInv, DoneInv

(* An answer to an older request leaves the call as far as it was, or ends *)
(* one of its waits; t is the call after that.                             *)
LEMMA OlderAnswered ==
    ASSUME ModemTyped, task.pc # "idle", asked # <<>>,
           NEW o \in 1 .. Len(asked), Stands(asked, task, o, 0),
           NEW t \in Busy, t.msg = task.msg, t.took = task.took, t.late = task.late,
           SentParts(t) = SentParts(task),
           IsXtra(t.msg) => t.injected = (t.part - 1) * PartLen,
           \/ t.part = task.part
           \/ t.part = task.part + 1 /\ asked[1].req.ind = ReqOf(task.msg).ind
    PROVE  InOrder(Tail(asked), t)
<1> DEFINE q == Tail(asked)
           n == Len(asked)
<1>1. /\ q \in Seq(Asked) /\ n \in Nat \ {0} /\ Len(q) = n - 1
      /\ \A i \in 1 .. n - 1 : q[i] = asked[i + 1]
  BY TailIs DEF ModemTyped, TypeOK
<1>2. task \in Busy
  BY TaskKinds DEF ModemTyped
<1>3. /\ n = o + SentParts(task) - 0 /\ t.took = PartsUpTo(t.msg, 0)
      /\ \A i \in 1 .. o : ~asked[i].own
      /\ \A i \in o + 1 .. n : asked[i].own /\ asked[i].req = ReqOf(task.msg)
                               /\ asked[i].chunk = PartOf(task.msg, 0 + i - o)
      /\ task.part - 1 + Cardinality(Older(asked, task, o)) <= task.late
  BY DEF Stands
<1>4. SentParts(task) \in Nat
  BY <1>2 DEF SentParts, Busy
<1> DEFINE c == Cardinality(Older(asked, task, o))
           d == Cardinality(Older(q, t, o - 1))
<1>5. /\ c \in Nat /\ d \in Nat /\ d <= c
      /\ asked[1].req.ind = ReqOf(task.msg).ind => d + 1 <= c
  <2>1. Older(q, t, o - 1) = Older(q, task, o - 1)
    BY DEF Older
  <2>2. asked \in Seq(Asked)
    BY DEF ModemTyped, TypeOK
  <2> QED
    BY <2>1, <2>2, OlderGoes
<1>6. t.part - 1 + d <= t.late
  <2>1. task.part \in Nat /\ t.part \in Nat /\ t.late \in Nat /\ task.late = t.late
    BY <1>2 DEF Busy
  <2>2. task.part - 1 + c <= task.late
    BY <1>3
  <2> HIDE DEF c, d
  <2>3. CASE t.part = task.part
    BY <1>5, <2>1, <2>2, <2>3
  <2>4. CASE t.part = task.part + 1 /\ asked[1].req.ind = ReqOf(task.msg).ind
    BY <1>5, <2>1, <2>2, <2>4
  <2> QED
    BY <2>3, <2>4
<1> HIDE DEF c
<1>7. \A i \in 1 .. o - 1 : ~q[i].own
  BY <1>1, <1>3
<1>8. ASSUME NEW i \in o - 1 + 1 .. n - 1
      PROVE  q[i].own /\ q[i].req = ReqOf(t.msg) /\ q[i].chunk = PartOf(t.msg, 0 + i - (o - 1))
  <2>1. i + 1 \in o + 1 .. n /\ i \in 1 .. n - 1 /\ 0 + (i + 1) - o = 0 + i - (o - 1)
    BY <1>1
  <2> QED
    BY <1>1, <1>3, <2>1
<1>9. Len(q) = o - 1 + SentParts(t) - 0
  BY <1>1, <1>3, <1>4
<1>10. Stands(q, t, o - 1, 0)
  <2> HIDE DEF q
  <2>1. \A i \in o - 1 + 1 .. Len(q) :
           q[i].own /\ q[i].req = ReqOf(t.msg) /\ q[i].chunk = PartOf(t.msg, 0 + i - (o - 1))
    BY <1>1, <1>8
  <2> QED
    BY <1>3, <1>6, <1>7, <1>9, <2>1 DEF Stands
<1>11. o - 1 \in 0 .. Len(q) /\ 0 \in 0 .. SentParts(t)
  BY <1>1, <1>4
<1> QED
  BY <1>10, <1>11 DEF InOrder

(* An answer to the call's own request for a part, when all older ones     *)
(* were answered; t is the call after that.                                *)
LEMMA OwnAnswered ==
    ASSUME ModemTyped, task.pc # "idle", asked # <<>>,
           NEW k \in 0 .. SentParts(task), Stands(asked, task, 0, k),
           NEW t \in Busy, t.msg = task.msg, t.took = task.took \cup {asked[1].chunk},
           SentParts(t) = SentParts(task),
           IsXtra(t.msg) => t.injected = (t.part - 1) * PartLen
    PROVE  InOrder(Tail(asked), t)
<1> DEFINE q == Tail(asked)
           n == Len(asked)
<1>1. /\ q \in Seq(Asked) /\ n \in Nat \ {0} /\ Len(q) = n - 1
      /\ \A i \in 1 .. n - 1 : q[i] = asked[i + 1]
  BY TailIs DEF ModemTyped, TypeOK
<1>2. task \in Busy
  BY TaskKinds DEF ModemTyped
<1>3. /\ n = 0 + SentParts(task) - k /\ task.took = PartsUpTo(task.msg, k)
      /\ \A i \in 0 + 1 .. n : asked[i].own /\ asked[i].req = ReqOf(task.msg)
                               /\ asked[i].chunk = PartOf(task.msg, k + i - 0)
  BY DEF Stands
<1>4. SentParts(task) \in Nat /\ k \in Nat
  BY <1>2 DEF SentParts, Busy
<1>5. t.took = PartsUpTo(t.msg, k + 1)
  <2>1. asked[1].chunk = PartOf(task.msg, k + 1)
    <3>1. 1 \in 0 + 1 .. n /\ k + 1 - 0 = k + 1
      BY <1>1, <1>4
    <3> QED
      BY <1>3, <3>1
  <2> QED
    BY <1>3, <1>4, <2>1, MoreParts
<1>6. ASSUME NEW i \in 0 + 1 .. n - 1
      PROVE  q[i].own /\ q[i].req = ReqOf(t.msg) /\ q[i].chunk = PartOf(t.msg, k + 1 + i - 0)
  <2>1. i + 1 \in 0 + 1 .. n /\ i \in 1 .. n - 1 /\ k + (i + 1) - 0 = k + 1 + i - 0
    BY <1>1, <1>4
  <2> QED
    BY <1>1, <1>3, <2>1
<1>7. Len(q) = 0 + SentParts(t) - (k + 1) /\ k + 1 \in 0 .. SentParts(t) /\ k + 1 # 0
  BY <1>1, <1>3, <1>4
<1>8. Stands(q, t, 0, k + 1)
  <2>1. \A i \in 0 + 1 .. Len(q) :
           q[i].own /\ q[i].req = ReqOf(t.msg) /\ q[i].chunk = PartOf(t.msg, k + 1 + i - 0)
    BY <1>1, <1>6
  <2> HIDE DEF q
  <2>2. (0 > 0 => k + 1 = 0) /\ \A i \in 1 .. 0 : ~q[i].own
    OBVIOUS
  <2> QED
    BY <1>5, <1>7, <2>1, <2>2 DEF Stands
<1> QED
  BY <1>1, <1>7, <1>8 DEF InOrder

(* The answer that ends the last wait of a call.                           *)
LEMMA LastAnswered ==
    ASSUME ModemTyped, asked # <<>>, task.pc = "waiting", Sound(task), InOrder(asked, task),
           task.part = Parts(task.msg), task.late < Parts(task.msg),
           Req.ind = asked[1].req.ind, TRUE \in Accepted(asked[1])
    PROVE  /\ asked[1].own
           /\ task.took \cup {asked[1].chunk} = PartsUpTo(task.msg, Parts(task.msg))
           /\ Len(asked) = 1
<1> DEFINE p == task.part
           n == Len(asked)
<1>1. task \in Busy /\ TaskFits(task)
  BY TaskKinds DEF ModemTyped
<1>2. PICK o \in 0 .. n, k \in 0 .. SentParts(task) : Stands(asked, task, o, k)
  BY DEF InOrder
<1>3. SentParts(task) = p /\ p \in Nat \ {0} /\ task.late \in Nat
  BY <1>1 DEF SentParts, Busy
<1>4. asked \in Seq(Asked) /\ n \in Nat \ {0}
  BY EmptySeq DEF ModemTyped, TypeOK
<1>5. o = 0
  <2>1. SUFFICES ASSUME o # 0 PROVE FALSE
    OBVIOUS
  <2>2. o \in 1 .. n /\ k = 0
    BY <1>2, <1>4, <2>1 DEF Stands
  <2> DEFINE c == Cardinality(Older(asked, task, o))
             d == Cardinality(Older(Tail(asked), task, o - 1))
  <2>3. asked[1].req.ind = ReqOf(task.msg).ind
    BY ReqIs
  <2>4. c \in Nat /\ d \in Nat /\ d + 1 <= c
    BY <1>4, <2>2, <2>3, OlderGoes
  <2>5. p - 1 + c <= task.late
    BY <1>2, <2>2 DEF Stands
  <2>6. task.late < p
    OBVIOUS
  <2> HIDE DEF c, d, p
  <2> QED
    BY <1>3, <2>4, <2>5, <2>6
<1>6. /\ n = 0 + p - k /\ task.took = PartsUpTo(task.msg, k) /\ k \in 0 .. p
      /\ asked[1].own /\ asked[1].chunk = PartOf(task.msg, k + 1)
  <2>1. 1 \in 0 + 1 .. n /\ k + 1 - 0 = k + 1
    BY <1>2, <1>3, <1>4
  <2> QED
    BY <1>2, <1>3, <1>5, <2>1 DEF Stands
<1>7. k + 1 = p
  <2>1. CASE IsXtra(task.msg)
    <3>1. asked[1].chunk.part = p
      BY <2>1 DEF Accepted
    <3>2. asked[1].chunk.part = k + 1
      BY <1>6, <2>1 DEF PartOf
    <3> QED
      BY <3>1, <3>2
  <2>2. CASE ~IsXtra(task.msg)
    <3>1. p = 1
      BY <2>2 DEF Parts
    <3> HIDE DEF p
    <3> QED
      BY <1>4, <1>6, <3>1
  <2> QED
    BY <2>1, <2>2
<1>8. n = 1
  <2> HIDE DEF n, p
  <2> QED
    BY <1>3, <1>6, <1>7
<1>9. k \in Nat /\ p = Parts(task.msg)
  BY <1>3, <1>6
<1>10. PartsUpTo(task.msg, p) = PartsUpTo(task.msg, k) \cup {PartOf(task.msg, k + 1)}
  BY <1>7, <1>9, MoreParts
<1> QED
  BY <1>6, <1>8, <1>9, <1>10

LEMMA AnswerKeepsCall ==
    ASSUME ModemTyped, CallInv, Answer
    PROVE  CallInv'
<1> DEFINE a == asked[1]
<1>1. /\ a \in Asked /\ a.own \in BOOLEAN /\ asked # <<>> /\ asked' = Tail(asked)
      /\ \/ Here(a) /\ task' = Granted(Told(a)) /\ TRUE \in Accepted(a)
         \/ Here(a) /\ task' = Denied(Told(a))
         \/ Here(a) /\ task' = Denied(task)
         \/ ~Here(a) /\ task' = Told(a)
         \/ ~Here(a) /\ task' = IF Mine(a) THEN [task EXCEPT !.astray = TRUE] ELSE task
      /\ linked' = linked
  BY AnswerIs
<1>2. a = asked[1]
  OBVIOUS
<1> HIDE DEF a
<1>3. linked
  BY <1>1 DEF CallInv
<1>4. /\ asked \in Seq(Asked) /\ Len(asked) \in Nat \ {0} /\ DOMAIN asked = 1 .. Len(asked)
      /\ DOMAIN asked' = 1 .. Len(asked) - 1
      /\ \A i \in 1 .. Len(asked) - 1 : asked'[i] = asked[i + 1]
  BY <1>1, TailIs DEF ModemTyped, TypeOK
<1>5. (\A i \in DOMAIN asked : ~asked[i].own) => ~a.own /\ \A i \in DOMAIN asked' : ~asked'[i].own
  BY <1>2, <1>4
<1>6. CASE task.pc = "idle"
  <2>1. task' = task
    BY <1>1, <1>6, ToldIs DEF Here, Mine
  <2> QED
    BY <1>1, <1>3, <1>5, <1>6, <2>1 DEF CallInv, UnderwayInv, DoneInv
<1>7. CASE task.pc # "idle"
  <2>1. task \in Busy /\ (Mine(a) <=> a.own)
    BY <1>1, <1>7, ToldIs, TaskKinds DEF ModemTyped, Mine
  <2>2. /\ Told(a) \in Busy /\ Told(a).pc = task.pc /\ Told(a).msg = task.msg
        /\ Told(a).part = task.part /\ Told(a).injected = task.injected
        /\ Told(a).result = task.result /\ Told(a).late = task.late
        /\ Told(a).astray = task.astray
        /\ Told(a).took = IF a.own THEN task.took \cup {a.chunk} ELSE task.took
    BY <1>1, <1>7, ToldIs
  <2>3. SentParts(Told(a)) = SentParts(task)
    BY <2>2 DEF SentParts
  <2> DEFINE s == [task EXCEPT !.astray = TRUE]
  <2>4. s \in Busy /\ s.pc = task.pc /\ s.astray
    BY <1>7, AstrayIs
  <2>5. ~a.own => Told(a) = task
    BY <2>1 DEF Told
  <2> HIDE DEF s
  <2>6. CASE ~Here(a)
    <3>1. \/ task' = Told(a)
          \/ task' = s
      BY <1>1, <2>1, <2>5, <2>6 DEF s
    <3>2. CASE task' = s
      BY <1>1, <1>3, <1>7, <2>4, <3>2 DEF CallInv, UnderwayInv, DoneInv, AllTaken, Sound
    <3>3. CASE task' = Told(a)
      <4>1. Sound(Told(a)) <=> Sound(task)
        BY <2>2 DEF Sound, Small
      <4>2. UnderwayInv'
        <5>1. SUFFICES ASSUME task.pc \in {"sending", "waiting"}, Sound(task)
                       PROVE  InOrder(Tail(asked), Told(a))
          BY <1>1, <2>2, <3>3, <4>1 DEF UnderwayInv
        <5>2. InOrder(asked, task)
          BY <1>3, <5>1 DEF CallInv, UnderwayInv
        <5>3. PICK o \in 0 .. Len(asked), k \in 0 .. SentParts(task) : Stands(asked, task, o, k)
          BY <5>2 DEF InOrder
        <5>4. IsXtra(Told(a).msg) => Told(a).injected = (Told(a).part - 1) * PartLen
          BY <2>2, <5>2 DEF InOrder
        <5>5. CASE o = 0
          <6>1. a.own
            <7>1. 1 \in 0 + 1 .. Len(asked)
              BY <1>4
            <7> QED
              BY <1>2, <5>3, <5>5, <7>1 DEF Stands
          <6>2. Told(a).took = task.took \cup {asked[1].chunk}
            BY <1>2, <2>2, <6>1
          <6> QED
            BY <1>1, <1>7, <2>2, <2>3, <5>3, <5>4, <5>5, <6>2, OwnAnswered
        <5>6. CASE o # 0
          <6>1. o \in 1 .. Len(asked) /\ k = 0
            BY <1>4, <5>3, <5>6 DEF Stands
          <6>2. ~a.own
            <7>1. 1 \in 1 .. o
              BY <6>1
            <7> QED
              BY <1>2, <5>3, <7>1 DEF Stands
          <6>3. Told(a).took = task.took
            BY <2>2, <6>2
          <6> QED
            BY <1>1, <1>7, <2>2, <2>3, <5>3, <5>4, <6>1, <6>3, OlderAnswered
        <5> QED
          BY <5>5, <5>6
      <4>3. DoneInv'
        <5>1. SUFFICES ASSUME task.pc = "returned", task.result = "success", Sound(task),
                              task.late < Parts(task.msg)
                       PROVE  /\ Told(a).took = PartsUpTo(task.msg, Parts(task.msg))
                              /\ \A i \in DOMAIN asked' : ~asked'[i].own
          BY <1>1, <2>2, <3>3, <4>1 DEF DoneInv, AllTaken
        <5>2. /\ task.took = PartsUpTo(task.msg, Parts(task.msg))
              /\ \A i \in DOMAIN asked : ~asked[i].own
          BY <5>1 DEF CallInv, DoneInv, AllTaken
        <5> QED
          BY <1>5, <2>2, <5>2
      <4> QED
        BY <1>1, <1>3, <1>7, <2>2, <3>3, <4>2, <4>3 DEF CallInv
    <3> QED
      BY <3>1, <3>2, <3>3
  <2>7. CASE Here(a) /\ (task' = Denied(Told(a)) \/ task' = Denied(task))
    <3>1. task'.pc = "returned" /\ task'.result = "failure"
      BY <2>1, <2>2, <2>7, DeniedIs
    <3> QED
      BY <1>1, <1>3, <3>1 DEF CallInv, UnderwayInv, DoneInv, AllTaken
  <2>8. CASE Here(a) /\ task' = Granted(Told(a)) /\ TRUE \in Accepted(a)
    <3> DEFINE t == Granted(Told(a))
               m == task.msg
               p == task.part
    <3>1. task.pc = "waiting" /\ Req.ind = a.req.ind /\ ReqOf(m) = Req
      BY <1>7, <2>8, ReqIs DEF Here
    <3>2. /\ t \in Busy /\ t.msg = m /\ t.took = Told(a).took /\ t.late = task.late
          /\ t.astray = task.astray
          /\ p < Parts(m) =>
                /\ t.pc = "sending" /\ t.part = p + 1
                /\ t.injected = (task.injected + ThisChunk.len) % LenMod
          /\ p = Parts(m) => t.pc = "returned" /\ t.part = p /\ t.result = "success"
          /\ p \in 1 .. Parts(m) /\ Parts(m) \in Nat \ {0}
      BY <1>7, <2>2, GrantedIs
    <3> HIDE DEF t
    <3>3. Sound(t) <=> Sound(task)
      BY <3>2 DEF Sound, Small
    <3>4. task' = t
      BY <2>8 DEF t
    <3>5. CASE p < Parts(m)
      <4>1. t.pc = "sending" /\ t.part = p + 1 /\ SentParts(t) = p /\ SentParts(task) = p
        BY <3>1, <3>2, <3>5 DEF SentParts
      <4>2. ASSUME Sound(task) PROVE InOrder(Tail(asked), t)
        <5>2. InOrder(asked, task)
          BY <1>3, <3>1, <4>2 DEF CallInv, UnderwayInv
        <5>3. PICK o \in 0 .. Len(asked), k \in 0 .. SentParts(task) : Stands(asked, task, o, k)
          BY <5>2 DEF InOrder
        <5>4. IsXtra(t.msg) => t.injected = (t.part - 1) * PartLen
          <6>1. SUFFICES ASSUME IsXtra(m) PROVE t.injected = (p + 1 - 1) * PartLen
            BY <3>2, <4>1
          <6>2. (task.injected + ThisChunk.len) % LenMod = (p + 1 - 1) * PartLen
            BY <1>7, <3>5, <4>2, <5>2, <6>1, ThisPart DEF InOrder, Sound
          <6> QED
            BY <3>2, <3>5, <6>2
        <5>5. CASE o = 0
          <6>1. a.own
            <7>1. 1 \in 0 + 1 .. Len(asked)
              BY <1>4
            <7> QED
              BY <1>2, <5>3, <5>5, <7>1 DEF Stands
          <6>2. t.took = task.took \cup {asked[1].chunk}
            BY <1>2, <2>2, <3>2, <6>1
          <6>3. SentParts(t) = SentParts(task)
            BY <4>1
          <6> QED
            BY <1>1, <1>7, <3>2, <5>3, <5>4, <5>5, <6>2, <6>3, OwnAnswered
        <5>6. CASE o # 0
          <6>1. o \in 1 .. Len(asked) /\ k = 0
            BY <1>4, <5>3, <5>6 DEF Stands
          <6>2. ~a.own
            <7>1. 1 \in 1 .. o
              BY <6>1
            <7> QED
              BY <1>2, <5>3, <7>1 DEF Stands
          <6>3. t.took = task.took
            BY <2>2, <3>2, <6>2
          <6>4. SentParts(t) = SentParts(task) /\ asked[1].req.ind = ReqOf(task.msg).ind
            BY <1>2, <3>1, <4>1
          <6> QED
            BY <1>1, <1>7, <3>2, <4>1, <5>3, <5>4, <6>1, <6>3, <6>4, OlderAnswered
        <5> QED
          BY <5>5, <5>6
      <4>3. UnderwayInv'
        BY <1>1, <3>3, <3>4, <4>2 DEF UnderwayInv
      <4>4. DoneInv' /\ task'.pc # "idle"
        BY <3>4, <4>1 DEF DoneInv
      <4> QED
        BY <1>1, <1>3, <4>3, <4>4 DEF CallInv
    <3>6. CASE p = Parts(m)
      <4>1. t.pc = "returned"
        BY <3>2, <3>6
      <4>2. ASSUME Sound(task), task.late < Parts(m)
            PROVE  t.took = PartsUpTo(m, Parts(m)) /\ \A i \in DOMAIN asked' : ~asked'[i].own
        <5>1. InOrder(asked, task)
          BY <1>3, <3>1, <4>2 DEF CallInv, UnderwayInv
        <5>2. /\ asked[1].own /\ Len(asked) = 1
              /\ task.took \cup {asked[1].chunk} = PartsUpTo(task.msg, Parts(task.msg))
          BY <1>1, <1>2, <2>8, <3>1, <3>6, <4>2, <5>1, LastAnswered
        <5>3. DOMAIN asked' = {}
          BY <1>4, <5>2
        <5> QED
          BY <1>2, <2>2, <3>2, <5>2, <5>3
      <4>3. AllTaken(asked', t)
        BY <3>2, <3>3, <4>2 DEF AllTaken
      <4>4. UnderwayInv' /\ DoneInv' /\ task'.pc # "idle"
        BY <3>4, <4>1, <4>3 DEF UnderwayInv, DoneInv
      <4> QED
        BY <1>1, <1>3, <4>4 DEF CallInv
    <3> QED
      BY <3>2, <3>5, <3>6
  <2> QED
    BY <1>1, <2>6, <2>7, <2>8
<1> QED
  BY <1>6, <1>7

LEMMA OtherKeepsCall ==
    ASSUME ModemTyped, CallInv,
           \/ Post \/ LocEngInit \/ LocEngUp \/ Open \/ SendFails \/ TimedOut \/ WokenOddly
           \/ Return \/ Crash \/ Recover \/ ErrorCb \/ PostCb
    PROVE  CallInv'
<1>0. DOMAIN asked = 1 .. Len(asked) /\ Len(asked) \in Nat
  BY LenProperties DEF ModemTyped, TypeOK
<1>1. CASE Post \/ LocEngInit \/ LocEngUp \/ Recover \/ ErrorCb \/ PostCb
  <2>1. UNCHANGED <<task, linked, asked>>
    BY <1>1 DEF Post, LocEngInit, LocEngUp, Recover, ErrorCb, PostCb, modem
  <2> QED
    BY <2>1 DEF CallInv, UnderwayInv, DoneInv
<1>2. CASE Open
  <2>1. task.pc = "idle" /\ task' = task /\ asked' = <<>>
    BY <1>2 DEF Open, Takes, Idle
  <2> QED
    BY <2>1 DEF CallInv, UnderwayInv, DoneInv
<1>3. CASE SendFails
  <2>1. /\ task.pc # "idle" /\ task' = Returns("failure") /\ linked' = linked
        /\ ~linked => asked' = asked
    BY <1>3 DEF SendFails
  <2>2. task'.pc = "returned" /\ task'.result = "failure"
    BY <2>1, ReturnsIs
  <2> QED
    BY <2>1, <2>2 DEF CallInv, UnderwayInv, DoneInv, AllTaken
<1>4. CASE TimedOut
  <2>1. /\ task.pc # "idle" /\ task' = Returns("failure") /\ linked' = linked /\ asked' = asked
    BY <1>4 DEF TimedOut, modem
  <2>2. task'.pc = "returned" /\ task'.result = "failure"
    BY <2>1, ReturnsIs
  <2> QED
    BY <2>1, <2>2 DEF CallInv, UnderwayInv, DoneInv, AllTaken
<1>5. CASE WokenOddly
  <2>1. linked' = linked /\ asked' = asked
    BY <1>5 DEF WokenOddly, modem
  <2>2. \/ task'.pc = "returned" /\ task'.result = "failure"
        \/ task'.pc \in {"sending", "returned"} /\ task'.astray
    BY <1>5, WokenIs
  <2> QED
    BY <2>1, <2>2 DEF CallInv, UnderwayInv, DoneInv, AllTaken, Sound
<1>6. CASE Return
  <2>1. linked' = linked /\ asked' = Disowned /\ task'.pc = "idle"
    BY <1>6 DEF Return, Disowned, Idle
  <2>2. /\ \A i \in DOMAIN asked' : ~asked'[i].own
        /\ asked' \in Seq(Asked) /\ Len(asked') = Len(asked)
    BY <1>0, <2>1, DisownedIs DEF ModemTyped
  <2>3. asked = <<>> => asked' = <<>>
    BY <2>2, EmptySeq
  <2> QED
    BY <2>1, <2>2, <2>3 DEF CallInv, UnderwayInv, DoneInv
<1>7. CASE Crash
  <2>1. ~linked' /\ asked' = <<>>
    BY <1>7 DEF Crash
  <2>2. task.pc # "returned" => task'.pc # "returned"
    BY <1>7, CrashIs
  <2>3. task.pc = "returned" => task' = task
    BY <1>7 DEF Crash
  <2> QED
    BY <2>1, <2>2, <2>3 DEF CallInv, UnderwayInv, DoneInv, AllTaken
<1> QED
  BY <1>1, <1>2, <1>3, <1>4, <1>5, <1>6, <1>7

LEMMA CallKept == ModemTyped /\ CallInv /\ [Next]_vars => CallInv'
<1> SUFFICES ASSUME ModemTyped, CallInv, [Next]_vars PROVE CallInv'
  OBVIOUS
<1>1. CASE UNCHANGED vars
  <2>1. UNCHANGED <<task, linked, asked>>
    BY <1>1 DEF vars, modem
  <2> QED
    BY <2>1 DEF CallInv, UnderwayInv, DoneInv
<1>2. CASE Next
  BY <1>2, BeginKeepsCall, SendKeepsCall, AnswerKeepsCall, OtherKeepsCall DEF Next, MsgTask
<1> QED BY <1>1, <1>2

(* What setXtraData reports as injected is whole in one modem, whatever    *)
(* the size of a part, late answers, refusals and restarts, as long as     *)
(* fewer answers to earlier requests were due than the file has parts and  *)
(* the file is not beyond len_injected (LocApiV02.cpp:1054-1128).          *)
THEOREM SuccessAlwaysEarned == Spec => []SuccessIsEarned
<1>1. ModemTyped /\ CallInv => SuccessIsEarned
  <2> SUFFICES ASSUME ModemTyped, CallInv, task.pc = "returned", task.result = "success",
                      ~task.astray,
                      task.late < (IF IsXtra(task.msg) THEN TotalParts(task.msg.size) ELSE 1),
                      IsXtra(task.msg) => task.msg.size <= LenMod
               PROVE  task.took = Whole(task.msg)
    BY DEF SuccessIsEarned
  <2> DEFINE m == task.msg
  <2>1. Parts(m) = IF IsXtra(m) THEN TotalParts(m.size) ELSE 1
    BY DEF Parts
  <2>2. task.took = PartsUpTo(m, Parts(m))
    BY <2>1 DEF CallInv, DoneInv, AllTaken, Sound, Small
  <2>3. PartsUpTo(m, Parts(m)) = Whole(m)
    <3>1. CASE IsXtra(m)
      BY <2>1, <3>1 DEF PartsUpTo, PartOf, Whole
    <3>2. CASE ~IsXtra(m)
      <4>1. PartsUpTo(m, 1) = {NoChunk}
        BY <3>2 DEF PartsUpTo, PartOf
      <4> QED
        BY <2>1, <3>2, <4>1 DEF Whole
    <3> QED
      BY <3>1, <3>2
  <2> QED
    BY <2>2, <2>3
<1>2. Spec => [](ModemTyped /\ CallInv)
  BY ModemTypedInit, ModemTypedKept, CallInit, CallKept, PTL DEF Spec
<1> QED
  BY <1>1, <1>2, PTL
=============================================================================
