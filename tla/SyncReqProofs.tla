--------------------------- MODULE SyncReqProofs ----------------------------
(***************************************************************************)
(* Theorems of SyncReq, for any number of threads, slots, indications and  *)
(* calls: slots and calls belong together, no wait is refused, one answer  *)
(* ends one call, and where no calls overlap and none is given up it is    *)
(* the right one.                                                          *)
(* Then of the messages these calls send (QmiMessages), for any masks and  *)
(* any number of indications on their way.                                 *)
(***************************************************************************)
EXTENDS SyncReq, QmiMessages, TLAPS

USE DEF Slots, NULL, None, Running

LEMMA TypeInit == Init => TypeOK
<1> SUFFICES ASSUME Init PROVE TypeOK
  OBVIOUS
<1>1. FreeData \in SlotData
  BY DEF FreeData, SlotData
<1>2. 0 \in Slots /\ 0 \in 0 .. MaxCalls
  BY SizeAssumption
<1>3. "idle" \in Places /\ None \in Results
  BY DEF Places, Results
<1>4. slots \in [Slots -> SlotData] /\ pc \in [Caller -> Places]
  BY <1>1, <1>3 DEF Init
<1>5. /\ select_id \in [Caller -> Slots]
      /\ call \in [Caller -> 0 .. MaxCalls]
      /\ got \in [Caller -> 0 .. MaxCalls]
      /\ calls \in 0 .. MaxCalls
  BY <1>2 DEF Init
<1>6. result \in [Caller -> Results] /\ ind \in [Caller -> IndId \cup {None}]
  BY <1>3 DEF Init
<1>7. slot_in_use \in [Slots -> BOOLEAN] /\ in_use \in BOOLEAN
  BY DEF Init
<1>8. air \in SUBSET Answer /\ oddly \in SUBSET Caller /\ disturbed \in SUBSET (IndId \cup {None})
  BY DEF Init
<1>9. QED
  BY <1>4, <1>5, <1>6, <1>7, <1>8 DEF TypeOK

(* What a step may do to the data of a slot.                               *)
LEMMA DataTyped ==
    ASSUME NEW d \in SlotData
    PROVE  /\ [d EXCEPT !.waiting = TRUE] \in SlotData
           /\ [d EXCEPT !.waiting = FALSE, !.signalled = FALSE] \in SlotData
           /\ [d EXCEPT !.signalled = TRUE] \in SlotData
           /\ [d EXCEPT !.arrived = TRUE] \in SlotData
BY DEF SlotData

(* Every step keeps the types.                                             *)
LEMMA TypeStep == TypeOK /\ [Next]_vars => TypeOK'
<1> SUFFICES ASSUME TypeOK, [Next]_vars PROVE TypeOK'
  OBVIOUS
<1> USE SizeAssumption DEF TypeOK, thread, ghost
<1>0. /\ {"idle", "alloc", "filled", "sent", "waiting", "freeing"} \subseteq Places
      /\ {None, "success", "timeout", "failure"} \subseteq Results
  BY DEF Places, Results
<1>a. ASSUME NEW c \in Caller, NEW p, NEW q \in Places, Goes(c, p, q)
      PROVE  pc' \in [Caller -> Places]
  BY <1>a DEF Goes
<1>1. ASSUME NEW c \in Caller, NEW i \in IndId, AllocSlot(c, i) PROVE TypeOK'
  BY <1>0, <1>1 DEF AllocSlot, Begins
<1>2. ASSUME NEW c \in Caller, NEW i \in IndId, BufferFull(c, i) PROVE TypeOK'
  BY <1>0, <1>2 DEF BufferFull, Begins
<1>3. ASSUME NEW c \in Caller, FillSlot(c) PROVE TypeOK'
  <2>1. [FreeData EXCEPT !.ind = ind[c], !.ptr = c] \in SlotData
    BY DEF FreeData, SlotData
  <2>2. slots' \in [Slots -> SlotData]
    BY <1>3, <2>1 DEF FillSlot
  <2>3. pc' \in [Caller -> Places]
    BY <1>0, <1>3, <1>a DEF FillSlot
  <2>4. QED
    BY <1>3, <2>2, <2>3 DEF FillSlot
<1>4. ASSUME NEW c \in Caller, SendReq(c) PROVE TypeOK'
  <2>1. [call |-> call[c], ind |-> ind[c]] \in Answer
    BY DEF Answer
  <2>2. pc' \in [Caller -> Places]
    BY <1>0, <1>4, <1>a DEF SendReq
  <2>3. QED
    BY <1>4, <2>1, <2>2 DEF SendReq
<1>5. ASSUME NEW c \in Caller, SendReqFails(c) \/ AnsweredBefore(c) PROVE TypeOK'
  <2>1. pc' \in [Caller -> Places]
    BY <1>0, <1>5, <1>a DEF SendReqFails, AnsweredBefore
  <2>2. result' \in [Caller -> Results]
    BY <1>0, <1>5 DEF SendReqFails, MayBeTaken, AnsweredBefore
  <2>3. [call |-> call[c], ind |-> ind[c]] \in Answer
    BY DEF Answer
  <2>4. air' \in SUBSET Answer /\ disturbed' \in SUBSET (IndId \cup {None})
    BY <1>5, <2>3 DEF SendReqFails, MayBeTaken, AnsweredBefore
  <2>5. QED
    BY <1>5, <2>1, <2>2, <2>4 DEF SendReqFails, MayBeTaken, AnsweredBefore
<1>6. ASSUME NEW c \in Caller, Wait(c) PROVE TypeOK'
  <2>1. pc' \in [Caller -> Places]
    BY <1>0, <1>6, <1>a DEF Wait
  <2>2. slots' \in [Slots -> SlotData]
    BY <1>6, DataTyped DEF Wait, Data
  <2>3. QED
    BY <1>6, <2>1, <2>2 DEF Wait
<1>7. ASSUME NEW c \in Caller, Woken(c) \/ WokenOddly(c) \/ TimedOut(c) PROVE TypeOK'
  <2>1. PICK r \in Results : WaitEnds(c, r)
    BY <1>0, <1>7 DEF Woken, WokenOddly, TimedOut
  <2>2. pc' \in [Caller -> Places]
    BY <1>0, <2>1, <1>a DEF WaitEnds
  <2>3. slots' \in [Slots -> SlotData]
    BY <2>1, DataTyped DEF WaitEnds, Data
  <2>4. oddly' \in SUBSET Caller /\ disturbed' \in SUBSET (IndId \cup {None})
    BY <1>7 DEF Woken, WokenOddly, TimedOut
  <2>5. QED
    BY <2>1, <2>2, <2>3, <2>4 DEF WaitEnds
<1>8. ASSUME NEW c \in Caller, FreeSlot(c) PROVE TypeOK'
  <2>1. FreeData \in SlotData
    BY DEF FreeData, SlotData
  <2>2. pc' \in [Caller -> Places]
    BY <1>0, <1>8, <1>a DEF FreeSlot
  <2>3. select_id' \in [Caller -> Slots]
    BY <1>8, SizeAssumption DEF FreeSlot, Slots
  <2>4. QED
    BY <1>8, <2>1, <2>2, <2>3 DEF FreeSlot
<1>9. ASSUME NEW a \in air, IndTaken(a) PROVE TypeOK'
  <2>1. a.call \in 0 .. MaxCalls
    BY DEF Answer
  <2>2. slots' \in [Slots -> SlotData]
    <3>1. PICK s \in Slots :
             slots' = [slots EXCEPT ![s] = IF slots[s].waiting
                                           THEN [slots[s] EXCEPT !.signalled = TRUE]
                                           ELSE [slots[s] EXCEPT !.arrived = TRUE]]
      BY <1>9 DEF IndTaken, Matching
    <3>2. /\ [slots[s] EXCEPT !.signalled = TRUE] \in SlotData
          /\ [slots[s] EXCEPT !.arrived = TRUE] \in SlotData
      BY DataTyped
    <3>3. QED
      BY <3>1, <3>2
  <2>3. QED
    BY <1>9, <2>1, <2>2 DEF IndTaken
<1>10. ASSUME NEW a \in air, IndDropped(a) PROVE TypeOK'
  BY <1>10 DEF IndDropped
<1>11. ASSUME UNCHANGED vars PROVE TypeOK'
  BY <1>11 DEF vars
<1>12. QED
  BY <1>1, <1>2, <1>3, <1>4, <1>5, <1>6, <1>7, <1>8, <1>9, <1>10, <1>11 DEF Next, Thread

LEMMA SlotInit == Init => SlotInv
BY SizeAssumption DEF Init, SlotInv, Named, SlotHasCaller, InUseFits, CallerFits, FreeData

LEMMA NamedStep == TypeOK /\ Named /\ [Next]_vars => Named'
<1> SUFFICES ASSUME TypeOK, Named, [Next]_vars PROVE Named'
  OBVIOUS
<1> USE SizeAssumption DEF TypeOK, thread
<1>1. ASSUME NEW c \in Caller, NEW i \in IndId, AllocSlot(c, i) \/ BufferFull(c, i) PROVE Named'
  BY <1>1 DEF AllocSlot, BufferFull, Begins, Named
<1>2. ASSUME NEW c \in Caller, Thread(c), ~SendReq(c), ~SendReqFails(c) PROVE Named'
  <2>1. UNCHANGED <<call, ind, air>> /\ Running(c) /\ \A x \in Caller \ {c} : pc'[x] = pc[x]
    BY <1>2 DEF Thread, FillSlot, AnsweredBefore, Wait, Woken, WokenOddly, TimedOut,
      WaitEnds, FreeSlot, Goes
  <2>2. QED
    BY <2>1 DEF Named
<1>3. ASSUME NEW c \in Caller, SendReq(c) \/ SendReqFails(c) PROVE Named'
  <2>1. pc[c] = "filled" /\ air' \subseteq air \cup {[call |-> call[c], ind |-> ind[c]]}
        /\ UNCHANGED <<call, ind>> /\ \A x \in Caller \ {c} : pc'[x] = pc[x]
    BY <1>3 DEF SendReq, SendReqFails, MayBeTaken, Goes
  <2>2. \A a \in air' : a.call # NULL /\ a.ind # None
    BY <2>1 DEF Named
  <2>3. QED
    BY <2>1, <2>2 DEF Named
<1>4. ASSUME NEW a \in air, IndTaken(a) \/ IndDropped(a) PROVE Named'
  BY <1>4 DEF IndTaken, IndDropped, Named
<1>5. ASSUME UNCHANGED vars PROVE Named'
  BY <1>5 DEF vars, Named
<1>6. QED
  BY <1>1, <1>2, <1>3, <1>4, <1>5 DEF Next

(* A thread that runs goes on in its slot: nobody else is concerned.       *)
LEMMA OneMoves ==
    ASSUME TypeOK, SlotInv, NEW c \in Caller, NEW d \in SlotData, NEW q \in Places,
           Running(c), q # "idle", pc' = [pc EXCEPT ![c] = q],
           slots' = [slots EXCEPT ![select_id[c]] = d], d.ptr \in {None, c},
           UNCHANGED <<in_use, slot_in_use, select_id, ind>>,
           \A x \in Caller \ {c} : got'[x] = got[x],
           CallerFits(c)', Named'
    PROVE  SlotInv'
<1> USE SizeAssumption DEF TypeOK
<1>1. select_id[c] \in Slots /\ slot_in_use[select_id[c]] /\ slots'[select_id[c]] = d
  BY DEF SlotInv, SlotHasCaller
<1>2. \A s \in Slots : s # select_id[c] => slots'[s] = slots[s]
  OBVIOUS
<1>3. \A x \in Caller : Running(x)' <=> Running(x)
  OBVIOUS
<1>4. SlotHasCaller'
  <2>1. \A s \in Slots : slots'[s].ptr # None =>
            Running(slots'[s].ptr) /\ select_id[slots'[s].ptr] = s
    BY <1>1, <1>2 DEF SlotInv, SlotHasCaller
  <2>2. \A s \in Slots : slots'[s].ptr # None => slots'[s].ptr \in Caller
    BY <1>1, <1>2 DEF SlotData
  <2>3. QED
    BY <1>3, <2>1, <2>2 DEF SlotInv, SlotHasCaller
<1>5. InUseFits' /\ \A s \in Slots : ~slot_in_use'[s] => slots'[s] = FreeData
  BY <1>1, <1>2 DEF SlotInv, InUseFits
<1>6. ASSUME NEW x \in Caller, x # c PROVE CallerFits(x)'
  <2>1. CASE ~Running(x)
    BY <1>6, <2>1 DEF CallerFits
  <2>2. CASE Running(x)
    <3>1. select_id[x] # select_id[c] /\ select_id[x] \in Slots
      BY <1>6, <2>2 DEF SlotInv, SlotHasCaller
    <3>2. Data(x)' = Data(x)
      BY <1>2, <3>1 DEF Data
    <3>3. pc'[x] = pc[x] /\ got'[x] = got[x] /\ ind'[x] = ind[x] /\ CallerFits(x)
      BY <1>6 DEF SlotInv
    <3>4. QED
      BY <3>2, <3>3 DEF CallerFits
  <2>3. QED
    BY <2>1, <2>2
<1>7. QED
  BY <1>4, <1>5, <1>6 DEF SlotInv

(* Every step keeps the invariant of the slots.                            *)
LEMMA SlotStep == TypeOK /\ SlotInv /\ [Next]_vars => SlotInv'
<1> SUFFICES ASSUME TypeOK, SlotInv, [Next]_vars PROVE SlotInv'
  OBVIOUS
<1> USE SizeAssumption DEF TypeOK
<1>0. {"idle", "alloc", "filled", "sent", "waiting", "freeing"} \subseteq Places
  BY DEF Places
<1>n. Named'
  BY NamedStep DEF SlotInv
<1>1. ASSUME NEW c \in Caller, NEW i \in IndId, AllocSlot(c, i) PROVE SlotInv'
  <2>1. PICK s \in Slots :
            /\ ~slot_in_use[s]
            /\ slot_in_use' = [slot_in_use EXCEPT ![s] = TRUE]
            /\ select_id' = [select_id EXCEPT ![c] = s]
    BY <1>1 DEF AllocSlot
  <2>2. /\ in_use' = TRUE /\ slots' = slots
        /\ pc[c] = "idle" /\ pc' = [pc EXCEPT ![c] = "alloc"]
        /\ got' = [got EXCEPT ![c] = NULL] /\ ind' = [ind EXCEPT ![c] = i]
    BY <1>1 DEF AllocSlot, Begins
  <2>3. slots[s] = FreeData
    BY <2>1 DEF SlotInv
  <2>4. \A x \in Caller : Running(x) => select_id[x] # s
    BY <2>1 DEF SlotInv, SlotHasCaller
  <2>5. SlotHasCaller'
    <3>1. \A t \in Slots : slots[t].ptr # None => slots[t].ptr \in Caller /\ slots[t].ptr # c
      BY <2>2 DEF SlotInv, SlotHasCaller, SlotData
    <3>2. QED
      BY <2>1, <2>2, <2>4, <3>1 DEF SlotInv, SlotHasCaller
  <2>6. InUseFits' /\ \A t \in Slots : ~slot_in_use'[t] => slots'[t] = FreeData
    BY <2>1, <2>2 DEF SlotInv, InUseFits
  <2>7. \A x \in Caller : CallerFits(x)'
    BY <2>1, <2>2, <2>3 DEF SlotInv, CallerFits, Data
  <2>8. QED
    BY <1>n, <2>5, <2>6, <2>7 DEF SlotInv
<1>2. ASSUME NEW c \in Caller, NEW i \in IndId, BufferFull(c, i) PROVE SlotInv'
  <2>1. pc[c] = "idle" /\ \A x \in Caller \ {c} : got'[x] = got[x] /\ ind'[x] = ind[x]
    BY <1>2 DEF BufferFull, Begins
  <2>2. UNCHANGED <<in_use, slot_in_use, slots, pc, select_id>>
    BY <1>2 DEF BufferFull
  <2>3. \A x \in Caller : CallerFits(x)'
    BY <2>1, <2>2 DEF SlotInv, CallerFits, Data
  <2>4. QED
    BY <1>n, <2>2, <2>3 DEF SlotInv, SlotHasCaller, InUseFits
<1>3. ASSUME NEW c \in Caller, FillSlot(c) PROVE SlotInv'
  <2> DEFINE d == [FreeData EXCEPT !.ind = ind[c], !.ptr = c]
  <2>1. d \in SlotData /\ d.ptr = c /\ d.ind = ind[c]
        /\ ~d.waiting /\ ~d.arrived /\ ~d.signalled
    BY DEF FreeData, SlotData
  <2>2. /\ pc[c] = "alloc" /\ pc' = [pc EXCEPT ![c] = "filled"]
        /\ slots' = [slots EXCEPT ![select_id[c]] = d]
        /\ UNCHANGED <<in_use, slot_in_use, select_id, ind, got>>
    BY <1>3 DEF FillSlot, Goes
  <2>3. Data(c)' = d /\ got[c] = NULL /\ pc'[c] = "filled"
    BY <2>2 DEF Data, SlotInv, CallerFits
  <2>4. CallerFits(c)'
    BY <2>1, <2>2, <2>3 DEF CallerFits
  <2> HIDE DEF d
  <2>5. QED
    BY <1>0, <2>1, <2>2, <2>4, OneMoves, <1>n
<1>4. ASSUME NEW c \in Caller, SendReq(c) \/ SendReqFails(c) \/ AnsweredBefore(c) PROVE SlotInv'
  <2>1. /\ pc[c] \in {"filled", "sent"}
        /\ UNCHANGED <<slots, in_use, slot_in_use, select_id, ind, got>>
    BY <1>4 DEF SendReq, SendReqFails, MayBeTaken, AnsweredBefore, Goes
  <2>2. PICK q \in {"sent", "freeing"} :
            pc' = [pc EXCEPT ![c] = q] /\ (q = "sent" => pc[c] = "filled")
    BY <1>4 DEF SendReq, SendReqFails, MayBeTaken, AnsweredBefore, Goes
  <2>3. Data(c)' = Data(c) /\ CallerFits(c) /\ pc'[c] = q
    BY <2>1, <2>2 DEF Data, SlotInv
  <2>4. CallerFits(c)'
    BY <2>1, <2>2, <2>3 DEF CallerFits
  <2>5. slots' = [slots EXCEPT ![select_id[c]] = Data(c)] /\ Data(c) \in SlotData
    BY <2>1 DEF Data
  <2>6. Data(c).ptr = c
    BY <2>1, <2>3 DEF CallerFits
  <2>7. QED
    BY <1>0, <2>1, <2>2, <2>4, <2>5, <2>6, OneMoves, <1>n
<1>5. ASSUME NEW c \in Caller, Wait(c) PROVE SlotInv'
  <2> DEFINE d == [Data(c) EXCEPT !.waiting = TRUE]
  <2>1. /\ pc[c] = "sent" /\ pc' = [pc EXCEPT ![c] = "waiting"] /\ ~Data(c).arrived
        /\ slots' = [slots EXCEPT ![select_id[c]] = d]
        /\ UNCHANGED <<in_use, slot_in_use, select_id, ind, got>>
    BY <1>5 DEF Wait, Goes
  <2>2. Data(c) \in SlotData /\ CallerFits(c)
    BY DEF Data, SlotInv
  <2>3. d \in SlotData /\ d.ptr = c /\ d.ind = ind[c]
        /\ d.waiting /\ d.arrived = Data(c).arrived /\ d.signalled = Data(c).signalled
    BY <2>1, <2>2 DEF SlotData, CallerFits
  <2>4. Data(c)' = d /\ pc'[c] = "waiting"
    BY <2>1 DEF Data
  <2>5. CallerFits(c)'
    BY <2>1, <2>2, <2>3, <2>4 DEF CallerFits
  <2> HIDE DEF d
  <2>6. QED
    BY <1>0, <2>1, <2>3, <2>5, OneMoves, <1>n
<1>6. ASSUME NEW c \in Caller, Woken(c) \/ WokenOddly(c) \/ TimedOut(c) PROVE SlotInv'
  <2> DEFINE d == [Data(c) EXCEPT !.waiting = FALSE, !.signalled = FALSE]
  <2>1. /\ pc[c] = "waiting" /\ pc' = [pc EXCEPT ![c] = "freeing"]
        /\ slots' = [slots EXCEPT ![select_id[c]] = d]
        /\ UNCHANGED <<in_use, slot_in_use, select_id, ind, got>>
    BY <1>6 DEF Woken, WokenOddly, TimedOut, WaitEnds, Goes
  <2>2. Data(c) \in SlotData /\ CallerFits(c)
    BY DEF Data, SlotInv
  <2>3. d \in SlotData /\ d.ptr = c /\ d.ind = ind[c] /\ ~d.waiting /\ ~d.signalled
    BY <2>1, <2>2 DEF SlotData, CallerFits
  <2>4. Data(c)' = d /\ pc'[c] = "freeing"
    BY <2>1 DEF Data
  <2>5. CallerFits(c)'
    BY <2>1, <2>3, <2>4 DEF CallerFits
  <2> HIDE DEF d
  <2>6. QED
    BY <1>0, <2>1, <2>3, <2>5, OneMoves, <1>n
<1>7. ASSUME NEW c \in Caller, FreeSlot(c) PROVE SlotInv'
  <2>1. /\ pc[c] = "freeing" /\ pc' = [pc EXCEPT ![c] = "idle"]
        /\ slot_in_use' = [slot_in_use EXCEPT ![select_id[c]] = FALSE]
        /\ slots' = [slots EXCEPT ![select_id[c]] = FreeData]
        /\ in_use' = \E s \in Slots : slot_in_use'[s]
        /\ select_id' = [select_id EXCEPT ![c] = 0]
        /\ UNCHANGED <<ind, got>>
    BY <1>7 DEF FreeSlot, Goes
  <2>2. \A x \in Caller \ {c} : Running(x) => select_id[x] # select_id[c]
    BY <2>1 DEF SlotInv, SlotHasCaller
  <2>3. FreeData.ptr = None
    BY DEF FreeData
  <2>4. SlotHasCaller'
    <3>1. \A s \in Slots : slots'[s].ptr # None =>
              slots'[s].ptr \in Caller /\ slots'[s].ptr # c /\ s # select_id[c]
                /\ slots'[s] = slots[s]
      BY <2>1, <2>3 DEF SlotInv, SlotHasCaller, SlotData
    <3>2. QED
      BY <2>1, <2>2, <3>1 DEF SlotInv, SlotHasCaller
  <2>5. InUseFits' /\ \A s \in Slots : ~slot_in_use'[s] => slots'[s] = FreeData
    BY <2>1 DEF SlotInv, InUseFits
  <2>6. \A x \in Caller : CallerFits(x)'
    BY <2>1, <2>2 DEF SlotInv, CallerFits, Data
  <2>7. QED
    BY <1>n, <2>4, <2>5, <2>6 DEF SlotInv
<1>8. ASSUME NEW a \in air, IndTaken(a) PROVE SlotInv'
  <2>1. PICK s \in Matching(a) :
            /\ got' = [got EXCEPT ![slots[s].ptr] = a.call]
            /\ slots' = [slots EXCEPT ![s] = IF slots[s].waiting
                                           THEN [slots[s] EXCEPT !.signalled = TRUE]
                                           ELSE [slots[s] EXCEPT !.arrived = TRUE]]
    BY <1>8 DEF IndTaken
  <2> DEFINE c == slots[s].ptr
             d == IF slots[s].waiting THEN [slots[s] EXCEPT !.signalled = TRUE]
                                      ELSE [slots[s] EXCEPT !.arrived = TRUE]
  <2>2. s \in Slots /\ slot_in_use[s] /\ slots[s].ind = a.ind /\ ~slots[s].arrived
    BY DEF Matching
  <2>3. PICK x \in Caller : Running(x) /\ select_id[x] = s
    BY <2>2 DEF SlotInv, SlotHasCaller
  <2>4. x = c /\ Data(x) = slots[s] /\ CallerFits(x) /\ pc[x] # "alloc"
    <3>1. CallerFits(x) /\ Data(x) = slots[s]
      BY <2>3 DEF SlotInv, Data
    <3>2. pc[x] # "alloc"
      BY <2>2, <3>1 DEF SlotInv, Named, CallerFits, FreeData
    <3>3. pc[x] \in {"filled", "sent", "waiting", "freeing"}
      BY <2>3, <3>2 DEF Places
    <3>4. QED
      BY <3>1, <3>2, <3>3 DEF CallerFits
  <2>5. /\ d \in SlotData /\ d.ptr = x /\ d.ind = slots[s].ind /\ d.waiting = slots[s].waiting
        /\ d.arrived = (~slots[s].waiting) /\ d.signalled = (slots[s].waiting \/ slots[s].signalled)
    <3>1. slots[s] \in SlotData
      BY <2>2
    <3>2. CASE slots[s].waiting
      BY <2>2, <2>4, <3>1, <3>2 DEF SlotData
    <3>3. CASE ~slots[s].waiting
      BY <2>2, <2>4, <3>1, <3>3 DEF SlotData
    <3>4. QED
      BY <3>2, <3>3
  <2>6. /\ UNCHANGED <<in_use, slot_in_use, select_id, ind, pc>>
        /\ slots' = [slots EXCEPT ![select_id[x]] = d] /\ got' = [got EXCEPT ![x] = a.call]
    BY <1>8, <2>1, <2>3, <2>4 DEF IndTaken, thread
  <2>7. Data(x)' = d /\ got'[x] = a.call /\ pc'[x] = pc[x]
    BY <2>6 DEF Data
  <2>8. a.call # NULL
    BY DEF SlotInv, Named
  <2>9. CallerFits(x)'
    BY <2>2, <2>3, <2>4, <2>5, <2>6, <2>7, <2>8 DEF CallerFits
  <2> HIDE DEF c, d
  <2>10. QED
    <3>1. pc' = [pc EXCEPT ![x] = pc[x]] /\ pc[x] \in Places /\ pc[x] # "idle"
      BY <2>3, <2>6
    <3>2. \A y \in Caller \ {x} : got'[y] = got[y]
      BY <2>6
    <3>3. QED
      BY <1>n, <2>3, <2>5, <2>6, <2>9, <3>1, <3>2, OneMoves
<1>9. ASSUME NEW a \in air, IndDropped(a) PROVE SlotInv'
  <2>1. in_use' = in_use
    BY <1>9 DEF IndDropped, SlotInv, InUseFits
  <2>2. QED
    BY <1>n, <1>9, <2>1 DEF IndDropped, thread, SlotInv, SlotHasCaller, InUseFits, CallerFits, Data
<1>10. ASSUME UNCHANGED vars PROVE SlotInv'
  BY <1>n, <1>10 DEF vars, thread, SlotInv, SlotHasCaller, InUseFits, CallerFits, Data
<1>11. QED
  BY <1>1, <1>2, <1>3, <1>4, <1>5, <1>6, <1>7, <1>8, <1>9, <1>10 DEF Next, Thread

LEMMA AnswerInit == Init => AnswerInv
BY SizeAssumption DEF Init, AnswerInv, OneTakerPerAnswer, AnswerIsOwn

(* A thread that runs goes on: what it was given counts, or it gives up.   *)
LEMMA LocalMoves ==
    ASSUME TypeOK, AnswerInv, NEW c \in Caller, NEW q, Running(c),
           pc' = [pc EXCEPT ![c] = q],
           UNCHANGED <<calls, call, ind, got, air>>, disturbed \subseteq disturbed',
           q \in {"alloc", "filled"} => pc[c] \in {"alloc", "filled"},
           pc[c] \in {"sent", "waiting"} /\ got[c] = NULL /\ ind[c] \notin disturbed' =>
              q \in {"sent", "waiting"}
    PROVE  AnswerInv'
<1> USE DEF TypeOK
<1>1. \A x \in Caller : x # c => pc'[x] = pc[x]
  OBVIOUS
<1>2. pc'[c] = q
  OBVIOUS
<1>3. ASSUME NEW a \in air, a.ind \notin disturbed'
      PROVE  \E x \in Caller : /\ call[x] = a.call /\ ind[x] = a.ind
                               /\ pc'[x] \in {"sent", "waiting"} /\ got[x] = NULL
  <2>1. PICK x \in Caller : /\ call[x] = a.call /\ ind[x] = a.ind
                            /\ pc[x] \in {"sent", "waiting"} /\ got[x] = NULL
    BY <1>3 DEF AnswerInv
  <2>2. pc'[x] \in {"sent", "waiting"}
    BY <1>1, <1>2, <1>3, <2>1
  <2>3. QED
    BY <2>1, <2>2
<1>4. \A x, y \in Caller :
        Running(x)' /\ Running(y)' /\ ind[x] = ind[y] /\ ind[x] \notin disturbed' => x = y
  BY <1>1 DEF AnswerInv
<1>5. \A x \in Caller : pc'[x] \in {"alloc", "filled"} =>
          /\ \A a \in air : a.call # call[x]
          /\ \A y \in Caller : got[y] # call[x]
  BY <1>1, <1>2 DEF AnswerInv
<1>6. OneTakerPerAnswer' /\ AnswerIsOwn'
  BY DEF AnswerInv, OneTakerPerAnswer, AnswerIsOwn
<1>7. /\ \A x \in Caller : call[x] <= calls /\ got[x] <= calls
      /\ \A x, y \in Caller : call[x] = call[y] /\ call[x] # NULL => x = y
      /\ \A a \in air : a.call <= calls /\ \A x \in Caller : got[x] # a.call
      /\ \A a, b \in air : a.call = b.call => a = b
  BY DEF AnswerInv
<1> HIDE DEF TypeOK
<1>8. QED
  BY <1>3, <1>4, <1>5, <1>6, <1>7 DEF AnswerInv

(* Every step keeps the invariant of the answers.                          *)
LEMMA AnswerStep == TypeOK /\ SlotInv /\ AnswerInv /\ [Next]_vars => AnswerInv'
<1> SUFFICES ASSUME TypeOK, SlotInv, AnswerInv, [Next]_vars PROVE AnswerInv'
  OBVIOUS
<1> USE SizeAssumption DEF TypeOK
<1>1. ASSUME NEW c \in Caller, NEW i \in IndId, AllocSlot(c, i) \/ BufferFull(c, i)
      PROVE  AnswerInv'
  <2>1. /\ calls' = calls + 1 /\ call' = [call EXCEPT ![c] = calls + 1]
        /\ ind' = [ind EXCEPT ![c] = i] /\ got' = [got EXCEPT ![c] = NULL]
        /\ air' = air /\ pc[c] = "idle" /\ calls \in Nat
        /\ \A x \in Caller : x # c => pc'[x] = pc[x]
    BY <1>1 DEF AllocSlot, BufferFull, Begins
  <2>2. /\ disturbed \subseteq disturbed'
        /\ pc'[c] # "idle" => i \in disturbed' \/ \A d \in Caller : ~(Running(d) /\ ind[d] = i)
    <3>1. CASE AllocSlot(c, i)
      BY <3>1 DEF AllocSlot
    <3>2. CASE BufferFull(c, i)
      BY <2>1, <3>2 DEF BufferFull
    <3>3. QED
      BY <1>1, <3>1, <3>2
  <2>3. \A x \in Caller : call'[x] <= calls' /\ got'[x] <= calls'
    BY <2>1 DEF AnswerInv
  <2>4. \A x, y \in Caller : call'[x] = call'[y] /\ call'[x] # NULL => x = y
    BY <2>1 DEF AnswerInv
  <2>5. ASSUME NEW x \in Caller, pc'[x] \in {"alloc", "filled"}
        PROVE  /\ \A a \in air' : a.call # call'[x]
               /\ \A y \in Caller : got'[y] # call'[x]
    <3>1. CASE x = c
      <4>1. \A a \in air : a.call # calls + 1
        <5>1. \A a \in air : a.call <= calls /\ a.call \in Nat
          BY DEF AnswerInv, Answer
        <5>2. QED
          BY <2>1, <5>1
      <4>2. \A y \in Caller : got'[y] # calls + 1
        BY <2>1 DEF AnswerInv
      <4>3. QED
        BY <2>1, <3>1, <4>1, <4>2
    <3>2. CASE x # c
      <4>1. pc[x] \in {"alloc", "filled"} /\ call'[x] = call[x] /\ call[x] # NULL
        BY <2>1, <2>5, <3>2 DEF SlotInv, Named
      <4>2. QED
        BY <2>1, <4>1 DEF AnswerInv
    <3>3. QED
      BY <3>1, <3>2
  <2>6. \A a \in air' : a.call <= calls' /\ \A x \in Caller : got'[x] # a.call
    <3>1. \A a \in air : a.call <= calls /\ a.call \in Nat /\ a.call # NULL
      BY DEF AnswerInv, Answer, SlotInv, Named
    <3>2. QED
      BY <2>1, <3>1 DEF AnswerInv
  <2>7. \A a, b \in air' : a.call = b.call => a = b
    BY <2>1 DEF AnswerInv
  <2>8. \A x, y \in Caller :
          Running(x)' /\ Running(y)' /\ ind'[x] = ind'[y] /\ ind'[x] \notin disturbed' => x = y
    BY <2>1, <2>2 DEF AnswerInv
  <2>9. ASSUME NEW a \in air', a.ind \notin disturbed'
        PROVE  \E x \in Caller : /\ call'[x] = a.call /\ ind'[x] = a.ind
                                 /\ pc'[x] \in {"sent", "waiting"} /\ got'[x] = NULL
    <3>1. PICK x \in Caller : /\ call[x] = a.call /\ ind[x] = a.ind
                              /\ pc[x] \in {"sent", "waiting"} /\ got[x] = NULL
      BY <2>1, <2>2, <2>9 DEF AnswerInv
    <3>2. x # c
      BY <2>1, <3>1
    <3>3. QED
      BY <2>1, <3>1, <3>2
  <2>10. OneTakerPerAnswer' /\ AnswerIsOwn'
    BY <2>1, <2>2 DEF AnswerInv, OneTakerPerAnswer, AnswerIsOwn
  <2>11. QED
    BY <2>3, <2>4, <2>5, <2>6, <2>7, <2>8, <2>9, <2>10 DEF AnswerInv
<1>2. ASSUME NEW c \in Caller, FillSlot(c) \/ Wait(c) \/ FreeSlot(c)
      PROVE  AnswerInv'
  <2>1. UNCHANGED <<calls, call, ind, got, air, disturbed>>
    BY <1>2 DEF FillSlot, Wait, FreeSlot, ghost
  <2>2. \/ pc[c] = "alloc" /\ pc' = [pc EXCEPT ![c] = "filled"]
        \/ pc[c] = "sent" /\ pc' = [pc EXCEPT ![c] = "waiting"]
        \/ pc[c] = "freeing" /\ pc' = [pc EXCEPT ![c] = "idle"]
    BY <1>2 DEF FillSlot, Wait, FreeSlot, Goes
  <2>3. QED
    BY <2>1, <2>2, LocalMoves
<1>3. ASSUME NEW c \in Caller,
             AnsweredBefore(c) \/ Woken(c) \/ WokenOddly(c) \/ TimedOut(c)
      PROVE  AnswerInv'
  <2>1. /\ pc[c] \in {"sent", "waiting"} /\ pc' = [pc EXCEPT ![c] = "freeing"]
        /\ UNCHANGED <<calls, call, ind, got, air>> /\ disturbed \subseteq disturbed'
    BY <1>3 DEF AnsweredBefore, Woken, WokenOddly, TimedOut, WaitEnds, Goes, ghost
  <2>2. CallerFits(c)
    BY DEF SlotInv
  <2>3. got[c] # NULL \/ ind[c] \in disturbed'
    <3>1. CASE AnsweredBefore(c)
      BY <2>2, <3>1 DEF AnsweredBefore, Goes, CallerFits
    <3>2. CASE Woken(c)
      BY <2>2, <3>2 DEF Woken, WaitEnds, Goes, CallerFits
    <3>3. CASE WokenOddly(c) \/ TimedOut(c)
      BY <3>3 DEF WokenOddly, TimedOut
    <3>4. QED
      BY <1>3, <3>1, <3>2, <3>3
  <2>4. QED
    BY <2>1, <2>3, LocalMoves
<1>4. ASSUME NEW c \in Caller, SendReq(c) \/ SendReqFails(c) PROVE AnswerInv'
  <2> DEFINE n == [call |-> call[c], ind |-> ind[c]]
  <2>1. PICK q \in {"sent", "freeing"} :
           /\ pc[c] = "filled" /\ pc' = [pc EXCEPT ![c] = q]
           /\ air' = air \/ (air' = air \cup {n} /\ (q = "sent" \/ ind[c] \in disturbed'))
           /\ UNCHANGED <<calls, call, ind, got>> /\ disturbed \subseteq disturbed'
    <3>1. CASE SendReq(c)
      BY <3>1 DEF SendReq, Goes, ghost
    <3>2. CASE SendReqFails(c)
      <4>1. /\ air' = air \/ (air' = air \cup {n} /\ ind[c] \in disturbed')
            /\ UNCHANGED <<calls, call, ind, got>> /\ disturbed \subseteq disturbed'
        BY <3>2 DEF SendReqFails, MayBeTaken
      <4>2. pc[c] = "filled" /\ pc' = [pc EXCEPT ![c] = "freeing"]
        BY <3>2 DEF SendReqFails, Goes
      <4>3. QED
        BY <4>1, <4>2
    <3>3. QED
      BY <1>4, <3>1, <3>2
  <2>2. n.call = call[c] /\ n.ind = ind[c]
    OBVIOUS
  <2> HIDE DEF n
  <2>3. /\ \A a \in air : a.call # call[c]
        /\ \A d \in Caller : got[d] # call[c]
        /\ call[c] <= calls /\ call[c] # NULL
    BY <2>1 DEF AnswerInv, SlotInv, Named
  <2>4. \A x \in Caller : pc'[x] \in {"alloc", "filled"} => x # c /\ pc[x] \in {"alloc", "filled"}
    BY <2>1
  <2>5. \A x \in Caller : x # c => call[x] # call[c]
    BY <2>3 DEF AnswerInv
  <2>6. \A x \in Caller : pc'[x] \in {"alloc", "filled"} =>
          /\ \A a \in air' : a.call # call[x]
          /\ \A d \in Caller : got[d] # call[x]
    BY <2>1, <2>2, <2>4, <2>5 DEF AnswerInv
  <2>7. \A a \in air' : a.call <= calls /\ \A x \in Caller : got[x] # a.call
    BY <2>1, <2>2, <2>3 DEF AnswerInv
  <2>8. \A a, b \in air' : a.call = b.call => a = b
    BY <2>1, <2>2, <2>3 DEF AnswerInv
  <2>9. \A x, y \in Caller :
          Running(x)' /\ Running(y)' /\ ind[x] = ind[y] /\ ind[x] \notin disturbed' => x = y
    BY <2>1 DEF AnswerInv
  <2>10. ASSUME NEW a \in air', a.ind \notin disturbed'
         PROVE  \E x \in Caller : /\ call[x] = a.call /\ ind[x] = a.ind
                                  /\ pc'[x] \in {"sent", "waiting"} /\ got[x] = NULL
    <3>1. CASE a \in air
      <4>1. PICK x \in Caller : /\ call[x] = a.call /\ ind[x] = a.ind
                                /\ pc[x] \in {"sent", "waiting"} /\ got[x] = NULL
        BY <2>1, <2>10, <3>1 DEF AnswerInv
      <4>2. pc'[x] = pc[x]
        BY <2>1, <4>1
      <4>3. QED
        BY <4>1, <4>2
    <3>2. CASE a = n /\ a \notin air
      <4>1. got[c] = NULL
        BY <2>1, <2>2, <2>3, <2>10, <3>2 DEF AnswerInv, AnswerIsOwn
      <4>2. q = "sent"
        BY <2>1, <2>2, <2>10, <3>2
      <4>3. QED
        BY <2>1, <2>2, <3>2, <4>1, <4>2
    <3>3. QED
      BY <2>1, <3>1, <3>2
  <2>11. OneTakerPerAnswer' /\ AnswerIsOwn'
    BY <2>1 DEF AnswerInv, OneTakerPerAnswer, AnswerIsOwn
  <2>12. /\ \A x \in Caller : call[x] <= calls /\ got[x] <= calls
         /\ \A x, y \in Caller : call[x] = call[y] /\ call[x] # NULL => x = y
    BY DEF AnswerInv
  <2> HIDE DEF TypeOK
  <2>13. QED
    BY <2>1, <2>6, <2>7, <2>8, <2>9, <2>10, <2>11, <2>12 DEF AnswerInv
<1>5. ASSUME NEW a \in air, IndTaken(a) PROVE AnswerInv'
  <2>1. PICK s \in Matching(a) : got' = [got EXCEPT ![slots[s].ptr] = a.call]
    BY <1>5 DEF IndTaken
  <2>2. /\ UNCHANGED <<calls, pc, call, ind, disturbed>> /\ air' = air \ {a}
    BY <1>5 DEF IndTaken, thread, ghost
  <2>3. s \in Slots /\ slot_in_use[s] /\ slots[s].ind = a.ind
    BY DEF Matching
  <2>4. PICK c \in Caller : Running(c) /\ slots[s].ptr = c /\ ind[c] = a.ind
    <3>1. PICK x \in Caller : Running(x) /\ select_id[x] = s
      BY <2>3 DEF SlotInv, SlotHasCaller
    <3>2. CallerFits(x) /\ Data(x) = slots[s]
      BY <3>1 DEF SlotInv, Data
    <3>3. pc[x] # "alloc"
      BY <2>3, <3>2 DEF SlotInv, Named, CallerFits, FreeData
    <3>4. pc[x] \in {"filled", "sent", "waiting", "freeing"}
      BY <3>1, <3>3 DEF Places
    <3>5. QED
      BY <2>3, <3>1, <3>2, <3>4 DEF CallerFits
  <2>5. /\ a.call <= calls /\ \A x \in Caller : got[x] # a.call
        /\ \A b \in air' : b.call # a.call
    BY <2>2 DEF AnswerInv
  <2>6. got'[c] = a.call /\ \A x \in Caller : x # c => got'[x] = got[x]
    BY <2>1, <2>4
  <2>7. \A x \in Caller : call[x] <= calls /\ got'[x] <= calls
    BY <2>5, <2>6 DEF AnswerInv
  <2>8. \A x \in Caller : pc[x] \in {"alloc", "filled"} =>
          /\ \A b \in air' : b.call # call[x]
          /\ \A d \in Caller : got'[d] # call[x]
    BY <2>2, <2>6 DEF AnswerInv
  <2>9. \A b \in air' : b.call <= calls /\ \A x \in Caller : got'[x] # b.call
    BY <2>2, <2>5, <2>6 DEF AnswerInv
  <2>10. a.ind \notin disturbed => call[c] = a.call
    <3>1. SUFFICES ASSUME a.ind \notin disturbed PROVE call[c] = a.call
      OBVIOUS
    <3>2. PICK x \in Caller : /\ call[x] = a.call /\ ind[x] = a.ind
                              /\ pc[x] \in {"sent", "waiting"}
      BY <3>1 DEF AnswerInv
    <3>3. x = c
      BY <2>4, <3>1, <3>2 DEF AnswerInv
    <3>4. QED
      BY <3>2, <3>3
  <2>11. ASSUME NEW b \in air', b.ind \notin disturbed
         PROVE  \E x \in Caller : /\ call[x] = b.call /\ ind[x] = b.ind
                                  /\ pc[x] \in {"sent", "waiting"} /\ got'[x] = NULL
    <3>1. PICK x \in Caller : /\ call[x] = b.call /\ ind[x] = b.ind
                              /\ pc[x] \in {"sent", "waiting"} /\ got[x] = NULL
      BY <2>2, <2>11 DEF AnswerInv
    <3>2. x # c
      <4>1. SUFFICES ASSUME x = c PROVE FALSE
        OBVIOUS
      <4>2. call[c] = a.call /\ call[c] = b.call
        BY <2>4, <2>10, <2>11, <3>1, <4>1
      <4>3. QED
        BY <2>5, <4>2
    <3>3. QED
      BY <2>6, <3>1, <3>2
  <2>12. OneTakerPerAnswer'
    <3>1. ASSUME NEW x \in Caller, NEW y \in Caller, got'[x] = got'[y], got'[x] # NULL
          PROVE  x = y
      <4>1. CASE x # c /\ y # c
        BY <2>6, <3>1, <4>1 DEF AnswerInv, OneTakerPerAnswer
      <4>2. CASE x = c /\ y # c
        <5>1. got'[x] = a.call /\ got'[y] = got[y]
          BY <2>6, <4>2
        <5>2. QED
          BY <2>5, <3>1, <5>1
      <4>3. CASE x # c /\ y = c
        <5>1. got'[y] = a.call /\ got'[x] = got[x]
          BY <2>6, <4>3
        <5>2. QED
          BY <2>5, <3>1, <5>1
      <4>4. QED
        BY <4>1, <4>2, <4>3
    <3>2. QED
      BY <3>1 DEF OneTakerPerAnswer
  <2>13. ASSUME NEW x \in Caller, ind[x] \notin disturbed PROVE got'[x] \in {NULL, call[x]}
    <3>1. CASE x = c
      BY <2>4, <2>6, <2>10, <2>13, <3>1
    <3>2. CASE x # c
      BY <2>6, <2>13, <3>2 DEF AnswerInv, AnswerIsOwn
    <3>3. QED
      BY <3>1, <3>2
  <2>14. AnswerIsOwn'
    BY <2>2, <2>13 DEF AnswerIsOwn
  <2>15. /\ \A x, y \in Caller : call[x] = call[y] /\ call[x] # NULL => x = y
         /\ \A b, d \in air' : b.call = d.call => b = d
         /\ \A x, y \in Caller :
               Running(x) /\ Running(y) /\ ind[x] = ind[y] /\ ind[x] \notin disturbed => x = y
    BY <2>2 DEF AnswerInv
  <2> HIDE DEF TypeOK
  <2>16. QED
    BY <2>2, <2>7, <2>8, <2>9, <2>11, <2>12, <2>14, <2>15 DEF AnswerInv
<1>6. ASSUME NEW a \in air, IndDropped(a) PROVE AnswerInv'
  BY <1>6 DEF IndDropped, thread, ghost, AnswerInv, OneTakerPerAnswer, AnswerIsOwn
<1>7. ASSUME UNCHANGED vars PROVE AnswerInv'
  BY <1>7 DEF vars, thread, ghost, AnswerInv, OneTakerPerAnswer, AnswerIsOwn
<1>8. QED
  BY <1>1, <1>2, <1>3, <1>4, <1>5, <1>6, <1>7 DEF Next, Thread

(* The types of loc_sync_array and of the calls are kept.                  *)
THEOREM TypeCorrect == Spec => []TypeOK
BY TypeInit, TypeStep, PTL DEF Spec

(* Of loc_alloc_slot, loc_sync_select_ind, loc_sync_wait_for_ind and       *)
(* loc_free_slot: the inductive invariant of the slots.                    *)
THEOREM SlotInvariant == Spec => []SlotInv
BY TypeInit, TypeStep, SlotInit, SlotStep, PTL DEF Spec

(* A slot in use belongs to one call, and loc_sync_process_ind writes only *)
(* into the buffer of a call that has not returned                         *)
(* (loc_api_sync_req.c:188-205).                                           *)
THEOREM SlotsHaveCallers == Spec => []SlotHasCaller
BY SlotInvariant, PTL DEF SlotInv

(* in_use is set exactly while a slot is in use                            *)
(* (loc_api_sync_req.c:169-175, 264, 313-322).                             *)
THEOREM InUseAlwaysFits == Spec => []InUseFits
BY SlotInvariant, PTL DEF SlotInv

(* -EINVAL and -EBUSY are never returned, and no answer that came early is *)
(* forgotten (loc_api_sync_req.c:409-441).                                 *)
THEOREM WaitsNeverRefused == Spec => []WaitNeverRefused
<1>1. TypeOK /\ SlotInv => WaitNeverRefused
  BY DEF TypeOK, SlotInv, SlotHasCaller, CallerFits, WaitNeverRefused
<1>2. QED
  BY <1>1, TypeCorrect, SlotInvariant, PTL

(* One answer ends one call, and without overlaps and timeouts it is that  *)
(* of the call (loc_api_sync_req.c:180-225).                               *)
THEOREM AnswerInvariant == Spec => []AnswerInv
<1>1. TypeOK /\ SlotInv /\ AnswerInv /\ [Next]_vars => AnswerInv'
  BY AnswerStep
<1>2. QED
  BY <1>1, AnswerInit, TypeCorrect, SlotInvariant, PTL DEF Spec

(* Without overlaps and timeouts the answer a call gets is its own         *)
(* (loc_api_sync_req.c:180-225).                                           *)
THEOREM AnswersAreOwn == Spec => []AnswerIsOwn
BY AnswerInvariant, PTL DEF AnswerInv

(* One answer ends one call, also when calls overlap or time out           *)
(* (loc_api_sync_req.c:207-222, the search ends with the first slot).      *)
THEOREM AnswersTakenOnce == Spec => []OneTakerPerAnswer
BY AnswerInvariant, PTL DEF AnswerInv

(* A call that had a slot reports success only with an answer in its       *)
(* buffer or after a wake nobody signalled (loc_api_sync_req.c:409-446).   *)
THEOREM SuccessesAreAnswered == Spec => []SuccessIsAnswered
<1>1. Init => SuccessIsAnswered
  BY DEF Init, SuccessIsAnswered
<1>2. ASSUME TypeOK, SlotInv, SuccessIsAnswered, [Next]_vars PROVE SuccessIsAnswered'
  <2> DEFINE Fine(x) == pc[x] = "freeing" /\ result[x] = "success" =>
                           got[x] # NULL \/ x \in oddly
  <2> USE <1>2 DEF TypeOK
  <2>1. ASSUME NEW c \in Caller, NEW i \in IndId, AllocSlot(c, i) \/ BufferFull(c, i),
               NEW x \in Caller
        PROVE  Fine(x)'
    <3>1. pc'[c] # "freeing"
      BY <2>1 DEF AllocSlot, BufferFull, Begins
    <3>2. x # c => pc'[x] = pc[x] /\ result'[x] = result[x] /\ got'[x] = got[x]
                   /\ (x \in oddly => x \in oddly')
      BY <2>1 DEF AllocSlot, BufferFull, Begins
    <3>3. QED
      BY <3>1, <3>2 DEF SuccessIsAnswered
  <2>2. ASSUME NEW c \in Caller, FillSlot(c) \/ SendReq(c) \/ Wait(c) \/ FreeSlot(c),
               NEW x \in Caller
        PROVE  Fine(x)'
    <3>1. pc'[c] # "freeing" /\ UNCHANGED <<result, got, oddly>>
      BY <2>2 DEF FillSlot, SendReq, Wait, FreeSlot, Goes, ghost
    <3>2. x # c => pc'[x] = pc[x]
      BY <2>2 DEF FillSlot, SendReq, Wait, FreeSlot, Goes
    <3>3. QED
      BY <3>1, <3>2 DEF SuccessIsAnswered
  <2>3. ASSUME NEW c \in Caller, NEW x \in Caller,
               SendReqFails(c) \/ AnsweredBefore(c) \/ Woken(c) \/ WokenOddly(c) \/ TimedOut(c)
        PROVE  Fine(x)'
    <3>1. /\ x # c => pc'[x] = pc[x] /\ result'[x] = result[x]
          /\ got' = got /\ oddly \subseteq oddly'
      BY <2>3 DEF SendReqFails, MayBeTaken, AnsweredBefore, Woken, WokenOddly, TimedOut, WaitEnds,
        Goes, ghost
    <3>2. CASE SendReqFails(c) \/ TimedOut(c)
      <4>1. result'[c] # "success"
        BY <3>2 DEF SendReqFails, MayBeTaken, TimedOut, WaitEnds
      <4>2. QED
        BY <3>1, <4>1 DEF SuccessIsAnswered
    <3>3. CASE AnsweredBefore(c) \/ Woken(c)
      <4>1. CallerFits(c)
        BY DEF SlotInv
      <4>2. got[c] # NULL
        BY <3>3, <4>1 DEF CallerFits, AnsweredBefore, Woken, WaitEnds, Goes
      <4>3. QED
        BY <3>1, <4>2 DEF SuccessIsAnswered
    <3>4. CASE WokenOddly(c)
      <4>1. c \in oddly'
        BY <3>4 DEF WokenOddly
      <4>2. QED
        BY <3>1, <4>1 DEF SuccessIsAnswered
    <3>5. QED
      BY <2>3, <3>2, <3>3, <3>4
  <2>4. ASSUME NEW a \in air, IndTaken(a) \/ IndDropped(a), NEW x \in Caller
        PROVE  Fine(x)'
    <3>1. UNCHANGED <<pc, result, oddly>>
      BY <2>4 DEF IndTaken, IndDropped, thread, ghost
    <3>2. got[x] # NULL => got'[x] # NULL
      <4>1. CASE IndDropped(a)
        BY <4>1 DEF IndDropped
      <4>2. CASE IndTaken(a)
        <5>1. a.call # NULL
          BY DEF SlotInv, Named
        <5>2. PICK s \in Slots : got' = [got EXCEPT ![slots[s].ptr] = a.call]
          BY <4>2 DEF IndTaken, Matching
        <5>3. QED
          BY <5>1, <5>2
      <4>3. QED
        BY <2>4, <4>1, <4>2
    <3>3. QED
      BY <3>1, <3>2 DEF SuccessIsAnswered
  <2>5. ASSUME UNCHANGED vars, NEW x \in Caller PROVE Fine(x)'
    BY <2>5 DEF vars, thread, ghost, SuccessIsAnswered
  <2>6. ASSUME NEW x \in Caller PROVE Fine(x)'
    BY <2>1, <2>2, <2>3, <2>4, <2>5 DEF Next, Thread
  <2>7. QED
    BY <2>6 DEF SuccessIsAnswered
<1>3. QED
  BY <1>1, <1>2, TypeCorrect, SlotInvariant, PTL DEF Spec

-----------------------------------------------------------------------------
(* The messages of a request and of an event.                              *)

(* The client has its copy of the modem's mask, except while it is being   *)
(* registered.                                                             *)
MaskKept == at \in {"idle", "waiting"} => kept = reg

(* The answer to the request that is waited for is still due, on its way   *)
(* or in the slot.                                                         *)
OnWire(r) == \E i \in 1 .. Len(wire) : wire[i] = r
AnswerDue ==
    at = "waiting" =>
        /\ req \in SyncReqs /\ slot \in {Nothing, req}
        /\ req \in owed \/ OnWire(req) \/ slot = req

MessageInv == MessageTypeOK /\ MaskKept /\ AnswerDue

(* Every message finds its entries: an event that a bit below 9 stands for *)
(* is known, handled and has a case in eventCb; an answer to a request of  *)
(* LocApiV02 is known, handled and taken for no event.                     *)
LEMMA TablesAgree ==
    /\ \A b \in 0 .. 20 : Meant(b) \subseteq EventTable
    /\ \A b \in 0 .. 20 : b <= 8 => Meant(b) \subseteq Handled \cap Dispatched
    /\ SyncReqs \subseteq RespTable \cap Handled
    /\ SyncReqs \cap EventTable = {}
    /\ Nothing \notin RespTable
<1>1. \A b \in 0 .. 20 : Meant(b) \subseteq EventTable
  <2>1. ASSUME NEW n \in 1 .. 21 PROVE Meanings[n] \subseteq EventTable
    BY DEF Meanings, EventTable
  <2> QED
    BY <2>1 DEF Meant
<1>2. \A b \in 0 .. 20 : b <= 8 => Meant(b) \subseteq Handled \cap Dispatched
  <2>1. ASSUME NEW n \in 1 .. 9 PROVE Meanings[n] \subseteq EventTable \cap Dispatched
    BY DEF Meanings, EventTable, Dispatched
  <2> QED
    BY <2>1 DEF Meant, Handled, HandledEvents
<1>3. SyncReqs \subseteq RespTable
  BY DEF SyncReqs, RespTable, RespTableInject, RespTableConfig
<1>4. SyncReqs \subseteq Handled
  BY DEF SyncReqs, Handled, HandledAnswers, HandledStatus
<1>5. SyncReqs \cap EventTable = {}
  BY DEF SyncReqs, EventTable
<1>6. Nothing \notin RespTable
  BY DEF Nothing, RespTable, RespTableInject, RespTableConfig
<1> QED
  BY <1>1, <1>2, <1>3, <1>4, <1>5, <1>6

(* The modem is asked for events the client knows only.                    *)
LEMMA CappedIsKnown == \A bits : \A session \in BOOLEAN : Capped(bits, session) \subseteq EventTable
<1>1. \A bits : ConvertMask(bits) \subseteq EventTable
  BY TablesAgree DEF ConvertMask
<1> QED
  BY <1>1 DEF Capped

(* Nothing is registered or waited for at first.                           *)
LEMMA MessageInitInv == MessageInit => MessageInv
BY MasksAssumption DEF MessageInit, MessageInv, MessageTypeOK, MaskKept, AnswerDue

(* What a message at the head or the end of the wire does to it.           *)
LEMMA WireGrows ==
    ASSUME NEW S, NEW w \in Seq(S), NEW e \in S
    PROVE  /\ Append(w, e) \in Seq(S) /\ Len(Append(w, e)) = Len(w) + 1 /\ Len(w) \in Nat
           /\ \A i \in 1 .. Len(w) : Append(w, e)[i] = w[i]
           /\ Append(w, e)[Len(w) + 1] = e
OBVIOUS

LEMMA WireShrinks ==
    ASSUME NEW S, NEW w \in Seq(S), w # <<>>
    PROVE  /\ Tail(w) \in Seq(S) /\ Len(w) \in Nat \ {0} /\ Len(Tail(w)) = Len(w) - 1
           /\ Head(w) \in S /\ Head(w) = w[1]
           /\ \A i \in 2 .. Len(w) : Tail(w)[i - 1] = w[i]
OBVIOUS

(* The MsgTask's steps.                                                    *)
LEMMA MsgTaskKeeps == MessageInv /\ MsgTask => MessageInv'
<1> SUFFICES ASSUME MessageInv, MsgTask PROVE MessageInv'
  OBVIOUS
<1> USE DEF MessageInv, MessageTypeOK, MaskKept, AnswerDue, OnWire
<1>1. CASE Open
  BY <1>1, CappedIsKnown DEF Open
<1>2. CASE Register
  BY <1>2, CappedIsKnown DEF Register
<1>3. CASE Keep
  BY <1>3 DEF Keep
<1>4. CASE SendSync
  BY <1>4 DEF SendSync
<1>5. CASE Answered
  BY <1>5 DEF Answered
<1> QED
  BY <1>1, <1>2, <1>3, <1>4, <1>5 DEF MsgTask

(* The modem's steps: an answer that is not owed any more is on its way.   *)
LEMMA ModemKeeps == MessageInv /\ Modem => MessageInv'
<1> SUFFICES ASSUME MessageInv, Modem PROVE MessageInv'
  OBVIOUS
<1>1. wire \in Seq(EventTable \cup SyncReqs) /\ MaxWire \in Nat
  BY MasksAssumption DEF MessageInv, MessageTypeOK
<1>2. ASSUME NEW e \in EventTable \cup SyncReqs, wire' = Append(wire, e), Len(wire) < MaxWire
      PROVE  /\ wire' \in Seq(EventTable \cup SyncReqs) /\ Len(wire)' <= MaxWire
             /\ \A r : r = e \/ OnWire(r) => \E i \in 1 .. Len(wire') : wire'[i] = r
  BY <1>1, <1>2, WireGrows DEF OnWire
<1>3. CASE Report
  <2>1. PICK e \in reg : wire' = Append(wire, e) /\ Len(wire) < MaxWire
    BY <1>3 DEF Report
  <2>2. e \in EventTable
    BY DEF MessageInv, MessageTypeOK
  <2> QED
    BY <1>2, <1>3, <2>1, <2>2 DEF Report, MessageInv, MessageTypeOK, MaskKept, AnswerDue, OnWire
<1>4. CASE ModemAnswers
  <2>1. PICK e \in owed : owed' = owed \ {e} /\ wire' = Append(wire, e) /\ Len(wire) < MaxWire
    BY <1>4 DEF ModemAnswers
  <2>2. e \in SyncReqs
    BY DEF MessageInv, MessageTypeOK
  <2>3. UNCHANGED <<mask, at, req, slot, kept, reg, out>>
    BY <1>4 DEF ModemAnswers
  <2>4. MessageTypeOK'
    BY <1>2, <2>1, <2>2, <2>3 DEF MessageInv, MessageTypeOK
  <2>5. AnswerDue'
    BY <1>2, <2>1, <2>2, <2>3 DEF MessageInv, AnswerDue, OnWire
  <2> QED
    BY <2>3, <2>4, <2>5 DEF MessageInv, MaskKept
<1> QED
  BY <1>3, <1>4 DEF Modem

(* The head of the wire goes; an answer that is waited for ends in the     *)
(* slot.                                                                   *)
LEMMA DeliverKeeps == MessageInv /\ Deliver => MessageInv'
<1> SUFFICES ASSUME MessageInv, Deliver PROVE MessageInv'
  OBVIOUS
<1>1. /\ wire \in Seq(EventTable \cup SyncReqs) /\ wire # <<>> /\ wire' = Tail(wire)
      /\ UNCHANGED <<mask, at, req, kept, reg, owed>>
  BY DEF MessageInv, MessageTypeOK, Deliver
<1>2. /\ wire' \in Seq(EventTable \cup SyncReqs) /\ Len(wire)' <= MaxWire
      /\ Ind = wire[1]
      /\ \A r : OnWire(r) /\ r # Ind => \E i \in 1 .. Len(wire') : wire'[i] = r
  <2>1. /\ wire' \in Seq(EventTable \cup SyncReqs) /\ Len(wire) \in Nat \ {0}
        /\ Len(wire') = Len(wire) - 1 /\ Ind = wire[1]
        /\ \A i \in 2 .. Len(wire) : wire'[i - 1] = wire[i]
    BY <1>1, WireShrinks DEF Ind
  <2>2. ASSUME NEW r, OnWire(r), r # Ind PROVE \E i \in 1 .. Len(wire') : wire'[i] = r
    <3>1. PICK i \in 1 .. Len(wire) : wire[i] = r
      BY <2>2 DEF OnWire
    <3>2. i \in 2 .. Len(wire) /\ i - 1 \in 1 .. Len(wire')
      BY <2>1, <2>2, <3>1
    <3> QED
      BY <2>1, <3>1, <3>2
  <2>3. Len(wire) <= MaxWire /\ MaxWire \in Nat
    BY MasksAssumption DEF MessageInv, MessageTypeOK
  <2> QED
    BY <2>1, <2>2, <2>3
<1>3. /\ slot' \in RespTable \cup {Nothing} /\ out' \in {Nothing, "adapter", "caller", "nobody"}
      /\ slot' = slot \/ (ForCaller /\ slot' = Ind)
  BY DEF MessageInv, MessageTypeOK, Deliver, ForCaller, IsAnswer
<1>4. AnswerDue'
  <2>1. SUFFICES ASSUME at = "waiting"
                 PROVE  /\ req \in SyncReqs /\ slot' \in {Nothing, req}
                        /\ req \in owed \/ OnWire(req)' \/ slot' = req
    BY <1>1 DEF AnswerDue, OnWire
  <2>2. /\ req \in SyncReqs /\ slot \in {Nothing, req}
        /\ req \in owed \/ OnWire(req) \/ slot = req
    BY <2>1 DEF MessageInv, AnswerDue
  <2>3. slot' \in {Nothing, req}
    BY <1>3, <2>2 DEF ForCaller
  <2>4. CASE OnWire(req) /\ req # Ind
    BY <1>1, <1>2, <2>2, <2>3, <2>4 DEF OnWire
  <2>5. CASE slot = req /\ slot # Nothing
    BY <1>3, <2>2, <2>5 DEF ForCaller
  <2>6. CASE req = Ind /\ slot = Nothing
    <3>1. ForCaller
      BY <2>1, <2>2, <2>6, TablesAgree DEF ForCaller, IsAnswer
    <3>2. ~ForAdapter
      BY <3>1 DEF ForCaller, ForAdapter, IsAnswer, IsEvent
    <3> QED
      BY <2>2, <2>6, <3>1, <3>2 DEF Deliver
  <2>7. Nothing \notin SyncReqs
    BY TablesAgree
  <2> QED
    BY <1>1, <2>2, <2>3, <2>4, <2>5, <2>6, <2>7
<1> QED
  BY <1>1, <1>2, <1>3, <1>4 DEF MessageInv, MessageTypeOK, MaskKept

LEMMA MessageInvKept == MessageInv /\ [MessageNext]_messageVars => MessageInv'
<1> SUFFICES ASSUME MessageInv, [MessageNext]_messageVars PROVE MessageInv'
  OBVIOUS
<1>1. CASE UNCHANGED messageVars
  BY <1>1 DEF messageVars, MessageInv, MessageTypeOK, MaskKept, AnswerDue, OnWire
<1> QED
  BY <1>1, MsgTaskKeeps, ModemKeeps, DeliverKeeps DEF MessageNext

(* The inductive invariant of the messages.                                *)
LEMMA MessageInvariant == MessageSpec => []MessageInv
<1> QED
  BY MessageInitInv, MessageInvKept, PTL DEF MessageSpec

(* Types of the messages, for any masks and any number of indications on   *)
(* their way.                                                              *)
THEOREM MessagesTyped == MessageSpec => []MessageTypeOK
BY MessageInvariant, PTL DEF MessageInv

(* However events and answers overtake the requests, a request that is     *)
(* waited for has its answer still due, on its way or in its slot; no      *)
(* table loses it (loc_api_v02_client.c:820-1252, LocApiV02.cpp:101-124).  *)
THEOREM AnswersAlwaysDue == MessageSpec => []AnswerDue
BY MessageInvariant, PTL DEF MessageInv

(* An event that an adapter asked for with one of the bits eventCb knows   *)
(* reaches it, except while a mask is being registered                     *)
(* (loc_api_v02_client.c:571-600, 2379-2394, LocApiV02.cpp:2416-2480).     *)
THEOREM NeededAlwaysHeard == MessageSpec => NeededIsHeard
<1> DEFINE Loses == /\ wire # <<>> /\ wire' = Tail(wire)
                    /\ at \notin {"closed", "opening", "registering"}
                    /\ Ind \in reg
                    /\ \E b \in mask : b <= 8 /\ Ind \in Meant(b)
<1>1. MessageInv /\ [MessageNext]_messageVars => [Loses => out' = "adapter"]_messageVars
  <2> SUFFICES ASSUME MessageInv, MessageNext, Loses PROVE out' = "adapter"
    OBVIOUS
  <2>1. wire \in Seq(EventTable \cup SyncReqs) /\ Len(wire') # Len(wire) + 1 /\ Len(wire') # Len(wire)
    BY WireShrinks DEF MessageInv, MessageTypeOK
  <2>2. wire' # wire /\ \A e \in EventTable \cup SyncReqs : wire' # Append(wire, e)
    BY <2>1, WireGrows
  <2>3. ~MsgTask
    BY <2>2 DEF MsgTask, Open, Register, Keep, SendSync, Answered
  <2>4. ~Modem
    BY <2>2 DEF Modem, Report, ModemAnswers, MessageInv, MessageTypeOK
  <2>5. Deliver
    BY <2>3, <2>4 DEF MessageNext
  <2>6. PICK b \in mask : b <= 8 /\ Ind \in Meant(b)
    OBVIOUS
  <2>7. b \in 0 .. 20
    BY MasksAssumption DEF MessageInv, MessageTypeOK
  <2>8. Ind \in EventTable \cap Handled \cap Dispatched
    BY <2>6, <2>7, TablesAgree
  <2>9. Ind \in kept /\ at # "opening"
    BY DEF MessageInv, MessageTypeOK, MaskKept
  <2>10. ForAdapter /\ ~ForCaller
    BY <2>8, <2>9 DEF ForAdapter, ForCaller, IsEvent, IsAnswer
  <2> QED
    BY <2>5, <2>10 DEF Deliver
<1> QED
  BY <1>1, MessageInvariant, PTL DEF MessageSpec, NeededIsHeard
=============================================================================
