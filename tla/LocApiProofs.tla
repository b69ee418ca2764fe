---------------------------- MODULE LocApiProofs -----------------------------
(***************************************************************************)
(* Theorems of LocApi, for any adapters and masks, any size of the array   *)
(* of adapters, and any number of addresses, handles and losses: every     *)
(* adapter is served, QCCI calls no freed memory, and the LocApi believes  *)
(* no more registered than the modem has.                                  *)
(***************************************************************************)
EXTENDS LocApi, TLAPS

-----------------------------------------------------------------------------
(* The inductive invariant.                                                *)

(* The array of adapters has no hole.                                      *)
Filled(s, n) == n \in 0 .. MaxAdapters /\ \A i \in Slot : s[i] # None <=> i <= n

RegistryInv == \E n \in 0 .. MaxAdapters : Filled(slots, n)

(* The client of clientHandle is the only one QCCI can call, and it has    *)
(* its address; the modem has no events for a handle that is not open.     *)
ClientInv ==
    /\ \A a \in Addr : data[a] # Zeroed =>
          a = handle /\ data[a].user # None /\ conn[data[a].user] = a
    /\ \A h \in Handle : conn[h] # None /\ Called(h) => data[conn[h]].user = h
    /\ \A h \in Handle : conn[h] = None => reg[h] = {}
    /\ handle # None => data[handle].user # None /\ data[handle].user \in watched

User == data[handle].user

(* Where the MsgTask is in an open says how far the client and the masks   *)
(* are: mMask follows at the very end.                                     *)
OpenInv ==
    /\ task.pc = "connect" => handle = None
    /\ task.pc \in {"register", "keep", "fill", "update", "updated"} => handle # None
    /\ handle = None \/ task.pc \in {"register", "keep", "fill"} => mMask = {}
    /\ task.pc \in {"update", "updated"} => mMask \subseteq task.mask
    /\ task.pc \in {"keep", "fill", "updated"} =>
          User \in dead \/ reg[User] = task.mask
    /\ handle # None /\ task.pc \in {"idle", "update", "updated"} => data[handle].cbs

(* What the modem, the client and the LocApi have for a mask.              *)
MaskInv ==
    /\ handle # None /\ User \notin dead => mMask \subseteq reg[User]
    /\ handle # None /\ task.pc \in {"idle", "update"} /\ ~failed =>
          data[handle].mask = mMask /\ (User \in dead \/ reg[User] = mMask)

(* How an adapter gets its events: it has them, the MsgTask is about to    *)
(* register them, or a message is queued that will.                        *)
Events(a)   == Wants[a] \ Excluded
Reached(a)  ==
    handle # None /\ task.pc \in {"idle", "update", "updated"} /\ Events(a) \subseteq mMask
OnTheWay(a) == task # Ready /\ Events(a) \subseteq task.mask
Queued(a, q) ==
    \E i \in 1 .. Len(q) :
        q[i].type = "ssr" \/ (q[i].type = "open" /\ Events(a) \subseteq q[i].mask)

Covered(a) == Reached(a) \/ OnTheWay(a) \/ Queued(a, queue)

(* Nothing is promised after a failure until a restart is under way.       *)
CoverInv ==
    ~failed \/ (task # Ready /\ task.ssr) => \A a \in Registered : Covered(a)

ApiInv == TypeOK /\ RegistryInv /\ ClientInv /\ OpenInv /\ MaskInv /\ CoverInv
-----------------------------------------------------------------------------
(* The array of adapters.                                                  *)

LEMMA FirstFreeIs ==
    ASSUME NEW s, NEW n \in 0 .. MaxAdapters, Filled(s, n)
    PROVE  FirstFree(s) = n + 1
<1> USE LocApiAssumption
<1> DEFINE P(i) == /\ \A j \in 1 .. i - 1 : s[j] # None
                   /\ i <= MaxAdapters => s[i] = None
<1>1. n + 1 \in 1 .. MaxAdapters + 1 /\ P(n + 1)
  BY DEF Filled, Slot
<1>2. ASSUME NEW i \in 1 .. MaxAdapters + 1, P(i) PROVE i = n + 1
  <2>1. CASE i < n + 1
    BY <1>2, <2>1 DEF Filled, Slot
  <2>2. CASE i > n + 1
    <3>1. n + 1 \in 1 .. i - 1 /\ n + 1 \in Slot
      BY <2>2 DEF Slot
    <3>2. s[n + 1] # None
      BY <1>2, <3>1
    <3>3. QED
      BY <3>1, <3>2 DEF Filled
  <2>3. QED
    BY <2>1, <2>2
<1>3. FirstFree(s) = CHOOSE i \in 1 .. MaxAdapters + 1 : P(i)
  BY DEF FirstFree
<1> HIDE DEF P
<1>4. QED
  BY <1>1, <1>2, <1>3

(* addAdapter fills the first free slot.                                   *)
LEMMA AddFills ==
    ASSUME NEW n \in 0 .. MaxAdapters, Filled(slots, n), FirstFree(slots) \in Slot,
           slots \in [Slot -> Adapter \cup {None}], NEW a \in Adapter
    PROVE  /\ n + 1 \in 0 .. MaxAdapters
           /\ Filled([slots EXCEPT ![FirstFree(slots)] = a], n + 1)
           /\ [slots EXCEPT ![FirstFree(slots)] = a] \in [Slot -> Adapter \cup {None}]
<1> USE LocApiAssumption
<1>1. FirstFree(slots) = n + 1
  BY FirstFreeIs
<1>2. n + 1 \in Slot
  BY <1>1
<1>3. QED
  BY <1>1, <1>2 DEF Filled, Slot

(* removeAdapter moves the last adapter into the slot that is free.        *)
LEMMA RemoveFills ==
    ASSUME NEW n \in 0 .. MaxAdapters, Filled(slots, n),
           slots \in [Slot -> Adapter \cup {None}], NEW i \in Slot, slots[i] # None
    PROVE  /\ n - 1 \in 0 .. MaxAdapters
           /\ Filled(Without(slots, i), n - 1)
           /\ Without(slots, i) \in [Slot -> Adapter \cup {None}]
           /\ \A j \in Slot : Without(slots, i)[j] # None =>
                 \E k \in Slot : slots[k] = Without(slots, i)[j]
<1> USE LocApiAssumption
<1>1. FirstFree(slots) = n + 1
  BY FirstFreeIs
<1>2. n \in Slot /\ i <= n /\ slots[n] # None
  BY DEF Filled, Slot
<1>3. FirstFree(slots) - 1 = n
  BY <1>1, <1>2
<1>4. Without(slots, i) = [slots EXCEPT ![i] = slots[n], ![n] = None]
  BY <1>3 DEF Without
<1>5. \A j \in Slot : Without(slots, i)[j] =
          IF j = n THEN None ELSE IF j = i THEN slots[n] ELSE slots[j]
  BY <1>2, <1>4
<1>6. Without(slots, i) \in [Slot -> Adapter \cup {None}]
  BY <1>2, <1>4
<1>7. n - 1 \in 0 .. MaxAdapters
  BY <1>2 DEF Slot
<1>8. \A j \in Slot : Without(slots, i)[j] # None <=> j <= n - 1
  <2>1. ASSUME NEW j \in Slot PROVE Without(slots, i)[j] # None <=> j <= n - 1
    <3>1. CASE j = n
      BY <1>5, <3>1 DEF Slot
    <3>2. CASE j # n /\ j = i
      BY <1>2, <1>5, <3>2 DEF Slot
    <3>3. CASE j # n /\ j # i
      <4>1. Without(slots, i)[j] = slots[j]
        BY <1>5, <3>3
      <4>2. slots[j] # None <=> j <= n
        BY DEF Filled
      <4>3. QED
        BY <3>3, <4>1, <4>2 DEF Slot
    <3>4. QED
      BY <3>1, <3>2, <3>3
  <2>2. QED
    BY <2>1
<1>9. QED
  BY <1>2, <1>5, <1>6, <1>7, <1>8 DEF Filled

-----------------------------------------------------------------------------
(* Types.                                                                  *)

LEMMA MaskTyped ==
    ASSUME NEW s \in [Slot -> Adapter \cup {None}]
    PROVE  EvtMask(s) \in SUBSET Event
<1>1. ASSUME NEW j \in Slot, s[j] # None PROVE Wants[s[j]] \subseteq Event
  BY <1>1, LocApiAssumption
<1>2. QED
  BY <1>1 DEF EvtMask

LEMMA InitTyped == Init => TypeOK /\ RegistryInv
<1> SUFFICES ASSUME Init PROVE TypeOK /\ RegistryInv
  OBVIOUS
<1> USE LocApiAssumption, NoneAssumption
<1>1. ClientTypeOK
  <2>1. Zeroed \in DataType
    BY DEF Zeroed, DataType
  <2>2. QED
    BY <2>1 DEF Init, ClientInit, ClientTypeOK, RxType, Idle
<1>2. task \in Task
  BY DEF Init, Ready, Task
<1>3. queue \in Seq(Msg)
  BY DEF Init
<1>4. RegistryInv
  <2>1. 0 \in 0 .. MaxAdapters /\ Filled(slots, 0)
    BY DEF Init, Filled, Slot
  <2>2. QED
    BY <2>1 DEF RegistryInv
<1>5. QED
  BY <1>1, <1>2, <1>3, <1>4 DEF Init, TypeOK

(* The fields of the task while the MsgTask is in an open.                 *)
LEMMA TaskFields ==
    ASSUME TypeOK, task # Ready
    PROVE  /\ task.pc \in {"connect", "register", "keep", "fill", "update", "updated"}
           /\ task.mask \in SUBSET Event /\ task.ssr \in BOOLEAN
           /\ \A p \in {"connect", "register", "keep", "fill", "update", "updated"} :
                 /\ [task EXCEPT !.pc = p] \in Task
                 /\ [task EXCEPT !.pc = p] # Ready
                 /\ [task EXCEPT !.pc = p].pc = p
                 /\ [task EXCEPT !.pc = p].mask = task.mask
                 /\ [task EXCEPT !.pc = p].ssr = task.ssr
<1>1. task \in [pc : {"connect", "register", "keep", "fill", "update", "updated"},
                mask : SUBSET Event, ssr : BOOLEAN]
  BY DEF TypeOK, Task, Ready
<1>2. ASSUME NEW p \in {"connect", "register", "keep", "fill", "update", "updated"}
      PROVE  /\ [task EXCEPT !.pc = p] \in Task
             /\ [task EXCEPT !.pc = p] # Ready
             /\ [task EXCEPT !.pc = p].pc = p
             /\ [task EXCEPT !.pc = p].mask = task.mask
             /\ [task EXCEPT !.pc = p].ssr = task.ssr
  <2>1. [task EXCEPT !.pc = p] = [pc |-> p, mask |-> task.mask, ssr |-> task.ssr]
    BY <1>1
  <2>2. [pc |-> p, mask |-> task.mask, ssr |-> task.ssr].pc # "idle"
    OBVIOUS
  <2>3. QED
    BY <1>1, <2>1, <2>2 DEF Task, Ready
<1>3. QED
  BY <1>1, <1>2

LEMMA StepIs ==
    ASSUME NEW p \in {"connect", "register", "keep", "fill", "update", "updated"},
           NEW m \in SUBSET Event, NEW b \in BOOLEAN, Step(p, m, b)
    PROVE  /\ task' \in Task /\ task' # Ready
           /\ task'.pc = p /\ task'.mask = m /\ task'.ssr = b
<1>1. task' = [pc |-> p, mask |-> m, ssr |-> b]
  BY DEF Step
<1>2. [pc |-> p, mask |-> m, ssr |-> b].pc # "idle"
  OBVIOUS
<1>3. QED
  BY <1>1, <1>2 DEF Task, Ready

LEMMA ReadyIs == Ready \in Task /\ Ready.pc = "idle"
  BY DEF Ready, Task

LEMMA TaskReady == TypeOK /\ task.pc = "idle" => task = Ready
  BY DEF TypeOK, Task, Ready
-----------------------------------------------------------------------------
(* The client: what its operations do to ClientInv.                        *)

LEMMA ZeroedIs == Zeroed \in DataType /\ Zeroed.user = None
  BY DEF Zeroed, DataType

(* Somewhere is data with a user only at clientHandle.                     *)
LEMMA UserIs ==
    ASSUME TypeOK, ClientInv, NEW a \in Addr, data[a].user # None
    PROVE  a = handle /\ data[a].user \in Handle /\ conn[data[a].user] = a
<1>1. data[a] # Zeroed
  BY ZeroedIs
<1>2. data[a].user \in Handle \cup {None}
  BY DEF TypeOK, ClientTypeOK, DataType
<1>3. QED
  BY <1>1, <1>2 DEF ClientInv

LEMMA ReleaseInv ==
    ASSUME TypeOK, ClientInv, handle # None, Release(handle), handle' = None
    PROVE  /\ ClientTypeOK' /\ ClientInv' /\ up' = up
<1> USE NoneAssumption
<1> DEFINE u == data[handle].user
<1>0. handle \in Addr /\ u # None
  BY DEF TypeOK, ClientInv
<1>1. u \in Handle /\ conn[u] = handle
  BY <1>0, UserIs
<1>2. /\ conn' = [conn EXCEPT ![u] = None]
      /\ dead' = dead \ {u} /\ watched' = watched \ {u} /\ errors' = errors \ {u}
      /\ data' = [data EXCEPT ![handle] = Zeroed]
      /\ reg' = [reg EXCEPT ![u] = {}]
      /\ UNCHANGED <<up, rx>>
  BY DEF Release
<1> HIDE DEF u
<1>3. /\ data' \in [Addr -> DataType] /\ conn' \in [Handle -> Addr \cup {None}]
      /\ reg' \in [Handle -> SUBSET Event]
  BY <1>0, <1>1, <1>2, ZeroedIs DEF TypeOK, ClientTypeOK
<1>4. /\ dead' \in SUBSET Open' /\ watched' \in SUBSET Open'
      /\ errors' \in SUBSET (dead' \cap watched')
  BY <1>1, <1>2 DEF TypeOK, ClientTypeOK, Open
<1>5. ClientTypeOK'
  BY <1>2, <1>3, <1>4 DEF TypeOK, ClientTypeOK
<1>6. \A a \in Addr : data'[a] = Zeroed
  BY <1>0, <1>2 DEF ClientInv, TypeOK, ClientTypeOK
<1>7. \A h \in Handle : ~(conn'[h] # None /\ Called(h)')
  <2>1. ASSUME NEW h \in Handle, h # u, conn[h] # None, Called(h) PROVE FALSE
    <3>1. conn[h] \in Addr /\ data[conn[h]].user = h
      BY <2>1 DEF ClientInv, TypeOK, ClientTypeOK
    <3>2. conn[h] = handle
      BY <2>1, <3>1, UserIs
    <3>3. QED
      BY <2>1, <3>1, <3>2 DEF u
  <2>2. ASSUME NEW h \in Handle, conn'[h] # None, Called(h)' PROVE FALSE
    <3>1. h # u /\ conn[h] # None
      BY <1>1, <1>2, <2>2 DEF TypeOK, ClientTypeOK
    <3>2. Called(h)
      BY <1>2, <2>2, <3>1 DEF Called, TypeOK, ClientTypeOK
    <3>3. QED
      BY <2>1, <3>1, <3>2
  <2>3. QED
    BY <2>2
<1>8. \A h \in Handle : conn'[h] = None => reg'[h] = {}
  BY <1>1, <1>2 DEF ClientInv, TypeOK, ClientTypeOK
<1>9. ClientInv'
  BY <1>6, <1>7, <1>8 DEF ClientInv
<1>10. QED
  BY <1>2, <1>5, <1>9

LEMMA CloseInv ==
    ASSUME TypeOK, ClientInv, Close
    PROVE  ClientTypeOK' /\ ClientInv' /\ handle' = None /\ mMask' = {}
<1>1. handle' = None /\ mMask' = {}
  BY DEF Close
<1>2. CASE handle = None
  <2>1. UNCHANGED client /\ handle' = handle
    BY <1>1, <1>2 DEF Close
  <2>2. QED
    BY <1>1, <2>1 DEF client, ClientInv, Called, TypeOK, ClientTypeOK, Open
<1>3. CASE handle # None
  <2>1. Release(handle)
    BY <1>3 DEF Close
  <2>2. QED
    BY <1>1, <1>3, <2>1, ReleaseInv
<1>4. QED
  BY <1>2, <1>3

LEMMA ConnectInv ==
    ASSUME TypeOK, ClientInv, handle = None, NEW a \in Addr, NEW h \in Handle,
           CtrlPointInit(a, h), handle' = a
    PROVE  ClientTypeOK' /\ ClientInv' /\ data'[a].user = h /\ h \notin dead'
<1> USE NoneAssumption
<1>1. \A b \in Addr : data[b] = Zeroed
  BY DEF ClientInv
<1>2. ASSUME NEW g \in Handle, conn[g] # None PROVE ~Called(g)
  <2>1. SUFFICES ASSUME Called(g) PROVE FALSE
    OBVIOUS
  <2>2. conn[g] \in Addr /\ data[conn[g]].user = g
    BY <1>2, <2>1 DEF ClientInv, TypeOK, ClientTypeOK
  <2>3. QED
    BY <1>1, <2>2, ZeroedIs
<1>3. /\ data' = [data EXCEPT ![a].user = h]
      /\ conn[h] = None /\ conn' = [conn EXCEPT ![h] = a]
      /\ watched' = watched \cup {h}
      /\ UNCHANGED <<up, dead, errors, reg, rx>>
  BY DEF CtrlPointInit
<1>4. h \notin dead
  BY <1>3 DEF TypeOK, ClientTypeOK, Open
<1>5. data' \in [Addr -> DataType] /\ conn' \in [Handle -> Addr \cup {None}]
  <2>1. [data[a] EXCEPT !.user = h] \in DataType
    BY DEF TypeOK, ClientTypeOK, DataType
  <2>2. QED
    BY <1>3, <2>1 DEF TypeOK, ClientTypeOK
<1>6. ClientTypeOK'
  <2>1. Open' = Open \cup {h}
    BY <1>3 DEF Open, TypeOK, ClientTypeOK
  <2>2. QED
    BY <1>3, <1>5, <2>1 DEF TypeOK, ClientTypeOK
<1>7. data'[a].user = h
  <2>1. [data[a] EXCEPT !.user = h].user = h
    BY DEF TypeOK, ClientTypeOK, DataType
  <2>2. QED
    BY <1>3, <2>1 DEF TypeOK, ClientTypeOK
<1>8. \A b \in Addr : b # a => data'[b] = Zeroed
  BY <1>1, <1>3 DEF TypeOK, ClientTypeOK
<1>9. conn'[h] = a /\ h \in watched' /\ \A g \in Handle : g # h => conn'[g] = conn[g]
  BY <1>3 DEF TypeOK, ClientTypeOK
<1>10. ASSUME NEW g \in Handle, conn'[g] # None, Called(g)' PROVE g = h
  BY <1>2, <1>3, <1>9, <1>10 DEF Called
<1>11. \A g \in Handle : conn'[g] = None => reg'[g] = {}
  BY <1>3, <1>9 DEF ClientInv
<1>12. ClientInv'
  BY <1>7, <1>8, <1>9, <1>10, <1>11 DEF ClientInv
<1>13. QED
  BY <1>3, <1>4, <1>6, <1>7, <1>12

(* A client that is left in QCCI is never called.                          *)
LEMMA LeftInv ==
    ASSUME TypeOK, ClientInv, handle = None, NEW a \in Addr, NEW h \in Handle,
           CtrlPointLeft(a, h), handle' = None
    PROVE  ClientTypeOK' /\ ClientInv'
<1> USE NoneAssumption
<1>1. /\ conn[h] = None /\ conn' = [conn EXCEPT ![h] = a]
      /\ UNCHANGED <<up, data, dead, watched, errors, reg, rx>>
  BY DEF CtrlPointLeft
<1>2. Open' = Open \cup {h}
  BY <1>1 DEF Open, TypeOK, ClientTypeOK
<1>3. ClientTypeOK'
  BY <1>1, <1>2 DEF TypeOK, ClientTypeOK
<1>4. ~Called(h)'
  BY <1>1 DEF Called, ClientInv, Open, TypeOK, ClientTypeOK
<1>5. \A g \in Handle : g # h => conn'[g] = conn[g] /\ (Called(g)' <=> Called(g))
  BY <1>1 DEF Called, TypeOK, ClientTypeOK
<1>6. \A b \in Addr : data'[b] = Zeroed
  BY <1>1 DEF ClientInv
<1>7. \A g \in Handle : conn'[g] # None /\ Called(g)' => data'[conn'[g]].user = g
  BY <1>1, <1>4, <1>5 DEF ClientInv
<1>8. \A g \in Handle : conn'[g] = None => reg'[g] = {}
  BY <1>1, <1>5 DEF ClientInv
<1>9. ClientInv'
  BY <1>6, <1>7, <1>8 DEF ClientInv
<1>10. QED
  BY <1>3, <1>9

(* A step that leaves users and connections alone.                         *)
LEMMA SameUsers ==
    ASSUME TypeOK, ClientInv, UNCHANGED <<conn, watched, reg, handle>>,
           data' \in [Addr -> DataType],
           \A a \in Addr : \/ data'[a] = data[a]
                           \/ a = handle /\ data'[a].user = data[a].user
    PROVE  ClientInv'
<1> USE NoneAssumption
<1>0. handle \in Addr \cup {None} /\ conn \in [Handle -> Addr \cup {None}]
  BY DEF TypeOK, ClientTypeOK
<1>1. \A a \in Addr : data'[a].user = data[a].user
  OBVIOUS
<1>2. ASSUME NEW a \in Addr, data'[a] # Zeroed
      PROVE  a = handle /\ data'[a].user # None /\ conn[data'[a].user] = a
  <2>1. CASE data'[a] = data[a]
    BY <1>2, <2>1 DEF ClientInv
  <2>2. CASE a = handle
    <3>1. data[a].user # None
      BY <2>2, <1>0 DEF ClientInv
    <3>2. conn[data[a].user] = a
      BY <3>1, UserIs
    <3>3. QED
      BY <1>1, <2>2, <3>1, <3>2
  <2>3. QED
    BY <2>1, <2>2
<1>3. ASSUME NEW h \in Handle, conn[h] # None, Called(h)' PROVE data'[conn[h]].user = h
  BY <1>0, <1>1, <1>3 DEF ClientInv, Called
<1>4. handle # None => data'[handle].user # None /\ data'[handle].user \in watched
  BY <1>0, <1>1 DEF ClientInv
<1>5. QED
  BY <1>2, <1>3, <1>4 DEF ClientInv

LEMMA SendMaskInv ==
    ASSUME TypeOK, ClientInv, handle # None, NEW m \in SUBSET Event, SendMask(handle, m),
           UNCHANGED handle
    PROVE  ClientTypeOK' /\ ClientInv' /\ User' = User /\ reg'[User] = m /\ UNCHANGED <<data, dead>>
<1>0. handle \in Addr /\ User \in Handle
  BY UserIs DEF TypeOK, ClientInv, User
<1>1. /\ reg' = [reg EXCEPT ![User] = m]
      /\ UNCHANGED <<up, data, conn, dead, watched, errors, rx>>
  BY DEF SendMask, User
<1>2. ClientTypeOK'
  BY <1>1 DEF TypeOK, ClientTypeOK, Open
<1>3. ClientInv'
  <2>1. data[handle].user = User /\ User \in watched /\ conn[User] = handle
    BY <1>0, UserIs, NoneAssumption DEF ClientInv, User
  <2>2. \A h \in Handle : h # User => reg'[h] = reg[h]
    BY <1>1 DEF TypeOK, ClientTypeOK
  <2>3. \A h \in Handle : Called(h)' => Called(h)
    BY <1>1, <2>1, <2>2 DEF Called
  <2>4. \A h \in Handle : conn[h] = None => reg'[h] = {}
    BY <1>0, <2>1, <2>2, NoneAssumption DEF ClientInv
  <2> HIDE DEF User
  <2>5. QED
    BY <1>1, <2>3, <2>4 DEF ClientInv
<1>4. QED
  BY <1>0, <1>1, <1>2, <1>3 DEF User, TypeOK, ClientTypeOK

LEMMA KeepMaskInv ==
    ASSUME TypeOK, ClientInv, handle # None, NEW m \in SUBSET Event,
           KeepMask(handle, m) \/ FillIn(handle, m), UNCHANGED handle
    PROVE  /\ ClientTypeOK' /\ ClientInv' /\ User' = User /\ UNCHANGED <<reg, dead>>
           /\ data'[handle].mask = m
           /\ data[handle].cbs \/ FillIn(handle, m) => data'[handle].cbs
<1> USE NoneAssumption
<1>0. handle \in Addr /\ data[handle] \in DataType
  BY DEF TypeOK, ClientTypeOK
<1>1. UNCHANGED <<up, conn, dead, watched, errors, reg, rx>>
  BY DEF KeepMask, FillIn
<1>2. PICK r \in DataType :
         /\ r.user = data[handle].user /\ r.mask = m
         /\ data[handle].cbs \/ FillIn(handle, m) => r.cbs
         /\ data' = [data EXCEPT ![handle] = r]
  <2>1. CASE FillIn(handle, m)
    <3> DEFINE r == [data[handle] EXCEPT !.cbs = TRUE, !.mask = m]
    <3>1. r \in DataType /\ r.user = data[handle].user /\ r.mask = m /\ r.cbs
      BY <1>0 DEF DataType
    <3>2. data' = [data EXCEPT ![handle] = r]
      BY <1>0, <2>1 DEF FillIn, TypeOK, ClientTypeOK
    <3> HIDE DEF r
    <3>3. QED
      BY <3>1, <3>2
  <2>2. CASE KeepMask(handle, m) /\ ~FillIn(handle, m)
    <3> DEFINE r == [data[handle] EXCEPT !.mask = m]
    <3>1. r \in DataType /\ r.user = data[handle].user /\ r.mask = m /\ r.cbs = data[handle].cbs
      BY <1>0 DEF DataType
    <3>2. data' = [data EXCEPT ![handle] = r]
      BY <1>0, <2>2 DEF KeepMask, TypeOK, ClientTypeOK
    <3> HIDE DEF r
    <3>3. QED
      BY <2>2, <3>1, <3>2
  <2>3. QED
    BY <2>1, <2>2
<1>3. data' \in [Addr -> DataType] /\ data'[handle] = r
      /\ \A a \in Addr : a # handle => data'[a] = data[a]
  BY <1>0, <1>2 DEF TypeOK, ClientTypeOK
<1>4. ClientTypeOK'
  BY <1>1, <1>3 DEF TypeOK, ClientTypeOK, Open
<1>5. ClientInv'
  BY <1>1, <1>2, <1>3, SameUsers
<1>6. QED
  BY <1>1, <1>2, <1>3, <1>4, <1>5 DEF User

(* QCCI and the service change neither data nor connections.               *)
LEMMA OutsideInv ==
    ASSUME TypeOK, ClientInv, UNCHANGED handle,
           RxError \/ RxErrorCopy \/ RxDone \/ ServiceLost \/ ServiceBack
    PROVE  /\ ClientTypeOK' /\ ClientInv' /\ UNCHANGED data
           /\ dead \subseteq dead'
           /\ \A h \in Handle : conn[h] # None => h \in dead' \/ reg'[h] = reg[h]
<1> USE NoneAssumption
<1>1. UNCHANGED <<data, conn, watched>> /\ (reg' = reg \/ reg' = [h \in Handle |-> {}])
  BY DEF RxError, RxErrorCopy, RxDone, ServiceLost, ServiceBack
<1>2. ClientInv'
  BY <1>1 DEF ClientInv, Called
<1>3. rx' \in RxType
  <2>1. CASE RxError
    <3>1. PICK h \in errors : rx' = [pc |-> "error", at |-> conn[h], handle |-> h]
      BY <2>1 DEF RxError
    <3>2. conn[h] \in Addr /\ h \in Handle
      BY DEF TypeOK, ClientTypeOK, Open
    <3>3. QED
      BY <3>1, <3>2 DEF RxType
  <2>2. CASE RxErrorCopy
    <3>1. rx \in [pc : {"error", "down"}, at : Addr, handle : Handle]
      BY <2>2 DEF RxErrorCopy, TypeOK, ClientTypeOK, RxType
    <3>2. [rx EXCEPT !.pc = "down"] \in RxType
      BY <3>1 DEF RxType
    <3>3. QED
      BY <2>2, <3>2 DEF RxErrorCopy, Idle, RxType
  <2>3. CASE RxDone \/ ServiceLost \/ ServiceBack
    BY <2>3 DEF RxDone, ServiceLost, ServiceBack, Idle, RxType, TypeOK, ClientTypeOK
  <2>4. QED
    BY <2>1, <2>2, <2>3
<1>4. CASE ServiceLost
  <2>1. /\ dead' = Open /\ errors' = errors \cup (watched \ dead) /\ up' = FALSE
        /\ reg' = [h \in Handle |-> {}]
    BY <1>4 DEF ServiceLost
  <2>2. Open' = Open
    BY <1>1 DEF Open
  <2>3. /\ dead' \in SUBSET Open' /\ errors' \in SUBSET (dead' \cap watched')
        /\ dead \subseteq dead'
    BY <1>1, <2>1, <2>2 DEF TypeOK, ClientTypeOK
  <2>4. \A h \in Handle : conn[h] # None => h \in dead'
    BY <2>1 DEF Open
  <2>5. ClientTypeOK'
    BY <1>1, <1>3, <2>1, <2>3 DEF TypeOK, ClientTypeOK
  <2>6. QED
    BY <1>1, <1>2, <2>3, <2>4, <2>5
<1>5. CASE RxError \/ RxErrorCopy \/ RxDone \/ ServiceBack
  <2>1. UNCHANGED <<reg, dead>> /\ errors' \subseteq errors /\ up' \in BOOLEAN
    BY <1>5 DEF RxError, RxErrorCopy, RxDone, ServiceBack, TypeOK, ClientTypeOK
  <2>2. ClientTypeOK'
    BY <1>1, <1>3, <2>1 DEF TypeOK, ClientTypeOK, Open
  <2>3. QED
    BY <1>1, <1>2, <2>1, <2>2
<1>6. QED
  BY <1>4, <1>5
-----------------------------------------------------------------------------
(* The queue and the masks.                                                *)

LEMMA MsgIs ==
    ASSUME NEW m \in SUBSET Event
    PROVE  /\ OpenMsg(m) \in Msg /\ OpenMsg(m).type = "open" /\ OpenMsg(m).mask = m
           /\ SsrMsg \in Msg /\ SsrMsg.type = "ssr"
  BY DEF OpenMsg, SsrMsg, Msg

LEMMA QueuedAppend ==
    ASSUME NEW q \in Seq(Msg), NEW m \in Msg, NEW a
    PROVE  /\ Append(q, m) \in Seq(Msg)
           /\ Queued(a, q) => Queued(a, Append(q, m))
           /\ m.type = "ssr" \/ (m.type = "open" /\ Events(a) \subseteq m.mask)
                 => Queued(a, Append(q, m))
<1>1. /\ Append(q, m) \in Seq(Msg) /\ Len(Append(q, m)) = Len(q) + 1 /\ Len(q) \in Nat
      /\ \A i \in 1 .. Len(q) : Append(q, m)[i] = q[i]
      /\ Append(q, m)[Len(q) + 1] = m
  OBVIOUS
<1> DEFINE p == Append(q, m)
<1> HIDE DEF p
<1>2. ASSUME Queued(a, q) PROVE Queued(a, p)
  <2>1. PICK i \in 1 .. Len(q) :
          q[i].type = "ssr" \/ (q[i].type = "open" /\ Events(a) \subseteq q[i].mask)
    BY <1>2 DEF Queued
  <2>2. i \in 1 .. Len(p) /\ p[i] = q[i]
    BY <1>1 DEF p
  <2>3. QED
    BY <2>1, <2>2 DEF Queued
<1>3. ASSUME m.type = "ssr" \/ (m.type = "open" /\ Events(a) \subseteq m.mask)
      PROVE  Queued(a, p)
  <2>1. Len(q) + 1 \in 1 .. Len(p) /\ p[Len(q) + 1] = m
    BY <1>1 DEF p
  <2>2. QED
    BY <1>3, <2>1 DEF Queued
<1>4. QED
  BY <1>1, <1>2, <1>3 DEF p

LEMMA QueuedTail ==
    ASSUME NEW q \in Seq(Msg), q # <<>>, NEW a, Queued(a, q)
    PROVE  \/ Queued(a, Tail(q))
           \/ Head(q).type = "ssr"
           \/ Head(q).type = "open" /\ Events(a) \subseteq Head(q).mask
<1>1. /\ Len(Tail(q)) = Len(q) - 1 /\ Len(q) \in Nat /\ Head(q) = q[1]
      /\ \A i \in 1 .. Len(q) - 1 : Tail(q)[i] = q[i + 1]
  OBVIOUS
<1>2. PICK i \in 1 .. Len(q) :
        q[i].type = "ssr" \/ (q[i].type = "open" /\ Events(a) \subseteq q[i].mask)
  BY DEF Queued
<1>3. CASE i = 1
  BY <1>1, <1>2, <1>3
<1>4. CASE i # 1
  <2> DEFINE p == Tail(q)
  <2>1. i - 1 \in 1 .. Len(p) /\ p[i - 1] = q[i]
    BY <1>1, <1>4
  <2> HIDE DEF p
  <2>2. Queued(a, p)
    BY <1>2, <2>1 DEF Queued
  <2>3. QED
    BY <2>2 DEF p
<1>5. QED
  BY <1>3, <1>4

LEMMA HeadTyped ==
    ASSUME NEW q \in Seq(Msg), q # <<>>
    PROVE  /\ Tail(q) \in Seq(Msg) /\ Head(q) \in Msg
           /\ Head(q).type = "open" => Head(q).mask \in SUBSET Event
<1>1. Tail(q) \in Seq(Msg) /\ Head(q) \in Msg
  OBVIOUS
<1>2. QED
  BY <1>1 DEF Msg

(* The mask of all adapters has what each registered one wants.            *)
LEMMA MaskServes ==
    ASSUME NEW s \in [Slot -> Adapter \cup {None}], NEW k \in Slot, s[k] # None
    PROVE  Events(s[k]) \subseteq EvtMask(s)
<1> DEFINE M == {Wants[s[i]] : i \in {j \in Slot : s[j] # None}}
<1>1. Wants[s[k]] \in M
  OBVIOUS
<1>2. EvtMask(s) = (UNION M) \ Excluded
  BY Zenon DEF EvtMask
<1> HIDE DEF M
<1>3. QED
  BY <1>1, <1>2 DEF Events

-----------------------------------------------------------------------------
(* The first state.                                                        *)

LEMMA InitInv == Init => ApiInv
<1> SUFFICES ASSUME Init PROVE ApiInv
  OBVIOUS
<1>1. TypeOK /\ RegistryInv
  BY InitTyped
<1>2. ClientInv
  BY DEF Init, ClientInit, ClientInv
<1>3. handle = None /\ mMask = {} /\ task = Ready /\ failed = FALSE
  BY DEF Init
<1>4. OpenInv /\ MaskInv
  BY <1>3, ReadyIs DEF OpenInv, MaskInv
<1>5. CoverInv
  <2>1. Registered = {}
    BY LocApiAssumption, NoneAssumption DEF Init, Registered
  <2>2. QED
    BY <2>1 DEF CoverInv
<1>6. QED
  BY <1>1, <1>2, <1>4, <1>5 DEF ApiInv

-----------------------------------------------------------------------------
(* The steps: the adapters.                                                *)

(* What is unchanged when adapters come and go.                            *)
LEMMA OpenKept ==
    ASSUME OpenInv, MaskInv, UNCHANGED <<data, dead, reg, mMask, handle, task, failed>>
    PROVE  OpenInv' /\ MaskInv'
  BY DEF OpenInv, MaskInv, User

LEMMA ClientKept ==
    ASSUME TypeOK, ClientInv, UNCHANGED <<client, handle>>
    PROVE  ClientTypeOK' /\ ClientInv'
  BY DEF client, TypeOK, ClientTypeOK, Open, ClientInv, Called

(* What covers an adapter goes on covering it.                             *)
LEMMA CoverKept ==
    ASSUME CoverInv, Registered' \subseteq Registered,
           ~failed' \/ (task' # Ready /\ task'.ssr) => ~failed \/ (task # Ready /\ task.ssr),
           \A a \in Registered : Covered(a) => Covered(a)'
    PROVE  CoverInv'
  BY DEF CoverInv

LEMMA AddAdapterInv == ASSUME ApiInv, NEW a \in Adapter, AddAdapter(a) PROVE ApiInv'
<1> USE DEF ApiInv
<1>1. UNCHANGED <<client, mMask, handle, task, failed>>
  BY DEF AddAdapter
<1>2. ClientTypeOK' /\ ClientInv'
  BY <1>1, ClientKept
<1>3. OpenInv' /\ MaskInv'
  BY <1>1, OpenKept DEF client
<1>4. PICK n \in 0 .. MaxAdapters : Filled(slots, n)
  BY DEF RegistryInv
<1>5. /\ slots' \in [Slot -> Adapter \cup {None}]
      /\ n + 1 \in 0 .. MaxAdapters /\ Filled(slots', n + 1)
  BY <1>4, AddFills DEF AddAdapter, TypeOK
<1>6. RegistryInv'
  BY <1>5 DEF RegistryInv, Filled
<1> DEFINE m == OpenMsg(Wants[a])
<1>7. m \in Msg /\ m.type = "open" /\ m.mask = Wants[a] /\ queue' = Append(queue, m)
  BY MsgIs, LocApiAssumption DEF AddAdapter
<1> HIDE DEF m
<1>8. queue \in Seq(Msg)
  BY DEF TypeOK
<1>9. queue' \in Seq(Msg)
  BY <1>7, <1>8, QueuedAppend
<1>10. TypeOK'
  BY <1>1, <1>2, <1>5, <1>9 DEF TypeOK
<1>11. Registered' \subseteq Registered \cup {a}
  BY DEF Registered, AddAdapter, TypeOK
<1>12. ASSUME NEW b \in Registered, Covered(b) PROVE Covered(b)'
  <2>1. Queued(b, queue) => Queued(b, queue')
    BY <1>7, <1>8, QueuedAppend
  <2>2. QED
    BY <1>1, <1>12, <2>1 DEF Covered, Reached, OnTheWay
<1>13. Queued(a, queue')
  <2>1. Events(a) \subseteq m.mask
    BY <1>7 DEF Events
  <2>2. QED
    BY <1>7, <1>8, <2>1, QueuedAppend
<1>14. CoverInv'
  <2>1. Covered(a)'
    BY <1>13 DEF Covered
  <2>2. QED
    BY <1>1, <1>11, <1>12, <2>1 DEF CoverInv
<1>15. QED
  BY <1>2, <1>3, <1>6, <1>10, <1>14

LEMMA RemoveAdapterInv == ASSUME ApiInv, NEW i \in Slot, RemoveAdapter(i) PROVE ApiInv'
<1> USE DEF ApiInv
<1>1. slots' = Without(slots, i) /\ slots[i] # None /\ UNCHANGED <<task, failed>>
  BY DEF RemoveAdapter
<1>2. PICK n \in 0 .. MaxAdapters : Filled(slots, n)
  BY DEF RegistryInv
<1>3. /\ n - 1 \in 0 .. MaxAdapters /\ Filled(slots', n - 1)
      /\ slots' \in [Slot -> Adapter \cup {None}]
      /\ \A j \in Slot : slots'[j] # None => \E k \in Slot : slots[k] = slots'[j]
  BY <1>1, <1>2, RemoveFills DEF TypeOK
<1>4. RegistryInv'
  BY <1>3 DEF RegistryInv, Filled
<1>5. Registered' \subseteq Registered
  BY <1>3, LocApiAssumption DEF Registered
<1>6. queue \in Seq(Msg)
  BY DEF TypeOK
<1>7. CASE slots' = [j \in Slot |-> None]
  <2>1. task = Ready /\ Close /\ UNCHANGED queue
    BY <1>7 DEF RemoveAdapter
  <2>2. ClientTypeOK' /\ ClientInv' /\ handle' = None /\ mMask' = {}
    BY <2>1, CloseInv
  <2>3. task' = Ready
    BY <1>1, <2>1
  <2>4. TypeOK'
    BY <1>1, <1>3, <2>1, <2>2 DEF TypeOK
  <2>5. OpenInv' /\ MaskInv'
    BY <2>2, <2>3, ReadyIs DEF OpenInv, MaskInv
  <2>6. Registered' = {}
    BY <1>7, LocApiAssumption DEF Registered
  <2>7. CoverInv'
    BY <2>6 DEF CoverInv
  <2>8. QED
    BY <1>4, <2>2, <2>4, <2>5, <2>7
<1>8. CASE slots' # [j \in Slot |-> None]
  <2>1. UNCHANGED <<client, mMask, handle>>
    BY <1>8 DEF RemoveAdapter
  <2>2. ClientTypeOK' /\ ClientInv'
    BY <2>1, ClientKept
  <2>3. OpenInv' /\ MaskInv'
    BY <1>1, <2>1, OpenKept DEF client
  <2> DEFINE m == OpenMsg(EvtMask(slots'))
  <2>4. m \in Msg /\ queue' = Append(queue, m)
    BY <1>3, <1>8, MsgIs, MaskTyped DEF RemoveAdapter
  <2> HIDE DEF m
  <2>5. TypeOK'
    BY <1>1, <1>3, <1>6, <2>1, <2>2, <2>4, QueuedAppend DEF TypeOK
  <2>6. ASSUME NEW b \in Registered, Covered(b) PROVE Covered(b)'
    <3>1. Queued(b, queue) => Queued(b, queue')
      BY <1>6, <2>4, QueuedAppend
    <3>2. QED
      BY <1>1, <2>1, <2>6, <3>1 DEF Covered, Reached, OnTheWay
  <2>7. CoverInv'
    BY <1>1, <1>5, <2>6, CoverKept
  <2>8. QED
    BY <1>4, <2>2, <2>3, <2>5, <2>7
<1>9. QED
  BY <1>7, <1>8
-----------------------------------------------------------------------------
(* The steps: the MsgTask.                                                 *)

(* A step of the MsgTask leaves the array alone and types what it writes.  *)
LEMMA TaskTyped ==
    ASSUME TypeOK, RegistryInv, ClientTypeOK', UNCHANGED slots, queue' \in Seq(Msg),
           mMask' \in SUBSET Event, handle' \in Addr \cup {None}, task' \in Task,
           failed' \in BOOLEAN
    PROVE  TypeOK' /\ RegistryInv' /\ Registered' = Registered
  BY DEF TypeOK, RegistryInv, Filled, Registered

(* After a failure nothing is promised: the MsgTask is ready again.        *)
LEMMA FailedCovers == ASSUME failed' = TRUE, task' = Ready PROVE CoverInv'
  BY DEF CoverInv

LEMMA TakeOpenInv == ASSUME ApiInv, TakeOpen PROVE ApiInv'
<1> USE DEF ApiInv
<1> DEFINE m == NewMask(Head(queue).mask)
<1>1. /\ task = Ready /\ queue # <<>> /\ Head(queue).type = "open"
      /\ queue' = Tail(queue)
      /\ UNCHANGED <<client, slots, mMask, handle, failed>>
      /\ IF handle = None THEN Step("connect", m, FALSE)
         ELSE IF m # mMask THEN Step("update", m, FALSE) ELSE UNCHANGED task
  BY DEF TakeOpen, Take
<1>2. queue \in Seq(Msg) /\ mMask \in SUBSET Event
  BY DEF TypeOK
<1>3. queue' \in Seq(Msg) /\ Head(queue).mask \in SUBSET Event
  BY <1>1, <1>2, HeadTyped
<1>4. m \in SUBSET Event /\ mMask \subseteq m /\ Head(queue).mask \ Excluded \subseteq m
  BY <1>2, <1>3 DEF NewMask
<1> HIDE DEF m
<1>5. ClientTypeOK' /\ ClientInv'
  BY <1>1, ClientKept
<1>6. \/ handle = None /\ task' \in Task /\ task' # Ready /\ task'.pc = "connect" /\ task'.mask = m
      \/ handle # None /\ task' \in Task /\ task' # Ready /\ task'.pc = "update" /\ task'.mask = m
      \/ handle # None /\ m = mMask /\ task' = Ready
  BY <1>1, <1>4, StepIs
<1>7. TypeOK' /\ RegistryInv' /\ Registered' = Registered
  <2>1. task' \in Task
    BY <1>6, ReadyIs
  <2>2. QED
    BY <1>1, <1>3, <1>5, <2>1, TaskTyped DEF TypeOK
<1>8. /\ task.pc = "idle" /\ UNCHANGED <<data, dead, reg>>
  BY <1>1, ReadyIs DEF client
<1>9. OpenInv' /\ MaskInv'
  BY <1>1, <1>4, <1>6, <1>8, ReadyIs DEF OpenInv, MaskInv, User
<1>10. ASSUME NEW a \in Registered, Covered(a) PROVE Covered(a)'
  <2>1. ~OnTheWay(a)
    BY <1>1 DEF OnTheWay
  <2>2. CASE Reached(a)
    <3>1. handle # None /\ Events(a) \subseteq mMask
      BY <2>2 DEF Reached
    <3>2. Reached(a)'
      BY <1>1, <1>6, <3>1, ReadyIs DEF Reached
    <3>3. QED
      BY <3>2 DEF Covered
  <2>3. CASE Queued(a, Tail(queue))
    BY <1>1, <2>3 DEF Covered
  <2>4. CASE Events(a) \subseteq Head(queue).mask
    <3>1. Events(a) \subseteq m
      BY <1>4, <2>4 DEF Events
    <3>2. CASE task' # Ready
      BY <1>6, <3>1, <3>2 DEF Covered, OnTheWay
    <3>3. CASE task' = Ready
      <4>1. handle' # None /\ task'.pc = "idle" /\ Events(a) \subseteq mMask'
        BY <1>1, <1>6, <3>1, <3>3, ReadyIs
      <4>2. QED
        BY <4>1 DEF Covered, Reached
    <3>4. QED
      BY <3>2, <3>3
  <2>5. QED
    BY <1>1, <1>2, <1>10, <2>1, <2>2, <2>3, <2>4, QueuedTail DEF Covered
<1>11. task' # Ready => task'.ssr = FALSE
  BY <1>1, <1>4, StepIs
<1>12. CoverInv'
  BY <1>1, <1>7, <1>10, <1>11, CoverKept
<1>13. QED
  BY <1>5, <1>7, <1>9, <1>12

LEMMA TakeSsrInv == ASSUME ApiInv, TakeSsr PROVE ApiInv'
<1> USE DEF ApiInv
<1> DEFINE m == EvtMask(slots)
<1>1. /\ task = Ready /\ queue # <<>> /\ queue' = Tail(queue)
      /\ Close /\ Step("connect", m, TRUE) /\ UNCHANGED <<slots, failed>>
  BY DEF TakeSsr, Take
<1>2. m \in SUBSET Event
  BY MaskTyped DEF TypeOK
<1>3. ASSUME NEW a \in Registered PROVE Events(a) \subseteq m
  <2>1. PICK i \in Slot : slots[i] = a
    BY DEF Registered
  <2>2. slots[i] # None
    BY <2>1, LocApiAssumption DEF Registered
  <2>3. QED
    BY <2>1, <2>2, MaskServes DEF TypeOK
<1> HIDE DEF m
<1>4. task' \in Task /\ task' # Ready /\ task'.pc = "connect" /\ task'.mask = m
  BY <1>1, <1>2, StepIs
<1>5. ClientTypeOK' /\ ClientInv' /\ handle' = None /\ mMask' = {}
  BY <1>1, CloseInv
<1>6. queue' \in Seq(Msg)
  BY <1>1, HeadTyped DEF TypeOK
<1>7. TypeOK' /\ RegistryInv' /\ Registered' = Registered
  BY <1>1, <1>4, <1>5, <1>6, TaskTyped DEF TypeOK
<1>8. OpenInv' /\ MaskInv'
  BY <1>4, <1>5 DEF OpenInv, MaskInv
<1>9. CoverInv'
  <2>1. ASSUME NEW a \in Registered' PROVE Covered(a)'
    BY <1>3, <1>4, <1>7, <2>1 DEF Covered, OnTheWay
  <2>2. QED
    BY <2>1 DEF CoverInv
<1>10. QED
  BY <1>5, <1>7, <1>8, <1>9

LEMMA ConnectStep == ASSUME ApiInv, Connect PROVE ApiInv'
<1> USE DEF ApiInv
<1>1. /\ task.pc = "connect" /\ Step("register", task.mask, task.ssr)
      /\ UNCHANGED <<slots, queue, mMask, failed>>
  BY DEF Connect
<1>2. handle = None /\ mMask = {}
  BY <1>1 DEF OpenInv
<1>3. PICK a \in Addr, h \in Handle : CtrlPointInit(a, h) /\ handle' = a
  BY DEF Connect
<1>4. ClientTypeOK' /\ ClientInv'
  BY <1>2, <1>3, ConnectInv
<1>5. task # Ready /\ handle' # None
  BY <1>1, <1>3, ReadyIs, NoneAssumption
<1>6. /\ task' \in Task /\ task' # Ready
      /\ task'.pc = "register" /\ task'.mask = task.mask /\ task'.ssr = task.ssr
  BY <1>1, <1>5, TaskFields, StepIs
<1>7. TypeOK' /\ RegistryInv' /\ Registered' = Registered
  BY <1>1, <1>3, <1>4, <1>6, TaskTyped DEF TypeOK
<1>8. OpenInv' /\ MaskInv'
  BY <1>1, <1>2, <1>5, <1>6 DEF OpenInv, MaskInv
<1>9. ASSUME NEW b \in Registered, Covered(b) PROVE Covered(b)'
  BY <1>1, <1>2, <1>5, <1>6, <1>9 DEF Covered, Reached, OnTheWay
<1>10. CoverInv'
  BY <1>1, <1>5, <1>6, <1>7, <1>9, CoverKept
<1>11. QED
  BY <1>4, <1>7, <1>8, <1>10

LEMMA OpenFailedInv ==
    ASSUME ApiInv, OpenFailed, ClientTypeOK', ClientInv', UNCHANGED <<slots, queue>>
    PROVE  ApiInv'
<1> USE DEF ApiInv
<1>1. mMask' = {} /\ handle' = None /\ task' = Ready /\ failed' = TRUE
  BY DEF OpenFailed
<1>2. TypeOK' /\ RegistryInv'
  BY <1>1, ReadyIs, TaskTyped DEF TypeOK
<1>3. OpenInv' /\ MaskInv'
  BY <1>1, ReadyIs DEF OpenInv, MaskInv
<1>4. QED
  BY <1>1, <1>2, <1>3, FailedCovers

LEMMA ConnectFailedInv == ASSUME ApiInv, ConnectFailed PROVE ApiInv'
<1>1. /\ handle = None /\ handle' = None /\ OpenFailed /\ UNCHANGED <<slots, queue>>
      /\ UNCHANGED client \/ \E a \in Addr, h \in Handle : CtrlPointLeft(a, h)
  BY DEF ConnectFailed, OpenFailed, ApiInv, OpenInv
<1>2. ClientTypeOK' /\ ClientInv'
  BY <1>1, ClientKept, LeftInv DEF ApiInv
<1>3. QED
  BY <1>1, <1>2, OpenFailedInv

LEMMA RegisterFailedInv == ASSUME ApiInv, RegisterFailed PROVE ApiInv'
<1>1. handle # None /\ Release(handle) /\ OpenFailed /\ UNCHANGED <<slots, queue>>
  BY DEF RegisterFailed, ApiInv, OpenInv
<1>2. ClientTypeOK' /\ ClientInv'
  BY <1>1, ReleaseInv DEF ApiInv, OpenFailed
<1>3. QED
  BY <1>1, <1>2, OpenFailedInv

LEMMA RegisterInv == ASSUME ApiInv, Register PROVE ApiInv'
<1> USE DEF ApiInv
<1> DEFINE p == IF task.pc = "register" THEN "keep" ELSE "updated"
<1>1. /\ task.pc \in {"register", "update"} /\ SendMask(handle, task.mask)
      /\ task' = [task EXCEPT !.pc = p]
      /\ UNCHANGED <<slots, queue, mMask, handle, failed>>
  BY DEF Register
<1>2. task # Ready /\ handle # None
  BY <1>1, ReadyIs DEF OpenInv
<1>3. /\ task' \in Task /\ task' # Ready
      /\ task'.pc = p /\ task'.mask = task.mask /\ task'.ssr = task.ssr
      /\ task.mask \in SUBSET Event
  BY <1>1, <1>2, TaskFields
<1>4. /\ ClientTypeOK' /\ ClientInv' /\ User' = User /\ reg'[User] = task.mask
      /\ UNCHANGED <<data, dead>>
  BY <1>1, <1>2, <1>3, SendMaskInv
<1>5. TypeOK' /\ RegistryInv' /\ Registered' = Registered
  BY <1>1, <1>3, <1>4, TaskTyped DEF TypeOK
<1>6. mMask \subseteq task.mask /\ (p = "keep" => mMask = {}) /\ (p = "updated" => data[handle].cbs)
  BY <1>1, <1>2 DEF OpenInv
<1>7. OpenInv' /\ MaskInv'
  BY <1>1, <1>2, <1>3, <1>4, <1>6 DEF OpenInv, MaskInv
<1>8. ASSUME NEW b \in Registered, Covered(b) PROVE Covered(b)'
  BY <1>1, <1>2, <1>3, <1>8 DEF Covered, Reached, OnTheWay
<1>9. CoverInv'
  BY <1>1, <1>2, <1>3, <1>5, <1>8, CoverKept
<1>10. QED
  BY <1>4, <1>5, <1>7, <1>9

LEMMA KeepInv == ASSUME ApiInv, Keep PROVE ApiInv'
<1> USE DEF ApiInv
<1>1. /\ task.pc = "keep" /\ KeepMask(handle, task.mask)
      /\ task' = [task EXCEPT !.pc = "fill"]
      /\ UNCHANGED <<slots, queue, mMask, handle, failed>>
  BY DEF Keep
<1>2. task # Ready /\ handle # None /\ mMask = {} /\ (User \in dead \/ reg[User] = task.mask)
  BY <1>1, ReadyIs DEF OpenInv
<1>3. /\ task' \in Task /\ task' # Ready
      /\ task'.pc = "fill" /\ task'.mask = task.mask /\ task'.ssr = task.ssr
      /\ task.mask \in SUBSET Event
  BY <1>1, <1>2, TaskFields
<1>4. ClientTypeOK' /\ ClientInv' /\ User' = User /\ UNCHANGED <<reg, dead>>
  BY <1>1, <1>2, <1>3, KeepMaskInv
<1>5. TypeOK' /\ RegistryInv' /\ Registered' = Registered
  BY <1>1, <1>3, <1>4, TaskTyped DEF TypeOK
<1>6. OpenInv' /\ MaskInv'
  BY <1>1, <1>2, <1>3, <1>4 DEF OpenInv, MaskInv
<1>7. ASSUME NEW b \in Registered, Covered(b) PROVE Covered(b)'
  BY <1>1, <1>2, <1>3, <1>7 DEF Covered, Reached, OnTheWay
<1>8. CoverInv'
  BY <1>1, <1>2, <1>3, <1>5, <1>7, CoverKept
<1>9. QED
  BY <1>4, <1>5, <1>6, <1>8

LEMMA OpenedInv == ASSUME ApiInv, Opened PROVE ApiInv'
<1> USE DEF ApiInv
<1>1. /\ task.pc = "fill" /\ FillIn(handle, task.mask)
      /\ mMask' = task.mask /\ task' = Ready /\ failed' = (failed /\ ~task.ssr)
      /\ UNCHANGED <<slots, queue, handle>>
  BY DEF Opened
<1>2. task # Ready /\ handle # None /\ mMask = {} /\ (User \in dead \/ reg[User] = task.mask)
  BY <1>1, ReadyIs DEF OpenInv
<1>3. task.mask \in SUBSET Event /\ task.ssr \in BOOLEAN
  BY <1>2, TaskFields
<1>4. /\ ClientTypeOK' /\ ClientInv' /\ User' = User /\ UNCHANGED <<reg, dead>>
      /\ data'[handle].mask = task.mask /\ data'[handle].cbs
  BY <1>1, <1>2, <1>3, KeepMaskInv
<1>5. TypeOK' /\ RegistryInv' /\ Registered' = Registered
  BY <1>1, <1>3, <1>4, ReadyIs, TaskTyped DEF TypeOK
<1>6. OpenInv' /\ MaskInv'
  BY <1>1, <1>2, <1>4, ReadyIs DEF OpenInv, MaskInv
<1>7. ASSUME NEW b \in Registered, Covered(b) PROVE Covered(b)'
  BY <1>1, <1>2, <1>7, ReadyIs DEF Covered, Reached, OnTheWay
<1>8. CoverInv'
  BY <1>1, <1>2, <1>5, <1>7, CoverKept
<1>9. QED
  BY <1>4, <1>5, <1>6, <1>8

LEMMA UpdatedInv == ASSUME ApiInv, Updated PROVE ApiInv'
<1> USE DEF ApiInv
<1>1. /\ task.pc = "updated" /\ KeepMask(handle, task.mask)
      /\ mMask' = task.mask /\ task' = Ready
      /\ UNCHANGED <<slots, queue, handle, failed>>
  BY DEF Updated
<1>2. /\ task # Ready /\ handle # None /\ mMask \subseteq task.mask
      /\ User \in dead \/ reg[User] = task.mask
      /\ data[handle].cbs
  BY <1>1, ReadyIs DEF OpenInv
<1>3. task.mask \in SUBSET Event
  BY <1>2, TaskFields
<1>4. /\ ClientTypeOK' /\ ClientInv' /\ User' = User /\ UNCHANGED <<reg, dead>>
      /\ data'[handle].mask = task.mask /\ data'[handle].cbs
  BY <1>1, <1>2, <1>3, KeepMaskInv
<1>5. TypeOK' /\ RegistryInv' /\ Registered' = Registered
  BY <1>1, <1>3, <1>4, ReadyIs, TaskTyped DEF TypeOK
<1>6. OpenInv' /\ MaskInv'
  BY <1>1, <1>2, <1>4, ReadyIs DEF OpenInv, MaskInv
<1>7. ASSUME NEW b \in Registered, Covered(b) PROVE Covered(b)'
  BY <1>1, <1>2, <1>7, ReadyIs DEF Covered, Reached, OnTheWay
<1>8. CoverInv'
  BY <1>1, <1>2, <1>5, <1>7, CoverKept
<1>9. QED
  BY <1>4, <1>5, <1>6, <1>8

LEMMA UpdateFailedInv == ASSUME ApiInv, UpdateFailed PROVE ApiInv'
<1> USE DEF ApiInv
<1>1. /\ task.pc \in {"update", "updated"} /\ task' = Ready /\ failed' = TRUE
      /\ UNCHANGED <<client, slots, queue, mMask, handle>>
  BY DEF UpdateFailed
<1>2. ClientTypeOK' /\ ClientInv'
  BY <1>1, ClientKept
<1>3. TypeOK' /\ RegistryInv'
  BY <1>1, <1>2, ReadyIs, TaskTyped DEF TypeOK
<1>4. handle # None /\ data[handle].cbs
  BY <1>1 DEF OpenInv
<1>5. OpenInv' /\ MaskInv'
  BY <1>1, <1>4, ReadyIs DEF OpenInv, MaskInv, User, client
<1>6. QED
  BY <1>1, <1>2, <1>3, <1>5, FailedCovers
-----------------------------------------------------------------------------
(* The steps: QCCI and the service.                                        *)

LEMMA OutsideStep ==
    ASSUME ApiInv, RxError \/ RxErrorCopy \/ RxDone \/ ServiceLost \/ ServiceBack,
           UNCHANGED <<slots, mMask, handle, task, failed>>,
           queue' = queue \/ queue' = Append(queue, SsrMsg)
    PROVE  ApiInv'
<1> USE DEF ApiInv
<1>1. /\ ClientTypeOK' /\ ClientInv' /\ UNCHANGED data
      /\ dead \subseteq dead'
      /\ \A h \in Handle : conn[h] # None => h \in dead' \/ reg'[h] = reg[h]
  BY OutsideInv
<1>2. queue \in Seq(Msg) /\ SsrMsg \in Msg
  BY MsgIs DEF TypeOK
<1>3. queue' \in Seq(Msg)
  BY <1>2, QueuedAppend
<1>4. TypeOK' /\ RegistryInv' /\ Registered' = Registered
  BY <1>1, <1>3, TaskTyped DEF TypeOK
<1>5. ASSUME handle # None PROVE User' = User /\ (User \in dead' \/ reg'[User] = reg[User])
  <2>1. handle \in Addr /\ User # None
    BY <1>5 DEF TypeOK, ClientInv, User
  <2>2. User \in Handle /\ conn[User] # None
    BY <2>1, UserIs, NoneAssumption DEF User
  <2>3. QED
    BY <1>1, <2>2 DEF User
<1>6. OpenInv'
  <2>1. task.pc \in {"keep", "fill", "updated"} => User' \in dead' \/ reg'[User'] = task.mask
    BY <1>1, <1>5 DEF OpenInv
  <2>2. QED
    BY <1>1, <2>1 DEF OpenInv
<1>7. MaskInv'
  BY <1>1, <1>5 DEF MaskInv
<1>8. ASSUME NEW b \in Registered, Covered(b) PROVE Covered(b)'
  <2>1. Queued(b, queue) => Queued(b, queue')
    BY <1>2, QueuedAppend
  <2>2. QED
    BY <1>8, <2>1 DEF Covered, Reached, OnTheWay
<1>9. CoverInv'
  BY <1>4, <1>8, CoverKept
<1>10. QED
  BY <1>1, <1>4, <1>6, <1>7, <1>9

LEMMA StutterInv == ASSUME ApiInv, UNCHANGED vars PROVE ApiInv'
  BY DEF vars, client, api, ApiInv, TypeOK, ClientTypeOK, Open, RegistryInv, Filled, ClientInv, Called,
         OpenInv, MaskInv, User, CoverInv, Registered, Covered, Reached, OnTheWay

LEMMA StepInv == ApiInv /\ [Next]_vars => ApiInv'
<1> SUFFICES ASSUME ApiInv, [Next]_vars PROVE ApiInv'
  OBVIOUS
<1>1. ASSUME NEW a \in Adapter, AddAdapter(a) PROVE ApiInv'
  BY <1>1, AddAdapterInv
<1>2. ASSUME NEW i \in Slot, RemoveAdapter(i) PROVE ApiInv'
  BY <1>2, RemoveAdapterInv
<1>3. CASE MsgTask
  BY <1>3, TakeOpenInv, TakeSsrInv, ConnectStep, ConnectFailedInv, RegisterInv, KeepInv,
     RegisterFailedInv, OpenedInv, UpdatedInv, UpdateFailedInv DEF MsgTask
<1>4. CASE Qcci
  <2>1. CASE (RxError \/ RxErrorCopy) /\ UNCHANGED api
    BY <2>1, OutsideStep DEF api
  <2>2. CASE Callback
    BY <2>2, OutsideStep DEF Callback
  <2>3. QED
    BY <1>4, <2>1, <2>2 DEF Qcci
<1>5. CASE (ServiceLost \/ ServiceBack) /\ UNCHANGED api
  BY <1>5, OutsideStep DEF api
<1>6. CASE UNCHANGED vars
  BY <1>6, StutterInv
<1>7. QED
  BY <1>1, <1>2, <1>3, <1>4, <1>5, <1>6 DEF Next

LEMMA InvariantHolds == Spec => []ApiInv
<1>1. QED
  BY InitInv, StepInv, PTL DEF Spec

-----------------------------------------------------------------------------
(* The theorems.                                                           *)

(* Every variable has its type: a handle that QCCI reports lost is one     *)
(* that is open, and an open that is under way knows its mask.             *)
THEOREM TypeCorrect == Spec => []TypeOK
<1>1. ApiInv => TypeOK
  BY DEF ApiInv
<1>2. QED
  BY <1>1, InvariantHolds, PTL

(* Adapters may come and go in any order, while the service is lost and    *)
(* comes back, while registrations fail, and while the MsgTask is anywhere *)
(* in an open: once it has taken all its messages, every adapter in the    *)
(* array is called with all it asked for, unless an open or a registration *)
(* failed that no restart made good.                                       *)
THEOREM AdaptersAlwaysServed == Spec => []EveryAdapterServed
<1>1. ASSUME ApiInv PROVE EveryAdapterServed
  <2> SUFFICES ASSUME Settled, ~failed, NEW a \in Registered PROVE Served(a)
    BY DEF EveryAdapterServed
  <2> USE <1>1 DEF ApiInv
  <2>1. task = Ready /\ task.pc = "idle" /\ queue = <<>>
    BY ReadyIs DEF Settled
  <2>2. Covered(a)
    BY DEF CoverInv
  <2>3. ~Queued(a, queue) /\ ~OnTheWay(a)
    BY <2>1 DEF Queued, OnTheWay
  <2>4. handle # None /\ Events(a) \subseteq mMask
    BY <2>2, <2>3 DEF Covered, Reached
  <2>5. data[handle].cbs
    BY <2>1, <2>4 DEF OpenInv
  <2>6. data[handle].mask = mMask /\ (User \in dead \/ reg[User] = mMask)
    BY <2>1, <2>4 DEF MaskInv
  <2>7. \E i \in Slot : slots[i] = a /\ \A j \in 1 .. i : slots[j] # None
    <3>1. PICK i \in Slot : slots[i] = a
      BY DEF Registered
    <3>2. PICK n \in 0 .. MaxAdapters : Filled(slots, n)
      BY DEF RegistryInv
    <3>3. i <= n
      BY <3>1, <3>2, LocApiAssumption DEF Filled, Registered
    <3>4. ASSUME NEW j \in 1 .. i PROVE slots[j] # None
      BY <3>2, <3>3, LocApiAssumption DEF Filled, Slot
    <3>5. QED
      BY <3>1, <3>4
  <2>8. QED
    BY <2>4, <2>5, <2>6, <2>7 DEF Served, User, Events
<1>2. QED
  BY <1>1, InvariantHolds, PTL

(* Whatever opens failed half way, whatever was closed while the MsgTask   *)
(* or QCCI was busy, and however many clients an open left behind in QCCI, *)
(* only the callback data behind clientHandle is in use, and QCCI has an   *)
(* error callback or events for no other.                                  *)
THEOREM AlwaysOneListener == Spec => []OneListener
<1>1. ASSUME ApiInv PROVE OneListener
  <2> USE <1>1 DEF ApiInv
  <2>1. ASSUME NEW a \in Addr, data[a] # Zeroed PROVE a = handle /\ data[a].user \in Open
    <3>1. a = handle /\ data[a].user # None /\ conn[data[a].user] = a
      BY <2>1 DEF ClientInv
    <3>2. data[a].user \in Handle
      BY <3>1, UserIs
    <3>3. QED
      BY <3>1, <3>2, NoneAssumption DEF Open
  <2>2. ASSUME NEW h \in Open, Called(h) PROVE data[conn[h]].user = h
    BY <2>2 DEF Open, ClientInv
  <2>3. QED
    BY <2>1, <2>2 DEF OneListener, ClientInv
<1>2. QED
  BY <1>1, InvariantHolds, PTL

(* Whatever fails between the modem's answer and the client's own copy,    *)
(* the LocApi believes no event registered that the modem would not send:  *)
(* the next open that wants it is never skipped.                           *)
THEOREM MaskAlwaysHonest == Spec => []MaskHonest
<1>1. ApiInv => MaskHonest
  BY DEF ApiInv, OpenInv, MaskInv, MaskHonest, User
<1>2. QED
  BY <1>1, InvariantHolds, PTL
=============================================================================
