------------------------ MODULE DSStateMachineProofs ------------------------
(***************************************************************************)
(* Theorems of DSStateMachine, for any number of handles, any number of    *)
(* retries and any length of the queue: a live data call always has a      *)
(* machine that will stop it, and there is never a second one.             *)
(***************************************************************************)
EXTENDS DSStateMachine, SequenceTheorems, FiniteSetTheorems, TLAPS

(* The queue after a handler took its message and left others, none of     *)
(* them an event of the data call.                                         *)
LEMMA TakenShape ==
    ASSUME msgs \in Seq(Message), msgs # <<>>,
           NEW q \in Seq(Message), \A i \in DOMAIN q : q[i] \notin {Opened, Closed},
           msgs' = Tail(msgs) \o q
    PROVE  /\ msgs' \in Seq(Message)
           /\ \A i \in DOMAIN msgs' : msgs'[i] \in {Opened, Closed} =>
                 i + 1 \in DOMAIN msgs /\ msgs[i + 1] = msgs'[i]
           /\ \A i \in DOMAIN msgs : i > 1 =>
                 i - 1 \in DOMAIN msgs' /\ msgs'[i - 1] = msgs[i]
<1>1. /\ Tail(msgs) \in Seq(Message)
      /\ Len(Tail(msgs)) = Len(msgs) - 1
      /\ \A i \in 1 .. Len(Tail(msgs)) : Tail(msgs)[i] = msgs[i + 1]
  BY HeadTailProperties
<1>2. /\ msgs' \in Seq(Message)
      /\ Len(msgs') = Len(Tail(msgs)) + Len(q)
      /\ \A i \in 1 .. Len(msgs') :
            msgs'[i] = IF i <= Len(Tail(msgs)) THEN Tail(msgs)[i] ELSE q[i - Len(Tail(msgs))]
  BY <1>1, ConcatProperties
<1>3. Len(msgs) \in Nat /\ Len(msgs) >= 1 /\ Len(q) \in Nat
      /\ DOMAIN msgs = 1 .. Len(msgs) /\ DOMAIN q = 1 .. Len(q) /\ DOMAIN msgs' = 1 .. Len(msgs')
  BY <1>2, LenProperties, EmptySeq
<1>4. ASSUME NEW i \in DOMAIN msgs', msgs'[i] \in {Opened, Closed}
      PROVE  i + 1 \in DOMAIN msgs /\ msgs[i + 1] = msgs'[i]
  <2>1. i \in 1 .. Len(msgs')
    BY <1>3, <1>4
  <2>2. i <= Len(Tail(msgs))
    <3>1. SUFFICES ASSUME ~(i <= Len(Tail(msgs))) PROVE FALSE
      OBVIOUS
    <3>2. msgs'[i] = q[i - Len(Tail(msgs))] /\ i - Len(Tail(msgs)) \in DOMAIN q
      BY <1>1, <1>2, <1>3, <2>1, <3>1
    <3>3. QED
      BY <3>2, <1>4
  <2>3. QED
    BY <1>1, <1>2, <1>3, <2>1, <2>2
<1>5. ASSUME NEW i \in DOMAIN msgs, i > 1
      PROVE  i - 1 \in DOMAIN msgs' /\ msgs'[i - 1] = msgs[i]
  BY <1>1, <1>2, <1>3, <1>5
<1>6. QED
  BY <1>2, <1>4, <1>5

(* What that means for the events of the call.                             *)
LEMMA Taken ==
    ASSUME msgs \in Seq(Message), msgs # <<>>, EventsInOrder,
           NEW q \in Seq(Message), \A i \in DOMAIN q : q[i] \notin {Opened, Closed},
           msgs' = Tail(msgs) \o q
    PROVE  /\ msgs' \in Seq(Message)
           /\ EventsInOrder'
           /\ InSeq(Opened, msgs') => InSeq(Opened, msgs)
           /\ InSeq(Closed, msgs') => InSeq(Closed, msgs)
           /\ Head(msgs) # Closed /\ InSeq(Closed, msgs) => InSeq(Closed, msgs')
           /\ Head(msgs) = Closed => ~InSeq(Closed, msgs') /\ ~InSeq(Opened, msgs')
           /\ Head(msgs) = Opened => ~InSeq(Opened, msgs')
<1> DEFINE S == msgs'
<1>1. /\ S \in Seq(Message)
      /\ \A i \in DOMAIN S : S[i] \in {Opened, Closed} => i + 1 \in DOMAIN msgs /\ msgs[i + 1] = S[i]
      /\ \A i \in DOMAIN msgs : i > 1 => i - 1 \in DOMAIN S /\ S[i - 1] = msgs[i]
  BY TakenShape
<1>2. /\ DOMAIN msgs = 1 .. Len(msgs) /\ DOMAIN S = 1 .. Len(S)
      /\ Len(msgs) \in Nat /\ Len(S) \in Nat
      /\ 1 \in DOMAIN msgs /\ Head(msgs) = msgs[1]
  BY <1>1, LenProperties, EmptySeq, HeadTailProperties
<1> HIDE DEF S
<1>3. Opened # Closed
  BY DEF Opened, Closed
<1>4. EventsInOrder'
  <2>1. SUFFICES ASSUME NEW i \in DOMAIN S, NEW j \in DOMAIN S
                 PROVE  /\ S[i] = Opened /\ S[j] = Opened => i = j
                        /\ S[i] = Closed /\ S[j] = Closed => i = j
                        /\ S[i] = Closed /\ S[j] = Opened => j < i
    BY DEF EventsInOrder, S, Opened, Closed
  <2>2. i \in Nat /\ j \in Nat
    BY <1>2
  <2>3. CASE S[i] \in {Opened, Closed} /\ S[j] \in {Opened, Closed}
    <3>1. /\ i + 1 \in DOMAIN msgs /\ msgs[i + 1] = S[i]
          /\ j + 1 \in DOMAIN msgs /\ msgs[j + 1] = S[j]
      BY <1>1, <2>3
    <3>2. /\ S[i] = Opened /\ S[j] = Opened => i + 1 = j + 1
          /\ S[i] = Closed /\ S[j] = Closed => i + 1 = j + 1
          /\ S[i] = Closed /\ S[j] = Opened => j + 1 < i + 1
      BY <3>1 DEF EventsInOrder
    <3>3. QED
      BY <2>2, <3>2
  <2>4. QED
    BY <2>3
<1>5. /\ InSeq(Opened, S) => InSeq(Opened, msgs)
      /\ InSeq(Closed, S) => InSeq(Closed, msgs)
  BY <1>1 DEF InSeq
<1>6. ASSUME Head(msgs) # Closed, InSeq(Closed, msgs) PROVE InSeq(Closed, S)
  <2>1. PICK i \in DOMAIN msgs : msgs[i] = Closed
    BY <1>6 DEF InSeq
  <2>2. i > 1
    BY <1>2, <1>6, <2>1
  <2>3. QED
    BY <1>1, <2>1, <2>2 DEF InSeq
<1>7. ASSUME Head(msgs) = Closed PROVE ~InSeq(Closed, S) /\ ~InSeq(Opened, S)
  <2>1. ASSUME NEW i \in DOMAIN S, S[i] \in {Opened, Closed} PROVE FALSE
    <3>1. i \in Nat /\ i >= 1 /\ i + 1 \in DOMAIN msgs /\ msgs[i + 1] = S[i]
      BY <1>1, <1>2, <2>1
    <3>2. msgs[1] = Closed
      BY <1>2, <1>7
    <3>3. i + 1 = 1 \/ i + 1 < 1
      BY <1>2, <2>1, <3>1, <3>2 DEF EventsInOrder
    <3>4. QED
      BY <3>1, <3>3
  <2>2. QED
    BY <2>1 DEF InSeq
<1>8. ASSUME Head(msgs) = Opened PROVE ~InSeq(Opened, S)
  <2>1. ASSUME NEW i \in DOMAIN S, S[i] = Opened PROVE FALSE
    <3>1. i \in Nat /\ i >= 1 /\ i + 1 \in DOMAIN msgs /\ msgs[i + 1] = Opened
      BY <1>1, <1>2, <2>1
    <3>2. i + 1 = 1
      BY <1>2, <1>8, <3>1 DEF EventsInOrder
    <3>3. QED
      BY <3>1, <3>2
  <2>2. QED
    BY <2>1 DEF InSeq
<1>9. QED
  BY <1>1, <1>4, <1>5, <1>6, <1>7, <1>8 DEF S

-----------------------------------------------------------------------------
(* Every handler of the MsgTask takes one message and leaves only requests *)
(* to agnss_nif.                                                           *)
LEMMA Requests ==
    ASSUME NEW c \in Client, NEW k \in {"supl_es", "atl", "release"}
    PROVE  <<k, c>> \in Message /\ <<k, c>> # Opened /\ <<k, c>> # Closed
<1>1. k # "opened" /\ k # "closed"
  OBVIOUS
<1>2. QED
  BY <1>1 DEF Message, Opened, Closed

TaskQueue ==
    /\ msgs # <<>>
    /\ \E q \in Seq(Message) :
          /\ \A i \in DOMAIN q : q[i] \notin {Opened, Closed}
          /\ msgs' = Tail(msgs) \o q

LEMMA LeavingNothing ==
    ASSUME msgs # <<>>, Leaving(<<>>)
    PROVE  TaskQueue
<1>1. <<>> \in Seq(Message) /\ DOMAIN <<>> = {}
  BY EmptySeq
<1>2. QED
  BY <1>1 DEF TaskQueue, Leaving

LEMMA LeavingFallBack ==
    ASSUME msgs # <<>>, NEW S \in SUBSET Client, FallBack(S)
    PROVE  TaskQueue
<1>1. Cardinality(S) \in Nat
  BY ClientAssumption, FS_Subset, FS_CardinalityType
<1>2. PICK q \in Orders(S) : Leaving([i \in DOMAIN q |-> <<"atl", q[i]>>])
  BY DEF FallBack
<1> DEFINE out == [i \in DOMAIN q |-> <<"atl", q[i]>>]
<1>3. q \in [1 .. Cardinality(S) -> S]
  BY <1>2 DEF Orders
<1>4. \A i \in DOMAIN q : <<"atl", q[i]>> \in Message
                         /\ <<"atl", q[i]>> \notin {Opened, Closed}
  BY <1>3, Requests
<1>5. out \in [1 .. Cardinality(S) -> Message]
  BY <1>3, <1>4
<1>6. out \in Seq(Message)
  BY <1>1, <1>5, SeqDef
<1>7. \A i \in DOMAIN out : out[i] \notin {Opened, Closed}
  BY <1>4
<1>8. msgs' = Tail(msgs) \o out
  BY <1>2 DEF Leaving
<1> HIDE DEF out
<1>9. QED
  BY <1>6, <1>7, <1>8 DEF TaskQueue

LEMMA LeavingAttempt ==
    ASSUME msgs # <<>>, NEW d \in Client, StartDataCall \/ RetryLater(d) \/ GiveUp(d)
    PROVE  TaskQueue
<1>1. CASE StartDataCall
  BY <1>1, LeavingNothing DEF StartDataCall
<1>2. CASE RetryLater(d)
  BY <1>2, LeavingNothing, LeavingFallBack DEF RetryLater
<1>3. CASE GiveUp(d)
  BY <1>3, LeavingFallBack DEF GiveUp
<1>4. QED
  BY <1>1, <1>2, <1>3

LEMMA TaskTakes ==
    ASSUME TypeOK, MsgTask
    PROVE  TaskQueue
<1> USE DEF Take
<1>1. ASSUME NEW c \in Client, SubscribeReleased(c) PROVE TaskQueue
  <2>1. msgs # <<>> /\ subs' \subseteq Client
    BY <1>1 DEF SubscribeReleased, TypeOK
  <2>2. StartDataCall \/ \E d \in Client : RetryLater(d) \/ GiveUp(d)
    BY <1>1, <2>1 DEF SubscribeReleased
  <2>3. QED
    BY <2>1, <2>2, <1>1, LeavingAttempt
<1>2. ASSUME NEW c \in Client,
             SubscribeWaiting(c) \/ SubscribeAcquired(c) \/ Release(c) \/ RequestATL(c)
      PROVE  TaskQueue
  BY <1>2, LeavingNothing
  DEF SubscribeWaiting, SubscribeAcquired, Release, ReleaseFromAgnss, ReleaseFromDs,
      ReleaseUnknown, RequestATL
<1>3. CASE OpenedPending \/ ClosedAcquired \/ IgnoreEvent
  BY <1>3, LeavingNothing DEF OpenedPending, ClosedAcquired, IgnoreEvent
<1>4. CASE ClosedPending
  BY <1>4, LeavingNothing, LeavingFallBack DEF ClosedPending, TypeOK
<1>5. CASE ClosedReleasing
  <2>1. msgs # <<>> /\ Active \subseteq Client
    BY <1>5 DEF ClosedReleasing, TypeOK, Active
  <2>2. Leaving(<<>>) \/ StartDataCall \/ \E d \in Client : RetryLater(d) \/ GiveUp(d)
    BY <1>5, <2>1 DEF ClosedReleasing
  <2>3. CASE Leaving(<<>>)
    BY <2>1, <2>3, LeavingNothing
  <2>4. CASE \E d \in Client : StartDataCall \/ RetryLater(d) \/ GiveUp(d)
    BY <2>1, <2>4, LeavingAttempt
  <2>5. CASE StartDataCall
    BY <2>1, <2>5, LeavingNothing DEF StartDataCall
  <2>6. QED
    BY <2>2, <2>3, <2>4, <2>5
<1>6. QED
  BY <1>1, <1>2, <1>3, <1>4, <1>5 DEF MsgTask, Subscribe, OnRsrcEvent

-----------------------------------------------------------------------------
(* Type correctness.                                                       *)

LEMMA HeardType ==
    ASSUME TypeOK, NEW S, NEW status, TellModem(S, status)
    PROVE  conn' \in [Client -> {"closed", "opening", "open", "closing"}]
BY DEF TypeOK, TellModem, Heard

LEMMA AgnssType ==
    ASSUME TypeOK,
           \/ \E c \in Client : Agnss!Ask(c) \/ Agnss!Leave(c)
           \/ Agnss!Grant \/ Agnss!Refuse \/ Agnss!Lose \/ Agnss!Forget
           \/ UNCHANGED agnss
    PROVE  held' \in BOOLEAN /\ atl' \in [Client -> Agnss!Phase]
<1> USE DEF TypeOK, Agnss!Phase, Agnss!Told
<1>1. ASSUME NEW c \in Client, Agnss!Ask(c)
      PROVE  held' \in BOOLEAN /\ atl' \in [Client -> Agnss!Phase]
  BY <1>1 DEF Agnss!Ask
<1>2. ASSUME NEW c \in Client, Agnss!Leave(c)
      PROVE  held' \in BOOLEAN /\ atl' \in [Client -> Agnss!Phase]
  BY <1>2 DEF Agnss!Leave
<1>3. CASE Agnss!Grant \/ Agnss!Refuse \/ Agnss!Lose \/ Agnss!Forget
  BY <1>3 DEF Agnss!Grant, Agnss!Refuse, Agnss!Lose, Agnss!Forget
<1>4. CASE UNCHANGED agnss
  BY <1>4 DEF agnss
<1>5. QED
  BY <1>1, <1>2, <1>3, <1>4

LEMMA AttemptType ==
    ASSUME TypeOK, NEW d, StartDataCall \/ RetryLater(d) \/ GiveUp(d)
    PROVE  /\ retries' \in Nat
           /\ timers' \in 0 .. MaxTimers
           /\ call' \in {"none", "starting", "up", "stopping"}
BY BoundAssumption DEF TypeOK, StartDataCall, RetryLater, GiveUp, FallBack

TypeButQueue ==
    /\ state \in {"released", "pending", "acquired", "releasing"}
    /\ subs \in SUBSET Client
    /\ inactive \in SUBSET subs
    /\ retries \in Nat
    /\ timers \in 0 .. MaxTimers
    /\ call \in {"none", "starting", "up", "stopping"}
    /\ conn \in [Client -> {"closed", "opening", "open", "closing"}]
    /\ held \in BOOLEAN
    /\ atl \in [Client -> Agnss!Phase]

LEMMA TaskType ==
    ASSUME TypeOK, MsgTask
    PROVE  TypeButQueue'
<1>1. ASSUME NEW c \in Client, SubscribeReleased(c) PROVE TypeButQueue'
  <2>1. StartDataCall \/ \E d \in subs' : RetryLater(d) \/ GiveUp(d)
    BY <1>1 DEF SubscribeReleased
  <2>2. /\ retries' \in Nat /\ timers' \in 0 .. MaxTimers
        /\ call' \in {"none", "starting", "up", "stopping"}
    BY <2>1, AttemptType
  <2>3. QED
    BY <1>1, <2>2, AgnssType DEF SubscribeReleased, TypeOK, TypeButQueue
<1>2. ASSUME NEW c \in Client, SubscribeWaiting(c) \/ SubscribeAcquired(c) PROVE TypeButQueue'
  BY <1>2, AgnssType, HeardType DEF SubscribeWaiting, SubscribeAcquired, TypeOK, TypeButQueue
<1>3. ASSUME NEW c \in Client, ReleaseFromAgnss(c) PROVE TypeButQueue'
  BY <1>3, AgnssType, HeardType DEF ReleaseFromAgnss, hal, TypeOK, TypeButQueue
<1>4. ASSUME NEW c \in Client, ReleaseFromDs(c) PROVE TypeButQueue'
  BY <1>4, AgnssType, HeardType DEF ReleaseFromDs, StopDataCall, TypeOK, TypeButQueue
<1>5. ASSUME NEW c \in Client, ReleaseUnknown(c) PROVE TypeButQueue'
  BY <1>5, AgnssType, HeardType DEF ReleaseUnknown, hal, TypeOK, TypeButQueue
<1>6. ASSUME NEW c \in Client, RequestATL(c) PROVE TypeButQueue'
  <2>1. conn' \in [Client -> {"closed", "opening", "open", "closing"}]
    BY <1>6, HeardType DEF RequestATL, TypeOK
  <2>2. held' \in BOOLEAN /\ atl' \in [Client -> Agnss!Phase]
    BY <1>6, AgnssType DEF RequestATL
  <2>3. QED
    BY <1>6, <2>1, <2>2 DEF RequestATL, hal, TypeOK, TypeButQueue
<1>7. CASE OpenedPending
  BY <1>7, AgnssType, HeardType DEF OpenedPending, TypeOK, TypeButQueue
<1>8. CASE ClosedPending
  <2>1. retries' \in Nat
    BY <1>8 DEF ClosedPending, FallBack, TypeOK
  <2>2. QED
    BY <1>8, <2>1, AgnssType DEF ClosedPending, TypeOK, TypeButQueue
<1>9. CASE ClosedAcquired \/ IgnoreEvent
  BY <1>9, AgnssType DEF ClosedAcquired, IgnoreEvent, hal, TypeOK, TypeButQueue
<1>10. CASE ClosedReleasing
  <2>1. /\ retries' \in Nat /\ timers' \in 0 .. MaxTimers
        /\ call' \in {"none", "starting", "up", "stopping"}
    BY <1>10, AttemptType DEF ClosedReleasing, TypeOK
  <2>2. QED
    BY <1>10, <2>1, AgnssType DEF ClosedReleasing, Active, TypeOK, TypeButQueue
<1>11. QED
  BY <1>1, <1>2, <1>3, <1>4, <1>5, <1>6, <1>7, <1>8, <1>9, <1>10
  DEF MsgTask, Subscribe, Release, OnRsrcEvent

-----------------------------------------------------------------------------
(* The steps outside the MsgTask post at most one message.                 *)
LEMMA Posted ==
    ASSUME msgs \in Seq(Message), EventsInOrder, NEW m \in Message,
           msgs' = Append(msgs, m),
           m = Opened => ~InSeq(Opened, msgs) /\ ~InSeq(Closed, msgs),
           m = Closed => ~InSeq(Closed, msgs)
    PROVE  /\ msgs' \in Seq(Message)
           /\ EventsInOrder'
           /\ InSeq(Opened, msgs') <=> InSeq(Opened, msgs) \/ m = Opened
           /\ InSeq(Closed, msgs') <=> InSeq(Closed, msgs) \/ m = Closed
<1> DEFINE S == msgs'
           n == Len(msgs) + 1
<1>1. /\ S \in Seq(Message) /\ Len(S) = n
      /\ \A i \in 1 .. Len(msgs) : S[i] = msgs[i]
      /\ S[n] = m
  BY AppendProperties
<1>2. /\ Len(msgs) \in Nat /\ n \in Nat
      /\ DOMAIN msgs = 1 .. Len(msgs) /\ DOMAIN S = 1 .. n
  BY <1>1, LenProperties
<1>3. DOMAIN S = DOMAIN msgs \cup {n} /\ \A i \in DOMAIN msgs : i < n
  BY <1>2
<1>4. \A i \in DOMAIN msgs : S[i] = msgs[i]
  BY <1>1, <1>2
<1> HIDE DEF S, n
<1>5. \A e : InSeq(e, S) <=> InSeq(e, msgs) \/ m = e
  BY <1>1, <1>3, <1>4 DEF InSeq
<1>6. Opened # Closed
  BY DEF Opened, Closed
<1>7. EventsInOrder'
  <2>1. SUFFICES ASSUME NEW i \in DOMAIN S, NEW j \in DOMAIN S
                 PROVE  /\ S[i] = Opened /\ S[j] = Opened => i = j
                        /\ S[i] = Closed /\ S[j] = Closed => i = j
                        /\ S[i] = Closed /\ S[j] = Opened => j < i
    BY DEF EventsInOrder, S, Opened, Closed
  <2>2. CASE i \in DOMAIN msgs /\ j \in DOMAIN msgs
    BY <1>4, <2>2 DEF EventsInOrder
  <2>3. CASE i \in DOMAIN msgs /\ j = n
    BY <1>1, <1>3, <1>4, <1>6, <2>3 DEF InSeq
  <2>4. CASE i = n /\ j \in DOMAIN msgs
    BY <1>1, <1>3, <1>4, <1>6, <2>4 DEF InSeq
  <2>5. CASE i = n /\ j = n
    BY <1>1, <1>6, <2>5
  <2>6. QED
    BY <1>3, <2>2, <2>3, <2>4, <2>5
<1>8. QED
  BY <1>1, <1>5, <1>7 DEF S

(* The invariant is kept by the handlers.                                  *)
LEMMA TaskKeepsCallInv ==
    ASSUME CallInv, MsgTask
    PROVE  CallInv'
<1>1. msgs \in Seq(Message) /\ msgs # <<>> /\ TypeButQueue'
  BY TaskTakes, TaskType DEF CallInv, TypeOK, TaskQueue
<1>2. PICK q \in Seq(Message) :
          (\A i \in DOMAIN q : q[i] \notin {Opened, Closed}) /\ msgs' = Tail(msgs) \o q
  BY TaskTakes DEF CallInv, TaskQueue
<1>3. /\ msgs' \in Seq(Message)
      /\ EventsInOrder'
      /\ InSeq(Opened, msgs') => InSeq(Opened, msgs)
      /\ InSeq(Closed, msgs') => InSeq(Closed, msgs)
      /\ Head(msgs) # Closed /\ InSeq(Closed, msgs) => InSeq(Closed, msgs')
      /\ Head(msgs) = Closed => ~InSeq(Closed, msgs') /\ ~InSeq(Opened, msgs')
      /\ Head(msgs) = Opened => ~InSeq(Opened, msgs')
  BY <1>1, <1>2, Taken DEF CallInv
<1>4. TypeOK'
  BY <1>1, <1>3 DEF TypeOK, TypeButQueue
<1>5. Head(msgs) \in {Opened, Closed} => InSeq(Head(msgs), msgs)
  BY <1>1, LenProperties, EmptySeq, HeadTailProperties DEF InSeq
<1>6. Opened # Closed
  BY DEF Opened, Closed
<1> DEFINE Kept == CallOwned' /\ AcquiredIsReal' /\ EventsOfCall'
<1> USE DEF CallOwned, AcquiredIsReal, EventsOfCall, Take
<1>7. ASSUME NEW c \in Client, SubscribeReleased(c) PROVE Kept
  <2>1. \/ state' = "pending" /\ call' = "starting"
        \/ state' = "released" /\ call' = call
    BY <1>7 DEF SubscribeReleased, StartDataCall, RetryLater, GiveUp
  <2>2. state = "released"
    BY <1>7 DEF SubscribeReleased
  <2>3. QED
    BY <1>3, <2>1, <2>2 DEF CallInv
<1>8. ASSUME NEW c \in Client, SubscribeWaiting(c) \/ SubscribeAcquired(c) PROVE Kept
  <2>1. state' = state /\ call' = call /\ Head(msgs) # Closed
    BY <1>8, Requests DEF SubscribeWaiting, SubscribeAcquired
  <2>2. QED
    BY <1>3, <2>1 DEF CallInv
<1>9. ASSUME NEW c \in Client, Release(c) PROVE Kept
  <2>1. Head(msgs) # Closed
    BY <1>9, Requests DEF Release, ReleaseFromAgnss, ReleaseFromDs, ReleaseUnknown
  <2>2. \/ state' = state /\ call' = call
        \/ /\ state' = "releasing"
           /\ \/ call \in {"starting", "up"} /\ call' = "stopping"
              \/ call' = call
    BY <1>9 DEF Release, ReleaseFromAgnss, ReleaseFromDs, ReleaseUnknown, StopDataCall, hal
  <2>3. QED
    BY <1>3, <2>1, <2>2 DEF CallInv
<1>10. ASSUME NEW c \in Client, RequestATL(c) PROVE Kept
  <2>1. state' = state /\ call' = call /\ Head(msgs) # Closed
    BY <1>10, Requests DEF RequestATL, hal
  <2>2. QED
    BY <1>3, <2>1 DEF CallInv
<1>11. ASSUME OpenedPending PROVE Kept
  <2>1. state' = "acquired" /\ call' = call /\ Head(msgs) = Opened
    BY <1>11 DEF OpenedPending
  <2>2. QED
    BY <1>3, <1>5, <1>6, <2>1 DEF CallInv
<1>12. ASSUME ClosedPending \/ ClosedAcquired PROVE Kept
  <2>1. state' = "released" /\ call' = call /\ Head(msgs) = Closed
    BY <1>12 DEF ClosedPending, ClosedAcquired
  <2>2. QED
    BY <1>3, <1>5, <1>6, <2>1 DEF CallInv
<1>13. ASSUME ClosedReleasing PROVE Kept
  <2>1. /\ Head(msgs) = Closed
        /\ \/ state' = "released" /\ call' = call
           \/ state' = "pending" /\ call' \in {call, "starting"}
    BY <1>13 DEF ClosedReleasing, StartDataCall, RetryLater, GiveUp
  <2>2. QED
    BY <1>3, <1>5, <1>6, <2>1 DEF CallInv
<1>14. ASSUME IgnoreEvent PROVE Kept
  <2>1. /\ state' = state /\ call' = call
        /\ Head(msgs) = Opened \/ state = "released"
    BY <1>14 DEF IgnoreEvent, hal
  <2>2. QED
    BY <1>3, <1>5, <1>6, <2>1 DEF CallInv
<1>15. Kept
  BY <1>7, <1>8, <1>9, <1>10, <1>11, <1>12, <1>13, <1>14 DEF MsgTask, Subscribe, OnRsrcEvent
<1>16. QED
  BY <1>3, <1>4, <1>15 DEF CallInv

(* And by every other step.                                                *)
LEMMA NextKeepsCallInv ==
    ASSUME CallInv, [Next]_vars
    PROVE  CallInv'
<1> USE DEF CallInv, CallOwned, AcquiredIsReal, EventsOfCall
<1>1. CASE MsgTask
  BY <1>1, TaskKeepsCallInv
<1>2. ASSUME UNCHANGED <<hal, timers, msgs, call>>,
             TypeOK' PROVE CallInv'
  BY <1>2 DEF hal, EventsInOrder, InSeq, Opened, Closed
<1>3. CASE AgnssAnswers \/ AgnssLost \/ EngineRestart
  <2>1. held' \in BOOLEAN /\ atl' \in [Client -> Agnss!Phase]
    BY <1>3, AgnssType DEF AgnssAnswers, AgnssLost, EngineRestart
  <2>2. conn' \in [Client -> {"closed", "opening", "open", "closing"}]
    BY <1>3 DEF AgnssAnswers, AgnssLost, EngineRestart, AgnssTells, Heard, TypeOK
  <2>3. UNCHANGED <<hal, timers, msgs, call>>
    BY <1>3 DEF AgnssAnswers, AgnssLost, EngineRestart
  <2>4. TypeOK'
    BY <2>1, <2>2, <2>3 DEF TypeOK, hal
  <2>5. QED
    BY <1>2, <2>3, <2>4
<1>4. CASE RetryCallback
  <2>1. /\ UNCHANGED <<hal, call, conn, agnss>>
        /\ timers' \in 0 .. MaxTimers
    BY <1>4, BoundAssumption DEF RetryCallback, TypeOK
  <2>2. CASE UNCHANGED msgs
    <3>1. /\ EventsInOrder'
          /\ InSeq(Opened, msgs') <=> InSeq(Opened, msgs)
          /\ InSeq(Closed, msgs') <=> InSeq(Closed, msgs)
      BY <2>2 DEF EventsInOrder, InSeq, Opened, Closed
    <3>2. QED
      BY <2>1, <2>2, <3>1 DEF hal, agnss, TypeOK
  <2>3. ASSUME NEW d \in Active, Post(<<"supl_es", d>>) PROVE CallInv'
    <3>1. /\ <<"supl_es", d>> \in Message
          /\ <<"supl_es", d>> # Opened /\ <<"supl_es", d>> # Closed
      BY <2>3, Requests DEF Active, TypeOK
    <3>2. /\ msgs' \in Seq(Message) /\ EventsInOrder'
          /\ InSeq(Opened, msgs') <=> InSeq(Opened, msgs)
          /\ InSeq(Closed, msgs') <=> InSeq(Closed, msgs)
      BY <2>3, <3>1, Posted DEF Post, TypeOK
    <3>3. QED
      BY <2>1, <3>2 DEF hal, agnss, TypeOK
  <2>4. QED
    BY <1>4, <2>2, <2>3 DEF RetryCallback
<1>5. ASSUME NEW c \in Client, ModemRequest(c) \/ ModemRelease(c) PROVE CallInv'
  <2>1. PICK k \in {"supl_es", "release"} : Post(<<k, c>>)
    BY <1>5 DEF ModemRequest, ModemRelease
  <2>2. <<k, c>> \in Message /\ <<k, c>> # Opened /\ <<k, c>> # Closed
    BY Requests
  <2>3. /\ msgs' \in Seq(Message) /\ EventsInOrder'
        /\ InSeq(Opened, msgs') <=> InSeq(Opened, msgs)
        /\ InSeq(Closed, msgs') <=> InSeq(Closed, msgs)
    BY <2>1, <2>2, Posted DEF Post, TypeOK
  <2>4. QED
    BY <1>5, <2>3 DEF ModemRequest, ModemRelease, hal, agnss, TypeOK
<1>6. CASE CallUp
  <2>1. call = "starting" /\ call' = "up" /\ msgs' = Append(msgs, Opened)
    BY <1>6 DEF CallUp, Post
  <2>2. Opened \in Message /\ Opened # Closed
    BY DEF Opened, Closed, Message
  <2>3. ~InSeq(Opened, msgs) /\ ~InSeq(Closed, msgs)
    BY <2>1
  <2>4. /\ msgs' \in Seq(Message) /\ EventsInOrder'
        /\ InSeq(Opened, msgs')
        /\ ~InSeq(Closed, msgs')
    BY <2>1, <2>2, <2>3, Posted DEF TypeOK
  <2>5. QED
    BY <1>6, <2>1, <2>4 DEF CallUp, hal, agnss, TypeOK
<1>7. CASE CallGone
  <2>1. call # "none" /\ call' = "none" /\ msgs' = Append(msgs, Closed)
    BY <1>7 DEF CallGone, Post
  <2>2. Closed \in Message /\ Opened # Closed
    BY DEF Opened, Closed, Message
  <2>3. ~InSeq(Closed, msgs)
    BY <2>1
  <2>4. /\ msgs' \in Seq(Message) /\ EventsInOrder'
        /\ InSeq(Closed, msgs')
    BY <2>1, <2>2, <2>3, Posted DEF TypeOK
  <2>5. QED
    BY <1>7, <2>1, <2>4 DEF CallGone, hal, agnss, TypeOK
<1>8. CASE UNCHANGED vars
  BY <1>2, <1>8 DEF vars, hal, TypeOK
<1>9. QED
  BY <1>1, <1>3, <1>4, <1>5, <1>6, <1>7, <1>8 DEF Next

-----------------------------------------------------------------------------
(* The inductive invariant: where the events of the data call can be.      *)
THEOREM CallInvariant == Spec => []CallInv
<1>1. ASSUME Init PROVE CallInv
  <2>1. msgs \in Seq(Message) /\ DOMAIN msgs = {}
    BY <1>1, EmptySeq DEF Init
  <2>2. ~InSeq(Opened, msgs) /\ ~InSeq(Closed, msgs) /\ EventsInOrder
    BY <2>1 DEF InSeq, EventsInOrder
  <2>3. TypeOK
    <3>1. held \in BOOLEAN /\ atl \in [Client -> Agnss!Phase]
      BY <1>1 DEF Init, Agnss!Init, Agnss!Phase
    <3>2. timers \in 0 .. MaxTimers /\ retries \in Nat
      BY <1>1, BoundAssumption DEF Init
    <3>3. conn \in [Client -> {"closed", "opening", "open", "closing"}]
      BY <1>1 DEF Init
    <3>4. QED
      BY <1>1, <2>1, <3>1, <3>2, <3>3 DEF Init, TypeOK
  <2>4. QED
    BY <1>1, <2>2, <2>3 DEF Init, CallInv, CallOwned, AcquiredIsReal, EventsOfCall
<1>2. QED
  BY <1>1, NextKeepsCallInv, PTL DEF Spec

(* Type correctness.                                                       *)
THEOREM TypeCorrect == Spec => []TypeOK
BY CallInvariant, PTL DEF CallInv

(* A live data call always has a machine that will stop it, and no event   *)
(* of a call outlives the machine's interest in it.                        *)
THEOREM CallAlwaysOwned == Spec => []CallOwned
BY CallInvariant, PTL DEF CallInv

(* Acquired means that the call lives or its end is already queued.        *)
THEOREM AcquiredAlwaysReal == Spec => []AcquiredIsReal
BY CallInvariant, PTL DEF CallInv

(* No data call is started while another one lives or its end is still to  *)
(* be processed.                                                           *)
THEOREM NeverTwoCalls == Spec => OneCallAtATime
<1>1. ASSUME CallInv, [Next]_vars
      PROVE  [call' = "starting" /\ call # "starting" =>
                 call = "none" /\ ~InSeq(Closed, msgs')]_vars
  <2>1. SUFFICES ASSUME call' = "starting", call # "starting"
                 PROVE  call = "none" /\ ~InSeq(Closed, msgs')
    OBVIOUS
  <2>2. CallInv'
    BY <1>1, NextKeepsCallInv
  <2>3. ~InSeq(Closed, msgs)' /\ (InSeq(Closed, msgs))' = InSeq(Closed, msgs')
    BY <2>1, <2>2 DEF CallInv, EventsOfCall, InSeq, Closed
  <2>4. CASE \E c \in Client : SubscribeReleased(c)
    BY <1>1, <2>3, <2>4 DEF SubscribeReleased, CallInv, CallOwned
  <2>5. CASE ClosedReleasing
    <3>1. InSeq(Closed, msgs)
      BY <1>1, <2>5, LenProperties, EmptySeq, HeadTailProperties
      DEF ClosedReleasing, Take, InSeq, CallInv, TypeOK
    <3>2. QED
      BY <1>1, <2>3, <3>1 DEF CallInv, EventsOfCall
  <2>6. (\E c \in Client : SubscribeReleased(c)) \/ ClosedReleasing
    BY <1>1, <2>1
    DEF Next, MsgTask, Subscribe, Release, OnRsrcEvent, SubscribeWaiting, SubscribeAcquired,
        ReleaseFromAgnss, ReleaseFromDs, ReleaseUnknown, StopDataCall, RequestATL,
        OpenedPending, ClosedPending, ClosedAcquired, IgnoreEvent, RetryCallback,
        AgnssAnswers, AgnssLost, EngineRestart, ModemRequest, ModemRelease, CallUp,
        CallGone, vars
  <2>7. QED
    BY <2>4, <2>5, <2>6
<1>2. QED
  BY <1>1, CallInvariant, PTL DEF Spec, OneCallAtATime

(* The count of failed attempts stays within its maximum.                  *)
THEOREM RetriesStayBounded == Spec => []RetriesBounded
<1>1. Init => RetriesBounded
  BY BoundAssumption DEF Init, RetriesBounded
<1>2. ASSUME TypeOK, RetriesBounded, [Next]_vars PROVE RetriesBounded'
  <2> DEFINE Fine == retries' \in {retries, 0} \/ retries' <= MAX_START_DATA_CALL_RETRIES
  <2> SUFFICES Fine
    BY <1>2, BoundAssumption DEF RetriesBounded, TypeOK
  <2>1. ASSUME NEW d, StartDataCall \/ RetryLater(d) \/ GiveUp(d) PROVE Fine
    BY <1>2, <2>1, BoundAssumption DEF StartDataCall, RetryLater, GiveUp, FallBack, TypeOK
  <2>2. ASSUME NEW c \in Client, SubscribeReleased(c) PROVE Fine
    BY <2>1, <2>2 DEF SubscribeReleased
  <2>3. CASE ClosedReleasing
    BY <2>1, <2>3 DEF ClosedReleasing
  <2>4. CASE ClosedPending
    BY <2>4 DEF ClosedPending, FallBack
  <2>5. CASE UNCHANGED retries
    BY <2>5
  <2>6. UNCHANGED retries \/ (\E c \in Client : SubscribeReleased(c))
        \/ ClosedReleasing \/ ClosedPending
    BY <1>2
    DEF Next, MsgTask, Subscribe, Release, OnRsrcEvent, SubscribeWaiting, SubscribeAcquired,
        ReleaseFromAgnss, ReleaseFromDs, ReleaseUnknown, RequestATL, OpenedPending,
        ClosedAcquired, IgnoreEvent, RetryCallback, AgnssAnswers, AgnssLost, EngineRestart,
        ModemRequest, ModemRelease, CallUp, CallGone, vars, hal
  <2>7. QED
    BY <2>2, <2>3, <2>4, <2>5, <2>6
<1>3. QED
  BY <1>1, <1>2, TypeCorrect, PTL DEF Spec

(* The list always fits the state: a machine that waits for a data call or *)
(* has one has somebody who wants it, one that releases it remembers for   *)
(* whom (loc_eng_agps.cpp:258-579).                                        *)
THEOREM SubscribersAlwaysFit == Spec => []SubscribersFitState
<1>1. Init => SubscribersFitState
  BY DEF Init, SubscribersFitState
<1>2. ASSUME TypeOK, SubscribersFitState, [Next]_vars PROVE SubscribersFitState'
  <2> USE <1>2 DEF SubscribersFitState, Active, TypeOK
  <2>1. ASSUME NEW c \in Client, SubscribeReleased(c) PROVE SubscribersFitState'
    BY <2>1 DEF SubscribeReleased
  <2>2. ASSUME NEW c \in Client, SubscribeWaiting(c) \/ SubscribeAcquired(c)
        PROVE  SubscribersFitState'
    BY <2>2 DEF SubscribeWaiting, SubscribeAcquired
  <2>3. ASSUME NEW c \in Client, ReleaseFromDs(c) PROVE SubscribersFitState'
    <3>1. c \in subs /\ subs' = subs
      BY <2>3 DEF ReleaseFromDs
    <3>2. CASE state = "released" \/ state = "releasing" \/ subs \ (inactive \cup {c}) # {}
      BY <2>3, <3>1, <3>2 DEF ReleaseFromDs
    <3>3. CASE state' = "releasing"
      BY <3>1, <3>3
    <3>4. QED
      BY <2>3, <3>2, <3>3 DEF ReleaseFromDs
  <2>4. CASE ClosedReleasing
    BY <2>4 DEF ClosedReleasing
  <2>5. CASE OpenedPending \/ ClosedPending \/ ClosedAcquired
    BY <2>5 DEF OpenedPending, ClosedPending, ClosedAcquired
  <2>6. CASE UNCHANGED <<state, subs, inactive>>
    BY <2>6
  <2>7. \/ UNCHANGED <<state, subs, inactive>>
        \/ \E c \in Client : \/ SubscribeReleased(c) \/ SubscribeWaiting(c)
                             \/ SubscribeAcquired(c) \/ ReleaseFromDs(c)
        \/ ClosedReleasing \/ OpenedPending \/ ClosedPending \/ ClosedAcquired
    BY <1>2
    DEF Next, MsgTask, Subscribe, Release, OnRsrcEvent, ReleaseFromAgnss, ReleaseUnknown,
        RequestATL, IgnoreEvent, RetryCallback, AgnssAnswers, AgnssLost, EngineRestart,
        ModemRequest, ModemRelease, CallUp, CallGone, vars, hal
  <2>8. QED
    BY <2>1, <2>2, <2>3, <2>4, <2>5, <2>6, <2>7
<1>3. QED
  BY <1>1, <1>2, TypeCorrect, PTL DEF Spec
=============================================================================
