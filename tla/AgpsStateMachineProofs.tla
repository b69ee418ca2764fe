----------------------- MODULE AgpsStateMachineProofs -----------------------
(***************************************************************************)
(* Proofs about AgpsStateMachine, for any set of clients, any of the kinds *)
(* of machine loc_eng_agps_init builds and any bounds; and, at the end,    *)
(* about the daemons of DmnConn that reach such a machine through pipes.   *)
(***************************************************************************)
EXTENDS DmnConn, SequenceTheorems, TLAPS

(* Every answer leaves the phases well typed.                              *)
LEMMA AnswerType ==
    ASSUME NEW status \in {"granted", "denied", "released", "unsubscribe"}
    PROVE  /\ Answer(status) \in Phase
           /\ status = "granted" <=> Answer(status) = "open"
           /\ status = "denied" <=> Answer(status) = "refused"
           /\ status \in {"released", "unsubscribe"} <=> Answer(status) = "idle"
BY DEF Answer, Phase

(* Taking a message off a queue, or adding one, keeps its type.            *)
LEMMA QueueTypes ==
    ASSUME NEW S, NEW q \in Seq(S)
    PROVE  /\ q # <<>> => Tail(q) \in Seq(S) /\ Head(q) \in S
           /\ \A x \in S : Append(q, x) \in Seq(S)
OBVIOUS

LEMMA SendType ==
    ASSUME TypeOK, NEW action \in Action, NEW S, NEW I,
           SendRsrcRequest(action, S, I)
    PROVE  cmds' \in Seq(Action)
BY DEF TypeOK, SendRsrcRequest

(* Init establishes the inductive invariant.                               *)
LEMMA InitIInv == Init => IInv
BY DEF Init, IInv, TypeOK, State, Phase, ReleasedIsEmpty, SingleSubscriber,
       InactiveOnlyReleasing, PhaseOfSubscriber, PhaseOfOthers

(* One lemma per action: it preserves the inductive invariant.             *)
LEMMA RefuseSecondIInv ==
    ASSUME IInv, NEW c \in Client, RefuseSecond(c) PROVE IInv'
<1>1. c \notin subs
  BY DEF IInv, PhaseOfSubscriber, TypeOK, State, RefuseSecond, ReleasedIsEmpty
<1>2. phase' = [d \in Client |-> IF d = c THEN "refused" ELSE phase[d]]
  BY AnswerType DEF RefuseSecond, Tell, Answer
<1>3. TypeOK'
  BY <1>2 DEF IInv, TypeOK, RefuseSecond, Phase
<1>4. PhaseOfSubscriber'
  BY <1>1, <1>2 DEF IInv, PhaseOfSubscriber, TypeOK, State, RefuseSecond
<1>5. PhaseOfOthers'
  BY <1>2 DEF IInv, PhaseOfOthers, TypeOK, RefuseSecond
<1>6. QED
  BY <1>3, <1>4, <1>5
  DEF IInv, RefuseSecond, ReleasedIsEmpty, SingleSubscriber, InactiveOnlyReleasing

LEMMA SubscribeIInv ==
    ASSUME IInv, NEW c \in Client, Subscribe(c) PROVE IInv'
<1> USE KindAssumption
<1>1. c \notin subs
  BY DEF IInv, PhaseOfSubscriber, TypeOK, State, Subscribe, ReleasedIsEmpty
<1>2. state # "releasing"
  BY DEF IInv, InactiveOnlyReleasing, Subscribe
<1>3. inactive = {} /\ inactive' = {}
  BY <1>2 DEF IInv, InactiveOnlyReleasing, Subscribe
<1>4. cmds' \in Seq(Action)
  BY SendType DEF IInv, TypeOK, Subscribe, Action
<1>5. TypeOK'
  BY <1>3, <1>4 DEF IInv, TypeOK, Subscribe, State, Phase
<1>6. ReleasedIsEmpty'
  BY DEF IInv, ReleasedIsEmpty, Subscribe, TypeOK, State
<1>7. SingleSubscriber'
  BY DEF IInv, SingleSubscriber, Subscribe
<1>8. InactiveOnlyReleasing'
  BY <1>2, <1>3 DEF IInv, InactiveOnlyReleasing, Subscribe
<1>9. PhaseOfSubscriber'
  BY <1>1, <1>2 DEF IInv, PhaseOfSubscriber, ReleasedIsEmpty, Subscribe, TypeOK, State
<1>10. PhaseOfOthers'
  BY DEF IInv, PhaseOfOthers, Subscribe, TypeOK
<1>11. QED
  BY <1>5, <1>6, <1>7, <1>8, <1>9, <1>10 DEF IInv

LEMMA UnsubscribeIInv ==
    ASSUME IInv, NEW c \in Client, Unsubscribe(c) PROVE IInv'
<1> USE KindAssumption
<1>1. c \in subs /\ state # "released"
  BY DEF Unsubscribe, IInv, ReleasedIsEmpty
<1>2. CASE WaitForClose
  <2>1. subs = {c} /\ subs' = {c}
    BY <1>1, <1>2 DEF IInv, SingleSubscriber, Unsubscribe
  <2>2. inactive' = {c}
    BY <1>1, <1>2, <2>1 DEF IInv, TypeOK, Unsubscribe
  <2>3. /\ AfterUnsubscribe(subs, inactive')
        /\ phase' = [phase EXCEPT ![c] = "closing"]
    BY <1>1, <1>2 DEF Unsubscribe
  <2>4. state' = "releasing"
    BY <1>1, <2>1, <2>2, <2>3 DEF AfterUnsubscribe
  <2>5. cmds' \in Seq(Action)
    BY <2>3, SendType DEF AfterUnsubscribe, IInv, TypeOK, Action
  <2>6. TypeOK'
    BY <2>1, <2>2, <2>3, <2>4, <2>5 DEF IInv, TypeOK, Unsubscribe, State, Phase
  <2>7. PhaseOfSubscriber' /\ PhaseOfOthers'
    BY <2>1, <2>3, <2>4 DEF IInv, TypeOK, PhaseOfSubscriber, PhaseOfOthers
  <2>8. QED
    BY <1>2, <2>1, <2>2, <2>4, <2>6, <2>7
    DEF IInv, ReleasedIsEmpty, SingleSubscriber, InactiveOnlyReleasing
<1>3. CASE ~WaitForClose
  <2>1. inactive = {} /\ state \in {"pending", "acquired"}
    BY <1>1, <1>3 DEF IInv, InactiveOnlyReleasing, TypeOK, State
  <2>2. /\ subs' = subs \ {c}
        /\ inactive' = {}
        /\ AfterUnsubscribe(subs', inactive)
        /\ phase' = [d \in Client |-> IF d = c THEN "idle" ELSE phase[d]]
    BY <1>1, <1>3, <2>1 DEF Unsubscribe, Tell, Answer
  <2>3. state' = IF subs' = {} THEN "released" ELSE state
    BY <2>1, <2>2 DEF AfterUnsubscribe
  <2>4. cmds' \in Seq(Action)
    BY <2>1, <2>2, SendType DEF AfterUnsubscribe, IInv, TypeOK, Action
  <2>5. TypeOK'
    BY <2>1, <2>2, <2>3, <2>4 DEF IInv, TypeOK, Unsubscribe, State, Phase
  <2>6. PhaseOfSubscriber' /\ PhaseOfOthers'
    BY <2>1, <2>2, <2>3 DEF IInv, TypeOK, PhaseOfSubscriber, PhaseOfOthers
  <2>7. QED
    BY <2>1, <2>2, <2>3, <2>5, <2>6
    DEF IInv, ReleasedIsEmpty, SingleSubscriber, InactiveOnlyReleasing
<1>4. QED
  BY <1>2, <1>3

(* The answers of the connectivity service, one step per case.             *)
LEMMA OnRsrcEventIInv ==
    ASSUME IInv, OnRsrcEvent PROVE IInv'
<1> USE KindAssumption
<1>1. events' \in Seq(Event)
  BY QueueTypes DEF OnRsrcEvent, PendingGranted, PendingDenied, AcquiredReleased,
     ReleasingDone, IgnoreEvent, Next1, IInv, TypeOK
<1>2. CASE PendingGranted
  <2>1. inactive = {}
    BY <1>2 DEF PendingGranted, IInv, InactiveOnlyReleasing
  <2>2. phase' = [d \in Client |-> IF d \in subs THEN "open" ELSE phase[d]]
    BY <1>2, <2>1 DEF PendingGranted, Tell, Answer
  <2>3. TypeOK'
    BY <1>1, <1>2, <2>2 DEF PendingGranted, IInv, TypeOK, State, Phase
  <2>4. PhaseOfSubscriber' /\ PhaseOfOthers'
    BY <1>2, <2>2 DEF PendingGranted, IInv, PhaseOfSubscriber, PhaseOfOthers, TypeOK
  <2>5. QED
    BY <1>2, <2>1, <2>3, <2>4 DEF PendingGranted, IInv, ReleasedIsEmpty,
       SingleSubscriber, InactiveOnlyReleasing
<1>3. CASE PendingDenied \/ AcquiredReleased
  <2>1. /\ state' = "released" /\ subs' = {} /\ inactive' = {}
        /\ UNCHANGED <<cmds, nif>>
    BY <1>3 DEF PendingDenied, AcquiredReleased
  <2>2. \E p \in {"refused", "idle"} :
           phase' = [d \in Client |-> IF d \in subs THEN p ELSE phase[d]]
    BY <1>3 DEF PendingDenied, AcquiredReleased, Tell, Answer
  <2>3. TypeOK'
    BY <1>1, <2>1, <2>2 DEF IInv, TypeOK, State, Phase
  <2>4. PhaseOfOthers'
    BY <2>1, <2>2 DEF IInv, PhaseOfOthers, TypeOK
  <2>5. QED
    BY <2>1, <2>3, <2>4 DEF IInv, ReleasedIsEmpty, SingleSubscriber,
       InactiveOnlyReleasing, PhaseOfSubscriber
<1>4. CASE ReleasingDone
  <2>1. inactive = subs
    BY <1>4 DEF ReleasingDone, IInv, InactiveOnlyReleasing
  <2>2. /\ state' = "released" /\ subs' = {} /\ inactive' = {}
        /\ UNCHANGED <<cmds, nif>>
    BY <1>4, <2>1 DEF ReleasingDone
  <2>3. \E p \in {"refused", "idle"} :
           phase' = [d \in Client |-> IF d \in subs THEN p ELSE phase[d]]
    BY <1>4, <2>1 DEF ReleasingDone, Tell, Answer
  <2>4. TypeOK'
    BY <1>1, <2>2, <2>3 DEF IInv, TypeOK, State, Phase
  <2>5. PhaseOfOthers'
    BY <2>2, <2>3 DEF IInv, PhaseOfOthers, TypeOK
  <2>6. QED
    BY <2>2, <2>4, <2>5 DEF IInv, ReleasedIsEmpty, SingleSubscriber,
       InactiveOnlyReleasing, PhaseOfSubscriber
<1>5. CASE IgnoreEvent
  BY <1>1, <1>5 DEF IgnoreEvent, hal, IInv, TypeOK, ReleasedIsEmpty,
     SingleSubscriber, InactiveOnlyReleasing, PhaseOfSubscriber, PhaseOfOthers
<1>6. QED
  BY <1>2, <1>3, <1>4, <1>5 DEF OnRsrcEvent

LEMMA EngineRestartIInv ==
    ASSUME IInv, EngineRestart PROVE IInv'
<1> USE KindAssumption
<1>1. state # "releasing"
  BY DEF EngineRestart, IInv, InactiveOnlyReleasing
<1>2. TypeOK'
  BY DEF EngineRestart, world, IInv, TypeOK, Phase
<1>3. QED
  BY <1>1, <1>2 DEF EngineRestart, world, IInv, ReleasedIsEmpty, SingleSubscriber,
     InactiveOnlyReleasing, PhaseOfSubscriber, PhaseOfOthers

(* The connectivity service does not touch the machine.                    *)
LEMMA WorldIInv ==
    ASSUME IInv, NifRequest \/ NifRelease \/ NifAnswer \/ NifLost PROVE IInv'
<1>1. UNCHANGED hal
  BY DEF NifRequest, NifRelease, NifAnswer, NifLost
<1>2. cmds' \in Seq(Action) /\ events' \in Seq(Event)
  BY QueueTypes DEF NifRequest, NifRelease, NifAnswer, NifLost, IInv, TypeOK, Event
<1>3. nif' \in {"closed", "opening", "open"}
  BY DEF NifRequest, NifRelease, NifAnswer, NifLost, IInv, TypeOK
<1>4. QED
  BY <1>1, <1>2, <1>3 DEF hal, IInv, TypeOK, ReleasedIsEmpty, SingleSubscriber,
     InactiveOnlyReleasing, PhaseOfSubscriber, PhaseOfOthers

LEMMA NextIInv == IInv /\ [Next]_vars => IInv'
<1>1. ASSUME IInv, Next PROVE IInv'
  BY <1>1, RefuseSecondIInv, SubscribeIInv, UnsubscribeIInv, OnRsrcEventIInv,
     EngineRestartIInv, WorldIInv DEF Next
<1>2. ASSUME IInv, UNCHANGED vars PROVE IInv'
  BY <1>2 DEF vars, IInv, TypeOK, ReleasedIsEmpty, SingleSubscriber,
     InactiveOnlyReleasing, PhaseOfSubscriber, PhaseOfOthers
<1>3. QED
  BY <1>1, <1>2

(* The inductive invariant holds in every reachable state, whatever the    *)
(* number of clients and the lengths of the queues.                        *)
THEOREM InductiveInvariant == Spec => []IInv
BY InitIInv, NextIInv, PTL DEF Spec

(* Type correctness of the machine, its clients and both queues.           *)
THEOREM TypeCorrect == Spec => []TypeOK
<1>1. IInv => TypeOK
  BY DEF IInv
<1>2. QED
  BY <1>1, InductiveInvariant, PTL

(* Released always has an empty list: the error that                       *)
(* AgpsReleasedState::onRsrcEvent cannot recover from does not occur.      *)
THEOREM ReleasedListEmpty == Spec => []ReleasedIsEmpty
<1>1. IInv => ReleasedIsEmpty
  BY DEF IInv
<1>2. QED
  BY <1>1, InductiveInvariant, PTL

(* What a client was last told is what the machine can stand for.          *)
THEOREM ClientsBacked == Spec => []ClientBacked
<1>1. ASSUME IInv, NEW c \in Client
      PROVE  /\ phase[c] = "open"      => c \in subs \ inactive /\ state = "acquired"
             /\ phase[c] = "requested" => c \in subs \ inactive /\ state = "pending"
             /\ phase[c] = "closing"   => c \in inactive /\ state = "releasing"
  <2>1. c \in subs \/ phase[c] \in {"idle", "refused"}
    BY <1>1 DEF IInv, PhaseOfOthers
  <2>2. CASE c \in subs
    <3>1. state \in {"pending", "acquired", "releasing"}
      BY <1>1, <2>2 DEF IInv, TypeOK, State, ReleasedIsEmpty
    <3>2. QED
      BY <1>1, <2>2, <3>1 DEF IInv, PhaseOfSubscriber, InactiveOnlyReleasing
  <2>3. QED
    BY <2>1, <2>2
<1>2. IInv => ClientBacked
  BY <1>1 DEF ClientBacked
<1>3. QED
  BY <1>2, InductiveInvariant, PTL

(* No client stays on the list once it was told that it is over.           *)
THEOREM NoStaleSubscribers == Spec => []NoStaleSubscriber
<1>1. IInv => NoStaleSubscriber
  BY DEF IInv, TypeOK, State, ReleasedIsEmpty, PhaseOfSubscriber, NoStaleSubscriber
<1>2. QED
  BY <1>1, InductiveInvariant, PTL

-----------------------------------------------------------------------------
(* Implementation of NifContract.                                          *)

(* The clients of each phase, read off the state and the list.             *)
LEMMA ClientsOfPhase ==
    ASSUME IInv
    PROVE  /\ state = "pending" => Contract!Clients("requested") = subs
           /\ state = "acquired" => Contract!Clients("open") = subs
           /\ state = "releasing" => Contract!Clients("closing") = subs
           /\ \A c \in subs : phase[c] \in {"requested", "open", "closing"}
BY DEF IInv, TypeOK, State, ReleasedIsEmpty, PhaseOfSubscriber, PhaseOfOthers,
       Contract!Clients

LEMMA ClientStepContract ==
    ASSUME IInv, NEW c \in Client,
           RefuseSecond(c) \/ Subscribe(c) \/ Unsubscribe(c)
    PROVE  Contract!Next
<1> USE KindAssumption
<1>1. CASE RefuseSecond(c)
  <2>1. Contract!Ask(c)
    BY <1>1 DEF RefuseSecond, Tell, Answer, Contract!Ask, Contract!Told
  <2>2. QED
    BY <2>1 DEF Contract!Next
<1>2. CASE Subscribe(c)
  <2>1. /\ phase[c] \in {"idle", "refused"}
        /\ (state' = "acquired") = (state = "acquired")
    BY <1>2 DEF Subscribe
  <2>2. phase' = [d \in Client |-> IF d \in {c}
                     THEN (IF state = "acquired" THEN "open" ELSE "requested")
                     ELSE phase[d]]
    BY <1>2 DEF Subscribe, IInv, TypeOK
  <2>3. Contract!Ask(c)
    BY <2>1, <2>2 DEF Contract!Ask, Contract!Told
  <2>4. QED
    BY <2>3 DEF Contract!Next
<1>3. CASE Unsubscribe(c)
  <2>1. c \in subs /\ state # "released"
    BY <1>3 DEF Unsubscribe, IInv, ReleasedIsEmpty
  <2>2. phase[c] \in {"requested", "open", "closing"}
    BY <2>1, ClientsOfPhase
  <2>3. (state' = "acquired") = (state = "acquired" /\ Contract!Clients("open") \ {c} # {})
    <3>1. CASE WaitForClose
      <4>1. subs = {c} /\ inactive' = {c} /\ AfterUnsubscribe(subs, inactive')
        BY <1>3, <2>1, <3>1 DEF Unsubscribe, IInv, SingleSubscriber, TypeOK
      <4>2. state' # "acquired"
        BY <4>1 DEF AfterUnsubscribe
      <4>3. QED
        BY <4>1, <4>2, ClientsOfPhase
    <3>2. CASE ~WaitForClose
      <4>1. /\ subs' = subs \ {c} /\ inactive = {}
            /\ AfterUnsubscribe(subs', inactive) /\ state # "releasing"
        BY <1>3, <2>1, <3>2 DEF Unsubscribe, IInv, InactiveOnlyReleasing
      <4>2. state' = IF subs \ {c} = {} THEN "released" ELSE state
        BY <4>1 DEF AfterUnsubscribe
      <4>3. QED
        BY <4>2, ClientsOfPhase
    <3>3. QED
      BY <3>1, <3>2
  <2>4. \/ phase' = [d \in Client |-> IF d \in {c} THEN "idle" ELSE phase[d]]
        \/ phase' = [d \in Client |-> IF d \in {c} THEN "closing" ELSE phase[d]]
    BY <1>3, <2>1 DEF Unsubscribe, Tell, Answer, IInv, TypeOK
  <2>5. Contract!Leave(c)
    BY <2>2, <2>3, <2>4 DEF Contract!Leave, Contract!Told
  <2>6. QED
    BY <2>5 DEF Contract!Next
<1>4. QED
  BY <1>1, <1>2, <1>3

LEMMA EventStepContract ==
    ASSUME IInv, OnRsrcEvent
    PROVE  Contract!Next \/ UNCHANGED <<state, phase>>
<1>1. CASE PendingGranted
  <2>1. inactive = {}
    BY <1>1 DEF PendingGranted, IInv, InactiveOnlyReleasing
  <2>2. Contract!Grant
    BY <1>1, <2>1, ClientsOfPhase
    DEF PendingGranted, Tell, Answer, Contract!Grant, Contract!Told
  <2>3. QED
    BY <2>2 DEF Contract!Next
<1>2. CASE PendingDenied
  <2>1. Contract!Refuse
    BY <1>2, ClientsOfPhase
    DEF PendingDenied, Tell, Answer, Contract!Refuse, Contract!Told
  <2>2. QED
    BY <2>1 DEF Contract!Next
<1>3. CASE AcquiredReleased
  <2>1. Contract!Lose
    BY <1>3, ClientsOfPhase
    DEF AcquiredReleased, Tell, Answer, Contract!Lose, Contract!Told
  <2>2. QED
    BY <2>1 DEF Contract!Next
<1>4. CASE ReleasingDone
  <2>1. inactive = subs /\ state = "releasing" /\ state' \in {"pending", "released"}
    BY <1>4 DEF ReleasingDone, IInv, InactiveOnlyReleasing
  <2>2. Contract!Closed
    BY <1>4, <2>1, ClientsOfPhase
    DEF ReleasingDone, Tell, Answer, Contract!Closed, Contract!Told
  <2>3. QED
    BY <2>2 DEF Contract!Next
<1>5. CASE IgnoreEvent
  BY <1>5 DEF IgnoreEvent, hal
<1>6. QED
  BY <1>1, <1>2, <1>3, <1>4, <1>5 DEF OnRsrcEvent

LEMMA StepContract == IInv /\ [Next]_vars => [Contract!Next]_(Contract!vars)
<1>1. ASSUME IInv, Next PROVE Contract!Next \/ UNCHANGED <<state, phase>>
  <2>1. CASE \E c \in Client : RefuseSecond(c) \/ Subscribe(c) \/ Unsubscribe(c)
    BY <1>1, <2>1, ClientStepContract
  <2>2. CASE OnRsrcEvent
    BY <1>1, <2>2, EventStepContract
  <2>3. CASE EngineRestart
    BY <2>3 DEF EngineRestart, Contract!Next, Contract!Forget
  <2>4. CASE NifRequest \/ NifRelease \/ NifAnswer \/ NifLost
    BY <2>4 DEF NifRequest, NifRelease, NifAnswer, NifLost, hal
  <2>5. QED
    BY <1>1, <2>1, <2>2, <2>3, <2>4 DEF Next
<1>2. ASSUME UNCHANGED vars PROVE UNCHANGED <<state, phase>>
  BY <1>2 DEF vars
<1>3. QED
  BY <1>1, <1>2 DEF Contract!vars

(* The state machine with its list, its queues and the connectivity        *)
(* service is an implementation of the contract its clients rely on.       *)
THEOREM MachineImplementsContract == Spec => ImplementsContract
<1>1. Init => Contract!Init
  BY DEF Init, Contract!Init
<1>2. QED
  BY <1>1, InductiveInvariant, StepContract, PTL
  DEF Spec, ImplementsContract, Contract!Spec

(* The contract itself is consistent, for any set of clients: a grant      *)
(* reaches only clients of a NIF that is held, and no client is left       *)
(* waiting for one that is.                                                *)
THEOREM ContractConsistent == Contract!Spec => []Contract!Consistent
<1> USE DEF Contract!Consistent
<1>1. Contract!Init => Contract!Consistent
  BY DEF Contract!Init
<1>2. ASSUME Contract!Consistent, [Contract!Next]_(Contract!vars) PROVE Contract!Consistent'
  <2>1. ASSUME NEW c \in Client, Contract!Ask(c) PROVE Contract!Consistent'
    BY <1>2, <2>1 DEF Contract!Ask, Contract!Told
  <2>2. ASSUME NEW c \in Client, Contract!Leave(c) PROVE Contract!Consistent'
    <3>1. \A d \in Client \ {c} : phase[d] = "open" => d \in Contract!Clients("open") \ {c}
      BY DEF Contract!Clients
    <3>2. QED
      BY <1>2, <2>2, <3>1 DEF Contract!Leave, Contract!Told
  <2>3. ASSUME Contract!Grant \/ Contract!Refuse \/ Contract!Lose \/ Contract!Closed \/ Contract!Forget
        PROVE  Contract!Consistent'
    BY <1>2, <2>3
    DEF Contract!Grant, Contract!Refuse, Contract!Lose, Contract!Closed, Contract!Forget,
        Contract!Told, Contract!Clients
  <2>4. ASSUME UNCHANGED Contract!vars PROVE Contract!Consistent'
    BY <1>2, <2>4 DEF Contract!vars
  <2>5. QED
    BY <1>2, <2>1, <2>2, <2>3, <2>4 DEF Contract!Next
<1>3. QED
  BY <1>1, <1>2, PTL DEF Contract!Spec

-----------------------------------------------------------------------------
(* What the machine holds, and what it waits for.                          *)

(* Where an element of a queue is after one was added or taken.            *)
LEMMA InAppended ==
    ASSUME NEW S, NEW q \in Seq(S), NEW x \in S
    PROVE  /\ InSeq(x, Append(q, x)) /\ LastIs(x, Append(q, x))
           /\ \A y : InSeq(y, q) => InSeq(y, Append(q, x))
<1>1. Len(Append(q, x)) = Len(q) + 1 /\ Append(q, x)[Len(q) + 1] = x
  OBVIOUS
<1>2. \A i \in 1 .. Len(q) : Append(q, x)[i] = q[i] /\ i \in 1 .. Len(q) + 1
  OBVIOUS
<1>3. Append(q, x) # <<>> /\ Len(q) + 1 \in 1 .. Len(q) + 1
  OBVIOUS
<1>4. QED
  BY <1>1, <1>2, <1>3 DEF InSeq, LastIs

LEMMA InTail ==
    ASSUME NEW S, NEW q \in Seq(S), q # <<>>
    PROVE  /\ \A y : InSeq(y, q) /\ y # Head(q) => InSeq(y, Tail(q))
           /\ \A y : LastIs(y, q) => LastIs(y, Tail(q)) \/ (Tail(q) = <<>> /\ y = Head(q))
<1>1. Len(Tail(q)) = Len(q) - 1 /\ Len(q) \in Nat \ {0} /\ Head(q) = q[1] /\ Tail(q) \in Seq(S)
  OBVIOUS
<1>2. \A i \in 1 .. Len(Tail(q)) : Tail(q)[i] = q[i + 1]
  OBVIOUS
<1>3. ASSUME NEW y, InSeq(y, q), y # Head(q) PROVE InSeq(y, Tail(q))
  <2>1. PICK i \in 1 .. Len(q) : q[i] = y
    BY <1>3 DEF InSeq
  <2>2. i # 1 /\ i - 1 \in 1 .. Len(Tail(q)) /\ (i - 1) + 1 = i
    BY <1>1, <1>3, <2>1
  <2>3. Tail(q)[i - 1] = y
    BY <1>2, <2>1, <2>2
  <2>4. QED
    BY <2>2, <2>3 DEF InSeq
<1>4. ASSUME NEW y, LastIs(y, q), Tail(q) # <<>> PROVE LastIs(y, Tail(q))
  <2>1. Len(Tail(q)) \in 1 .. Len(Tail(q)) /\ Len(Tail(q)) + 1 = Len(q)
    BY <1>1, <1>4
  <2>2. Tail(q)[Len(Tail(q))] = q[Len(q)]
    BY <1>2, <2>1
  <2>3. QED
    BY <1>4, <2>2 DEF LastIs
<1>5. ASSUME NEW y, LastIs(y, q), Tail(q) = <<>> PROVE y = Head(q)
  <2> DEFINE rest == Tail(q)
  <2>0. rest = <<>> /\ Len(rest) = Len(q) - 1 /\ Len(q) \in Nat
    BY <1>1, <1>5
  <2> HIDE DEF rest
  <2>1. Len(rest) = 0
    BY <2>0
  <2>2. Len(q) = 1
    BY <2>0, <2>1
  <2>3. QED
    BY <1>1, <1>5, <2>2 DEF LastIs
<1>6. \A y : InSeq(y, q) /\ y # Head(q) => InSeq(y, Tail(q))
  BY <1>3
<1>7. \A y : LastIs(y, q) => LastIs(y, Tail(q)) \/ (Tail(q) = <<>> /\ y = Head(q))
  BY <1>4, <1>5
<1>8. QED
  BY <1>6, <1>7

LEMMA LastIsIn ==
    ASSUME NEW S, NEW q \in Seq(S), NEW x, LastIs(x, q) PROVE InSeq(x, q)
<1>1. Len(q) \in 1 .. Len(q)
  BY DEF LastIs
<1>2. QED
  BY <1>1 DEF LastIs, InSeq

(* A step of the connectivity service that leaves the connection open, or  *)
(* adds the message that it is gone, keeps HeldInv.                        *)
LEMMA HeldAppended ==
    ASSUME HeldInv, IInv, NEW x \in Event, events' = Append(events, x),
           state' = state,
           \/ x = "granted" /\ nif' = "open"
           \/ x = "released"
           \/ x = "denied" /\ (nif = "open" => nif' = "open")
    PROVE  HeldInv'
<1>0. events \in Seq(Event) /\ Len(events) \in Nat
  BY DEF IInv, TypeOK
<1>1. Len(events') = Len(events) + 1 /\ events'[Len(events) + 1] = x
  BY <1>0
<1>2. \A i \in 1 .. Len(events) : events'[i] = events[i]
  BY <1>0
<1>3. AcquiredIsReal'
  <2>1. x = "released" => InSeq("released", events')
    BY <1>0, InAppended
  <2>2. InSeq("released", events) => InSeq("released", events')
    BY <1>0, InAppended
  <2>3. QED
    BY <2>1, <2>2 DEF HeldInv, AcquiredIsReal
<1>4. ASSUME NEW i \in 1 .. Len(events'), events'[i] = "granted"
      PROVE  nif' = "open" \/ \E j \in i + 1 .. Len(events') : events'[j] = "released"
  <2>1. CASE i = Len(events) + 1
    BY <1>1, <1>4, <2>1
  <2>2. CASE i \in 1 .. Len(events)
    <3>1. nif = "open" \/ \E j \in i + 1 .. Len(events) : events[j] = "released"
      BY <1>2, <1>4, <2>2 DEF HeldInv, GrantsAreHeld
    <3>2. CASE x = "released"
      BY <1>0, <1>1, <2>2, <3>2
    <3>3. CASE x # "released" /\ nif = "open"
      BY <3>3
    <3>4. CASE \E j \in i + 1 .. Len(events) : events[j] = "released"
      <4>1. PICK j \in i + 1 .. Len(events) : events[j] = "released"
        BY <3>4
      <4>2. j \in 1 .. Len(events) /\ j \in i + 1 .. Len(events')
        BY <1>0, <1>1, <2>2, <4>1
      <4>3. QED
        BY <1>2, <4>1, <4>2
    <3>5. QED
      BY <3>1, <3>2, <3>3, <3>4
  <2>3. QED
    BY <1>0, <1>1, <2>1, <2>2
<1>5. QED
  BY <1>3, <1>4 DEF HeldInv, GrantsAreHeld

(* Taking an event keeps it, whatever becomes of the state: a grant that   *)
(* makes the machine acquired was held, a loss ends Acquired.              *)
LEMMA HeldTaken ==
    ASSUME HeldInv, IInv, events # <<>>, events' = Tail(events), nif' = nif,
           \/ state' # "acquired"
           \/ state' = "acquired" /\ Head(events) = "granted"
           \/ state' = state /\ Head(events) # "released"
    PROVE  HeldInv'
<1>0. events \in Seq(Event) /\ Len(events) \in Nat \ {0}
  BY DEF IInv, TypeOK
<1>1. Len(events') = Len(events) - 1 /\ Head(events) = events[1]
  BY <1>0
<1>2. \A i \in 1 .. Len(events') : events'[i] = events[i + 1] /\ i + 1 \in 1 .. Len(events)
  BY <1>0
<1>3. GrantsAreHeld'
  <2>1. ASSUME NEW i \in 1 .. Len(events'), events'[i] = "granted", nif # "open"
        PROVE  \E j \in i + 1 .. Len(events') : events'[j] = "released"
    <3>1. \E j \in (i + 1) + 1 .. Len(events) : events[j] = "released"
      BY <1>2, <2>1 DEF HeldInv, GrantsAreHeld
    <3>2. PICK j \in (i + 1) + 1 .. Len(events) : events[j] = "released"
      BY <3>1
    <3>3. j - 1 \in i + 1 .. Len(events') /\ j - 1 \in 1 .. Len(events') /\ (j - 1) + 1 = j
      BY <1>0, <1>1, <3>2
    <3>4. QED
      BY <1>2, <3>2, <3>3
  <2>2. QED
    BY <2>1 DEF GrantsAreHeld
<1>4. AcquiredIsReal'
  <2>1. CASE Head(events) = "granted" /\ nif # "open"
    <3>1. \E j \in 1 + 1 .. Len(events) : events[j] = "released"
      BY <1>0, <1>1, <2>1 DEF HeldInv, GrantsAreHeld
    <3>2. PICK j \in 1 + 1 .. Len(events) : events[j] = "released"
      BY <3>1
    <3>3. j - 1 \in 1 .. Len(events') /\ (j - 1) + 1 = j
      BY <1>0, <1>1, <3>2
    <3>4. InSeq("released", events')
      BY <1>2, <3>2, <3>3 DEF InSeq
    <3>5. QED
      BY <3>4 DEF AcquiredIsReal
  <2>2. CASE state' = state /\ Head(events) # "released"
    BY <1>0, <2>2, InTail DEF HeldInv, AcquiredIsReal
  <2>3. QED
    BY <2>1, <2>2 DEF AcquiredIsReal
<1>5. QED
  BY <1>3, <1>4 DEF HeldInv

(* A step that touches neither connection nor events and does not make the *)
(* machine acquired keeps it too.                                          *)
LEMMA HeldKept ==
    ASSUME HeldInv, UNCHANGED events, nif' = nif \/ (nif # "open" /\ nif' # "open"),
           state' = "acquired" => state = "acquired"
    PROVE  HeldInv'
BY DEF HeldInv, AcquiredIsReal, GrantsAreHeld, InSeq

LEMMA StepHeld == IInv /\ HeldInv /\ [Next]_vars => HeldInv'
<1> SUFFICES ASSUME IInv, HeldInv, [Next]_vars PROVE HeldInv'
  OBVIOUS
<1>1. ASSUME NEW c \in Client, RefuseSecond(c) \/ Subscribe(c) \/ Unsubscribe(c)
      PROVE  HeldInv'
  <2>1. UNCHANGED <<nif, events>>
    BY <1>1 DEF RefuseSecond, Subscribe, Unsubscribe
  <2>2. state' = "acquired" => state = "acquired"
    BY <1>1 DEF RefuseSecond, Subscribe, Unsubscribe, AfterUnsubscribe
  <2>3. QED
    BY <2>1, <2>2, HeldKept
<1>2. CASE PendingGranted
  BY <1>2, HeldTaken DEF PendingGranted, Next1
<1>3. CASE PendingDenied \/ AcquiredReleased
  BY <1>3, HeldTaken DEF PendingDenied, AcquiredReleased, Next1
<1>4. CASE ReleasingDone
  BY <1>4, HeldTaken DEF ReleasingDone, Next1
<1>5. CASE IgnoreEvent
  <2>1. /\ events # <<>> /\ events' = Tail(events) /\ UNCHANGED <<state, nif>>
        /\ <<state, Head(events)>> # <<"acquired", "released">>
    BY <1>5 DEF IgnoreEvent, Next1, hal
  <2>2. state' # "acquired" \/ Head(events) # "released"
    BY <2>1
  <2>3. QED
    BY <2>1, <2>2, HeldTaken
<1>6. CASE EngineRestart
  BY <1>6, HeldKept DEF EngineRestart, world
<1>7. CASE NifRequest
  <2>1. state' = state
    BY <1>7 DEF NifRequest, hal
  <2>2. CASE nif = "open"
    BY <1>7, <2>1, <2>2, HeldAppended DEF NifRequest, Event
  <2>3. CASE nif # "open"
    BY <1>7, <2>1, <2>3, HeldKept DEF NifRequest
  <2>4. QED
    BY <2>2, <2>3
<1>8. CASE NifRelease
  <2>1. state' = state
    BY <1>8 DEF NifRelease, hal
  <2>2. CASE nif = "closed"
    BY <1>8, <2>1, <2>2, HeldKept DEF NifRelease
  <2>3. CASE nif # "closed"
    BY <1>8, <2>1, <2>3, HeldAppended DEF NifRelease, Event
  <2>4. QED
    BY <2>2, <2>3
<1>9. CASE NifAnswer
  BY <1>9, HeldAppended DEF NifAnswer, Event, hal
<1>10. CASE NifLost
  BY <1>10, HeldAppended DEF NifLost, Event, hal
<1>11. CASE UNCHANGED vars
  BY <1>11, HeldKept DEF vars, hal, world
<1>12. QED
  BY <1>1, <1>2, <1>3, <1>4, <1>5, <1>6, <1>7, <1>8, <1>9, <1>10, <1>11
  DEF Next, OnRsrcEvent

(* Acquired means a connection that is there, or whose loss is on its way, *)
(* whatever earlier requests are still being answered.                     *)
THEOREM AcquiredAlwaysReal == Spec => []AcquiredIsReal
<1>1. Init => HeldInv
  BY DEF Init, HeldInv, AcquiredIsReal, GrantsAreHeld
<1>2. HeldInv => AcquiredIsReal
  BY DEF HeldInv
<1>3. QED
  BY <1>1, <1>2, InductiveInvariant, StepHeld, PTL DEF Spec

(* Where a wait begins: the command that ends it is the last one sent.     *)
LEMMA WaitBegins ==
    ASSUME IInv, HeldInv, WaitInv, UNCHANGED <<nif, events>>,
           \/ state' = "pending" /\ cmds' = Append(cmds, "request")
           \/ /\ state \in {"pending", "acquired"}
              /\ state' = "releasing" /\ cmds' = Append(cmds, "release")
    PROVE  WaitInv'
<1>0. cmds \in Seq(Action) /\ "request" \in Action /\ "release" \in Action
  BY DEF IInv, TypeOK, Action
<1>1. CASE state' = "pending" /\ cmds' = Append(cmds, "request")
  <2>1. LastIs("request", cmds')
    BY <1>0, <1>1, InAppended
  <2>2. QED
    BY <1>1, <2>1 DEF WaitInv, PendingWaits, ReleasingWaits
<1>2. CASE /\ state \in {"pending", "acquired"}
           /\ state' = "releasing" /\ cmds' = Append(cmds, "release")
  <2>1. LastIs("release", cmds') /\ cmds' # <<>>
    BY <1>0, <1>2, InAppended DEF LastIs
  <2>2. InSeq("request", cmds) => InSeq("request", cmds')
    BY <1>0, <1>2, InAppended
  <2>3. InSeq("granted", events) => nif = "open" \/ InSeq("released", events)
    <3>1. SUFFICES ASSUME InSeq("granted", events), nif # "open"
                   PROVE  InSeq("released", events)
      OBVIOUS
    <3>2. PICK i \in 1 .. Len(events) : events[i] = "granted"
      BY <3>1 DEF InSeq
    <3>3. PICK j \in i + 1 .. Len(events) : events[j] = "released"
      BY <3>1, <3>2 DEF HeldInv, GrantsAreHeld
    <3>4. j \in 1 .. Len(events)
      BY <3>2, <3>3
    <3>5. QED
      BY <3>3, <3>4 DEF InSeq
  <2>4. CASE state = "acquired"
    BY <1>2, <2>1, <2>4 DEF HeldInv, AcquiredIsReal, WaitInv, PendingWaits, ReleasingWaits
  <2>5. CASE state = "pending"
    <3>1. LastIs("request", cmds) => InSeq("request", cmds')
      BY <1>0, <2>2, LastIsIn
    <3>2. QED
      BY <1>2, <2>1, <2>3, <2>5, <3>1 DEF WaitInv, PendingWaits, ReleasingWaits
  <2>6. QED
    BY <1>2, <2>4, <2>5
<1>3. QED
  BY <1>1, <1>2

LEMMA WaitUnsubscribe ==
    ASSUME IInv, HeldInv, WaitInv, NEW c \in Client, Unsubscribe(c)
    PROVE  WaitInv'
<1>1. c \in subs /\ state # "released" /\ UNCHANGED <<nif, events>>
  BY DEF Unsubscribe, IInv, ReleasedIsEmpty
<1>2. CASE state' # "pending" /\ state' # "releasing"
  BY <1>2 DEF WaitInv, PendingWaits, ReleasingWaits
<1>3. CASE WaitForClose /\ state # "releasing"
  <2>1. subs \ (inactive \cup {c}) = {}
    BY <1>1, <1>3, KindAssumption DEF IInv, SingleSubscriber
  <2>2. state' = "releasing" /\ SendRsrcRequest("release", subs, inactive \cup {c})
    BY <1>1, <1>3, <2>1 DEF Unsubscribe, AfterUnsubscribe
  <2>3. cmds' = Append(cmds, "release")
    BY <2>1, <2>2 DEF SendRsrcRequest
  <2>4. state \in {"pending", "acquired"}
    BY <1>1, <1>3 DEF IInv, TypeOK, State
  <2>5. QED
    BY <1>1, <2>2, <2>3, <2>4, WaitBegins
<1>4. CASE WaitForClose /\ state = "releasing"
  <2>1. UNCHANGED <<state, cmds>>
    BY <1>1, <1>4 DEF Unsubscribe, AfterUnsubscribe
  <2>2. QED
    BY <1>1, <2>1 DEF WaitInv, PendingWaits, ReleasingWaits
<1>5. CASE ~WaitForClose
  <2>1. state # "releasing" /\ inactive = {}
    BY <1>5 DEF IInv, InactiveOnlyReleasing
  <2>2. \/ state' = "released"
        \/ UNCHANGED <<state, cmds>>
    BY <1>1, <1>5, <2>1 DEF Unsubscribe, AfterUnsubscribe
  <2>3. QED
    BY <1>1, <1>2, <2>2 DEF WaitInv, PendingWaits, ReleasingWaits
<1>6. QED
  BY <1>3, <1>4, <1>5

(* The service takes a command: its answer follows, or the one still       *)
(* behind it is the one that counts.                                       *)
LEMMA WaitTaken == IInv /\ WaitInv /\ (NifRequest \/ NifRelease) => WaitInv'
<1> SUFFICES ASSUME IInv, WaitInv, NifRequest \/ NifRelease PROVE WaitInv'
  OBVIOUS
<1>0. /\ cmds \in Seq(Action) /\ events \in Seq(Event)
      /\ "granted" \in Event /\ "released" \in Event
  BY DEF IInv, TypeOK, Event
<1>1. cmds # <<>> /\ cmds' = Tail(cmds) /\ state' = state
  BY DEF NifRequest, NifRelease, hal
<1>2. \A y : LastIs(y, cmds) => LastIs(y, cmds') \/ (cmds' = <<>> /\ y = Head(cmds))
  BY <1>0, <1>1, InTail
<1>3. \A y : InSeq(y, cmds) /\ y # Head(cmds) => InSeq(y, cmds') /\ cmds' # <<>>
  <2>1. \A y : InSeq(y, cmds) /\ y # Head(cmds) => InSeq(y, cmds')
    BY <1>0, <1>1, InTail
  <2>2. \A y : ~InSeq(y, <<>>)
    BY DEF InSeq
  <2>3. QED
    BY <2>1, <2>2
<1>4. \A y : InSeq(y, events) => InSeq(y, events')
  BY <1>0, InAppended DEF NifRequest, NifRelease
<1>5. CASE NifRequest
  <2>1. Head(cmds) = "request"
    BY <1>5 DEF NifRequest
  <2>2. InSeq("granted", events') \/ nif' = "opening"
    BY <1>0, <1>5, InAppended DEF NifRequest
  <2>3. nif' # "closed"
    BY <1>5 DEF NifRequest
  <2>4. PendingWaits'
    BY <1>1, <1>2, <2>2 DEF WaitInv, PendingWaits
  <2>5. state = "releasing" => LastIs("release", cmds') /\ cmds' # <<>>
    BY <1>1, <1>2, <2>1 DEF WaitInv, ReleasingWaits, LastIs
  <2>6. QED
    BY <1>1, <2>3, <2>4, <2>5 DEF WaitInv, ReleasingWaits
<1>6. CASE NifRelease
  <2>1. Head(cmds) = "release" /\ (nif' = nif \/ InSeq("released", events'))
    BY <1>0, <1>6, InAppended DEF NifRelease
  <2>2. PendingWaits'
    BY <1>1, <1>2, <2>1 DEF WaitInv, PendingWaits
  <2>3. nif # "closed" => InSeq("released", events')
    BY <1>0, <1>6, InAppended DEF NifRelease
  <2>4. ReleasingWaits'
    <3>1. SUFFICES ASSUME state = "releasing" PROVE ReleasingWaits'
      BY <1>1 DEF ReleasingWaits
    <3>2. cmds' = <<>> \/ LastIs("release", cmds')
      BY <1>1, <1>2, <3>1 DEF WaitInv, ReleasingWaits
    <3>3. CASE nif # "closed"
      BY <2>3, <3>2, <3>3 DEF ReleasingWaits
    <3>4. CASE nif = "closed"
      BY <1>3, <1>4, <2>1, <3>1, <3>2, <3>4 DEF WaitInv, ReleasingWaits
    <3>5. QED
      BY <3>3, <3>4
  <2>5. QED
    BY <2>2, <2>4 DEF WaitInv
<1>7. QED
  BY <1>5, <1>6

(* The service finishes an opening, or loses the connection.               *)
LEMMA WaitTold == IInv /\ WaitInv /\ (NifAnswer \/ NifLost) => WaitInv'
<1> SUFFICES ASSUME IInv, WaitInv, NifAnswer \/ NifLost PROVE WaitInv'
  OBVIOUS
<1>0. /\ events \in Seq(Event)
      /\ "granted" \in Event /\ "released" \in Event /\ "denied" \in Event
  BY DEF IInv, TypeOK, Event
<1>1. UNCHANGED <<state, cmds>>
  BY DEF NifAnswer, NifLost, hal
<1>2. \A y : InSeq(y, events) => InSeq(y, events')
  BY <1>0, InAppended DEF NifAnswer, NifLost
<1>3. CASE NifAnswer
  <2>1. \/ nif' = "open" /\ InSeq("granted", events')
        \/ InSeq("denied", events')
    BY <1>0, <1>3, InAppended DEF NifAnswer
  <2>2. QED
    BY <1>1, <1>2, <2>1 DEF WaitInv, PendingWaits, ReleasingWaits
<1>4. CASE NifLost
  <2>1. nif = "open" /\ InSeq("released", events')
    BY <1>0, <1>4, InAppended DEF NifLost
  <2>2. QED
    BY <1>1, <1>2, <2>1 DEF WaitInv, PendingWaits, ReleasingWaits
<1>5. QED
  BY <1>3, <1>4

LEMMA StepWait == IInv /\ HeldInv /\ WaitInv /\ [Next]_vars => WaitInv'
<1> SUFFICES ASSUME IInv, HeldInv, WaitInv, [Next]_vars PROVE WaitInv'
  OBVIOUS
<1>0. state' = "acquired" \/ state' = "released" => WaitInv'
  BY DEF WaitInv, PendingWaits, ReleasingWaits
<1>1. UNCHANGED <<state, cmds, nif, events>> => WaitInv'
  BY DEF WaitInv, PendingWaits, ReleasingWaits
<1>2. ASSUME NEW c \in Client, RefuseSecond(c) PROVE WaitInv'
  BY <1>1, <1>2 DEF RefuseSecond
<1>3. ASSUME NEW c \in Client, Subscribe(c) PROVE WaitInv'
  <2>1. CASE state = "released"
    <3>1. inactive = {} /\ (subs \cup {c}) \ inactive # {}
      BY <2>1 DEF IInv, InactiveOnlyReleasing
    <3>2. SendRsrcRequest("request", subs \cup {c}, inactive)
      BY <1>3, <2>1 DEF Subscribe
    <3>3. state' = "pending" /\ cmds' = Append(cmds, "request") /\ UNCHANGED <<nif, events>>
      BY <1>3, <2>1, <3>1, <3>2 DEF Subscribe, SendRsrcRequest
    <3>4. QED
      BY <3>3, WaitBegins
  <2>2. CASE state # "released"
    BY <1>1, <1>3, <2>2 DEF Subscribe
  <2>3. QED
    BY <2>1, <2>2
<1>4. ASSUME NEW c \in Client, Unsubscribe(c) PROVE WaitInv'
  BY <1>4, WaitUnsubscribe
<1>5. CASE PendingGranted \/ PendingDenied \/ AcquiredReleased
  BY <1>0, <1>5 DEF PendingGranted, PendingDenied, AcquiredReleased
<1>6. CASE ReleasingDone
  <2>1. subs' = {}
    BY <1>6 DEF ReleasingDone, IInv, InactiveOnlyReleasing
  <2>2. QED
    BY <1>0, <1>6, <2>1 DEF ReleasingDone
<1>7. CASE IgnoreEvent
  <2>1. /\ events # <<>> /\ events' = Tail(events) /\ UNCHANGED <<state, cmds, nif>>
        /\ state = "pending" => Head(events) \notin {"granted", "denied"}
        /\ state = "releasing" => Head(events) \notin {"released", "denied"}
    BY <1>7 DEF IgnoreEvent, Next1, hal
  <2>2. events \in Seq(Event)
    BY DEF IInv, TypeOK
  <2>3. \A y : InSeq(y, events) /\ y # Head(events) => InSeq(y, events')
    BY <2>1, <2>2, InTail
  <2>4. QED
    BY <2>1, <2>3 DEF WaitInv, PendingWaits, ReleasingWaits
<1>8. CASE EngineRestart
  BY <1>1, <1>8 DEF EngineRestart, world
<1>9. CASE NifRequest \/ NifRelease
  BY <1>9, WaitTaken
<1>10. CASE NifAnswer \/ NifLost
  BY <1>10, WaitTold
<1>11. CASE UNCHANGED vars
  BY <1>1, <1>11 DEF vars
<1>12. QED
  BY <1>2, <1>3, <1>4, <1>5, <1>6, <1>7, <1>8, <1>9, <1>10, <1>11
  DEF Next, OnRsrcEvent

(* A machine that waits always has something to wait for: the answer that  *)
(* ends the wait is queued, being produced, or will follow the last        *)
(* command it sent.                                                        *)
THEOREM AnswersAlwaysOutstanding == Spec => []AnswerOutstanding
<1>1. Init => HeldInv /\ WaitInv
  BY DEF Init, HeldInv, AcquiredIsReal, GrantsAreHeld, WaitInv, PendingWaits, ReleasingWaits
<1>2. IInv /\ WaitInv => AnswerOutstanding
  <2>1. IInv => (LastIs("request", cmds) => InSeq("request", cmds))
    BY LastIsIn DEF IInv, TypeOK
  <2>2. IInv => (LastIs("release", cmds) => InSeq("release", cmds))
    BY LastIsIn DEF IInv, TypeOK
  <2>3. QED
    BY <2>1, <2>2 DEF WaitInv, PendingWaits, ReleasingWaits, AnswerOutstanding
<1>3. QED
  BY <1>1, <1>2, InductiveInvariant, StepHeld, StepWait, PTL DEF Spec
-----------------------------------------------------------------------------
(* The daemons of wifi_nif: what each can still expect.                    *)

(* The messages on their way to the MsgTask, the next one first.           *)
OnWay == posted \o pipe

(* Those of daemon c among them ask for w, in this order.                  *)
Holds(q, c, w) ==
    \E f \in [1 .. Len(w) -> 1 .. Len(q)] :
        /\ \A i, j \in 1 .. Len(w) : i < j => f[i] < f[j]
        /\ \A i \in 1 .. Len(w) : q[f[i]].from = c /\ q[f[i]].op = w[i]
        /\ \A k \in 1 .. Len(q) : q[k].from = c => \E i \in 1 .. Len(w) : f[i] = k

(* What daemon c can have on its way: a release that crossed the end of    *)
(* what it had stays in front of what c asks for next.                     *)
Nothing(w)  == Len(w) = 0
Asks(w)     == Len(w) = 1 /\ w[1] = "request"
Leaves(w)   == Len(w) = 1 /\ w[1] = "release"
AsksAgain(w)   == Len(w) = 2 /\ w[1] = "release" /\ w[2] = "request"
AsksLeaves(w)  == Len(w) = 2 /\ w[1] = "request" /\ w[2] = "release"
LeavesAgain(w) == Len(w) = 3 /\ w[1] = "release" /\ w[2] = "request" /\ w[3] = "release"

(* What its own pipe can hold.                                             *)
Silent(a) == Len(a) = 0
Good(a)   == Len(a) = 1 /\ a[1] = "success"
Over(a)   ==
    \/ Len(a) = 1 /\ a[1] # "success"
    \/ Len(a) = 2 /\ a[1] = "success" /\ a[2] # "success"

Out(c)     == c \notin subs
In(c, p)   == c \in subs /\ phase[c] = p

Resting(c, w) ==
    view[c] = "idle" /\ Out(c) /\ Silent(answers[c]) /\ (Nothing(w) \/ Leaves(w))

Asking(c, w) ==
    /\ view[c] = "asked"
    /\ \/ Out(c) /\ Silent(answers[c]) /\ (Asks(w) \/ AsksAgain(w))
       \/ In(c, "requested") /\ Silent(answers[c]) /\ Nothing(w)
       \/ In(c, "open") /\ Good(answers[c]) /\ Nothing(w)
       \/ /\ Out(c) /\ Over(answers[c]) /\ Nothing(w)
          /\ Len(answers[c]) = 2 => answers[c][2] = "released"

Using(c, w) ==
    /\ view[c] = "up" /\ Nothing(w)
    /\ \/ In(c, "open") /\ Silent(answers[c])
       \/ Out(c) /\ Len(answers[c]) = 1 /\ answers[c][1] = "released"

Leaving(c, w) ==
    /\ view[c] = "leaving"
    /\ \/ Out(c) /\ Silent(answers[c]) /\ (AsksLeaves(w) \/ LeavesAgain(w))
       \/ In(c, "requested") /\ Silent(answers[c]) /\ Leaves(w)
       \/ In(c, "open") /\ (Silent(answers[c]) \/ Good(answers[c])) /\ Leaves(w)
       \/ In(c, "closing") /\ (Silent(answers[c]) \/ Good(answers[c])) /\ Nothing(w)
       \/ Out(c) /\ Over(answers[c]) /\ (Nothing(w) \/ Leaves(w))

Stands(c, w) == Resting(c, w) \/ Asking(c, w) \/ Using(c, w) \/ Leaving(c, w)

DaemonInv == \A c \in Client : \E w \in Seq(Action) : Holds(OnWay, c, w) /\ Stands(c, w)

DmnInv == DmnTypeOK /\ IInv /\ HeldInv /\ DaemonInv

-----------------------------------------------------------------------------
(* The messages of one daemon in a queue.                                  *)

LEMMA HoldsAppend ==
    ASSUME NEW q \in Seq(Message), NEW w \in Seq(Action), NEW m \in Message, NEW c,
           Holds(q, c, w)
    PROVE  /\ m.from # c => Holds(Append(q, m), c, w)
           /\ m.from = c => Holds(Append(q, m), c, Append(w, m.op))
<1> DEFINE p == Append(q, m)
<1>1. /\ p \in Seq(Message) /\ Len(p) = Len(q) + 1 /\ Len(q) \in Nat /\ Len(w) \in Nat
      /\ \A i \in 1 .. Len(q) : p[i] = q[i]
      /\ p[Len(q) + 1] = m
  BY AppendProperties
<1> HIDE DEF p
<1>2. PICK f \in [1 .. Len(w) -> 1 .. Len(q)] :
        /\ \A i, j \in 1 .. Len(w) : i < j => f[i] < f[j]
        /\ \A i \in 1 .. Len(w) : q[f[i]].from = c /\ q[f[i]].op = w[i]
        /\ \A k \in 1 .. Len(q) : q[k].from = c => \E i \in 1 .. Len(w) : f[i] = k
  BY DEF Holds
<1>3. ASSUME m.from # c PROVE Holds(p, c, w)
  <2>1. f \in [1 .. Len(w) -> 1 .. Len(p)]
    BY <1>1
  <2>2. \A i \in 1 .. Len(w) : p[f[i]].from = c /\ p[f[i]].op = w[i]
    BY <1>1, <1>2
  <2>3. ASSUME NEW k \in 1 .. Len(p), p[k].from = c PROVE \E i \in 1 .. Len(w) : f[i] = k
    <3>1. k \in 1 .. Len(q) /\ q[k].from = c
      BY <1>1, <1>3, <2>3
    <3>2. QED
      BY <1>2, <3>1
  <2>4. QED
    BY <1>2, <2>1, <2>2, <2>3 DEF Holds
<1>4. ASSUME m.from = c PROVE Holds(p, c, Append(w, m.op))
  <2> DEFINE v == Append(w, m.op)
             g == [i \in 1 .. Len(w) + 1 |-> IF i <= Len(w) THEN f[i] ELSE Len(q) + 1]
  <2>1. /\ Len(v) = Len(w) + 1 /\ \A i \in 1 .. Len(w) : v[i] = w[i]
        /\ v[Len(w) + 1] = m.op
    BY AppendProperties DEF Message
  <2>2. g \in [1 .. Len(v) -> 1 .. Len(p)]
    BY <1>1, <1>2, <2>1
  <2>3. /\ \A i \in 1 .. Len(w) : g[i] = f[i] /\ f[i] \in 1 .. Len(q)
        /\ g[Len(w) + 1] = Len(q) + 1
    <3>1. ASSUME NEW i \in 1 .. Len(w) PROVE g[i] = f[i] /\ f[i] \in 1 .. Len(q)
      BY <1>1, <1>2
    <3>2. g[Len(w) + 1] = Len(q) + 1
      BY <1>1
    <3>3. QED
      BY <3>1, <3>2
  <2> HIDE DEF g, v
  <2>4. ASSUME NEW i \in 1 .. Len(v), NEW j \in 1 .. Len(v), i < j PROVE g[i] < g[j]
    <3>1. i \in 1 .. Len(w)
      BY <1>1, <2>1, <2>4
    <3>2. CASE j \in 1 .. Len(w)
      BY <1>2, <2>3, <2>4, <3>1, <3>2
    <3>3. CASE j = Len(w) + 1
      BY <1>1, <2>3, <3>1, <3>3
    <3>4. j \in 1 .. Len(w) \/ j = Len(w) + 1
      BY <1>1, <2>1
    <3>5. QED
      BY <3>2, <3>3, <3>4
  <2>5. ASSUME NEW i \in 1 .. Len(v) PROVE p[g[i]].from = c /\ p[g[i]].op = v[i]
    <3>1. CASE i \in 1 .. Len(w)
      BY <1>1, <1>2, <2>1, <2>3, <3>1
    <3>2. CASE i = Len(w) + 1
      BY <1>1, <1>4, <2>1, <2>3, <3>2
    <3>3. QED
      BY <1>1, <2>1, <3>1, <3>2
  <2>6. ASSUME NEW k \in 1 .. Len(p), p[k].from = c PROVE \E i \in 1 .. Len(v) : g[i] = k
    <3>1. CASE k \in 1 .. Len(q)
      <4>1. PICK i \in 1 .. Len(w) : f[i] = k
        BY <1>1, <1>2, <2>6, <3>1
      <4>2. i \in 1 .. Len(v) /\ g[i] = k
        BY <1>1, <2>1, <2>3, <4>1
      <4>3. QED
        BY <4>2
    <3>2. CASE k = Len(q) + 1
      <4>1. Len(w) + 1 \in 1 .. Len(v) /\ g[Len(w) + 1] = k
        BY <1>1, <2>1, <2>3, <3>2
      <4>2. QED
        BY <4>1
    <3>3. QED
      BY <1>1, <3>1, <3>2
  <2>7. Holds(p, c, v)
    BY <2>2, <2>4, <2>5, <2>6 DEF Holds
  <2>8. QED
    BY <2>7 DEF v
<1>5. QED
  BY <1>3, <1>4 DEF p

LEMMA HoldsTail ==
    ASSUME NEW q \in Seq(Message), q # <<>>, NEW w \in Seq(Action), NEW c, Holds(q, c, w)
    PROVE  /\ Head(q).from # c => Holds(Tail(q), c, w)
           /\ Head(q).from = c =>
                 w # <<>> /\ w[1] = Head(q).op /\ Holds(Tail(q), c, Tail(w))
<1> DEFINE p == Tail(q)
<1>1. /\ Len(p) = Len(q) - 1 /\ Len(q) \in Nat \ {0} /\ Len(w) \in Nat /\ Head(q) = q[1]
      /\ \A i \in 1 .. Len(p) : p[i] = q[i + 1]
  BY HeadTailProperties
<1> HIDE DEF p
<1>2. PICK f \in [1 .. Len(w) -> 1 .. Len(q)] :
        /\ \A i, j \in 1 .. Len(w) : i < j => f[i] < f[j]
        /\ \A i \in 1 .. Len(w) : q[f[i]].from = c /\ q[f[i]].op = w[i]
        /\ \A k \in 1 .. Len(q) : q[k].from = c => \E i \in 1 .. Len(w) : f[i] = k
  BY DEF Holds
<1>3. ASSUME q[1].from # c PROVE Holds(p, c, w)
  <2> DEFINE g == [i \in 1 .. Len(w) |-> f[i] - 1]
  <2>1. \A i \in 1 .. Len(w) : f[i] \in 1 .. Len(q) /\ f[i] # 1
    BY <1>2, <1>3
  <2>2. g \in [1 .. Len(w) -> 1 .. Len(p)] /\ \A i \in 1 .. Len(w) : g[i] = f[i] - 1
    BY <1>1, <2>1
  <2> HIDE DEF g
  <2>3. ASSUME NEW i \in 1 .. Len(w), NEW j \in 1 .. Len(w), i < j PROVE g[i] < g[j]
    BY <1>2, <2>1, <2>2, <2>3
  <2>4. ASSUME NEW i \in 1 .. Len(w) PROVE p[g[i]].from = c /\ p[g[i]].op = w[i]
    <3>1. p[g[i]] = q[f[i]]
      BY <1>1, <2>1, <2>2
    <3>2. QED
      BY <1>2, <3>1
  <2>5. ASSUME NEW k \in 1 .. Len(p), p[k].from = c PROVE \E i \in 1 .. Len(w) : g[i] = k
    <3>1. k + 1 \in 1 .. Len(q) /\ q[k + 1].from = c
      BY <1>1, <2>5
    <3>2. PICK i \in 1 .. Len(w) : f[i] = k + 1
      BY <1>2, <3>1
    <3>3. g[i] = k
      BY <2>2, <3>2
    <3>4. QED
      BY <3>3
  <2>6. QED
    BY <2>2, <2>3, <2>4, <2>5 DEF Holds
<1>4. ASSUME q[1].from = c PROVE w # <<>> /\ w[1] = q[1].op /\ Holds(p, c, Tail(w))
  <2>1. PICK i0 \in 1 .. Len(w) : f[i0] = 1
    BY <1>1, <1>2, <1>4
  <2>2. 1 \in 1 .. Len(w) /\ w # <<>>
    BY <1>1, <2>1
  <2>3. f[1] = 1
    <3>1. f[1] \in 1 .. Len(q)
      BY <1>2, <2>2
    <3>2. i0 # 1 => f[1] < f[i0]
      BY <1>2, <2>1, <2>2
    <3>3. QED
      BY <1>1, <2>1, <3>1, <3>2
  <2> DEFINE v == Tail(w)
             g == [i \in 1 .. Len(w) - 1 |-> f[i + 1] - 1]
  <2>4. Len(v) = Len(w) - 1 /\ \A i \in 1 .. Len(v) : v[i] = w[i + 1]
    BY <2>2, HeadTailProperties
  <2>5. \A i \in 1 .. Len(v) : i + 1 \in 1 .. Len(w) /\ f[i + 1] \in 2 .. Len(q)
    <3>1. ASSUME NEW i \in 1 .. Len(v) PROVE i + 1 \in 1 .. Len(w) /\ f[i + 1] \in 2 .. Len(q)
      <4>1. i + 1 \in 1 .. Len(w) /\ 1 < i + 1
        BY <1>1, <2>4
      <4>2. f[1] < f[i + 1] /\ f[i + 1] \in 1 .. Len(q)
        BY <1>2, <2>2, <4>1
      <4>3. QED
        BY <1>1, <2>3, <4>1, <4>2
    <3>2. QED
      BY <3>1
  <2>6. g \in [1 .. Len(v) -> 1 .. Len(p)] /\ \A i \in 1 .. Len(v) : g[i] = f[i + 1] - 1
    BY <1>1, <2>4, <2>5
  <2> HIDE DEF g, v
  <2>7. ASSUME NEW i \in 1 .. Len(v), NEW j \in 1 .. Len(v), i < j PROVE g[i] < g[j]
    <3>1. f[i + 1] < f[j + 1]
      BY <1>1, <1>2, <2>4, <2>5, <2>7
    <3>2. QED
      BY <2>5, <2>6, <3>1
  <2>8. ASSUME NEW i \in 1 .. Len(v) PROVE p[g[i]].from = c /\ p[g[i]].op = v[i]
    <3>1. p[g[i]] = q[f[i + 1]]
      BY <1>1, <2>5, <2>6
    <3>2. QED
      BY <1>2, <2>4, <2>5, <3>1
  <2>9. ASSUME NEW k \in 1 .. Len(p), p[k].from = c PROVE \E i \in 1 .. Len(v) : g[i] = k
    <3>1. k + 1 \in 1 .. Len(q) /\ q[k + 1].from = c
      BY <1>1, <2>9
    <3>2. PICK i \in 1 .. Len(w) : f[i] = k + 1
      BY <1>2, <3>1
    <3>3. i # 1
      BY <2>3, <3>2
    <3>4. i - 1 \in 1 .. Len(v) /\ g[i - 1] = k
      BY <1>1, <2>4, <2>6, <3>2, <3>3
    <3>5. QED
      BY <3>4
  <2>10. Holds(p, c, v)
    BY <2>6, <2>7, <2>8, <2>9 DEF Holds
  <2>11. w[1] = q[1].op
    BY <1>2, <2>2, <2>3
  <2>12. QED
    BY <2>2, <2>10, <2>11 DEF v
<1>5. QED
  BY <1>1, <1>3, <1>4 DEF p

(* The way of a message: into the pipe, from the pipe to the MsgTask's     *)
(* queue, and out of that.                                                 *)
LEMMA WayWritten ==
    ASSUME DmnTypeOK, NEW m \in Message, pipe' = Append(pipe, m), UNCHANGED posted
    PROVE  OnWay' = Append(OnWay, m) /\ OnWay \in Seq(Message)
<1>1. posted \in Seq(Message) /\ pipe \in Seq(Message)
  BY DEF DmnTypeOK
<1>2. posted \o Append(pipe, m) = Append(posted \o pipe, m)
  <2>1. <<m>> \in Seq(Message) /\ posted \o pipe \in Seq(Message)
    BY <1>1, ConcatProperties
  <2>2. Append(pipe, m) = pipe \o <<m>> /\ Append(posted \o pipe, m) = (posted \o pipe) \o <<m>>
    BY <1>1, <2>1, AppendIsConcat
  <2>3. QED
    BY <1>1, <2>1, <2>2, ConcatAssociative
<1>3. QED
  BY <1>1, <1>2, ConcatProperties DEF OnWay

LEMMA WayServed ==
    ASSUME DmnTypeOK, pipe # <<>>, pipe' = Tail(pipe), posted' = Append(posted, Head(pipe))
    PROVE  OnWay' = OnWay
<1>1. posted \in Seq(Message) /\ pipe \in Seq(Message)
  BY DEF DmnTypeOK
<1> DEFINE h == Head(pipe)
           t == Tail(pipe)
<1>2. h \in Message /\ t \in Seq(Message) /\ <<h>> \in Seq(Message)
  BY <1>1, HeadTailProperties
<1>3. pipe = <<h>> \o t
  <2>1. /\ <<h>> \o t \in Seq(Message) /\ Len(<<h>> \o t) = 1 + Len(t)
        /\ \A i \in 1 .. 1 + Len(t) : (<<h>> \o t)[i] = IF i <= 1 THEN h ELSE t[i - 1]
    BY <1>2, ConcatProperties
  <2>2. /\ Len(t) = Len(pipe) - 1 /\ Len(pipe) \in Nat /\ h = pipe[1]
        /\ \A i \in 1 .. Len(t) : t[i] = pipe[i + 1]
    BY <1>1, HeadTailProperties
  <2> DEFINE e == <<h>> \o t
  <2>3. e \in Seq(Message) /\ Len(pipe) = Len(e)
    BY <2>1, <2>2
  <2>4. \A i \in 1 .. Len(pipe) : pipe[i] = e[i]
    BY <2>1, <2>2
  <2> HIDE DEF e
  <2>5. pipe = e
    BY <1>1, <2>3, <2>4, SeqEqual
  <2>6. QED
    BY <2>5 DEF e
<1>4. Append(posted, h) = posted \o <<h>>
  BY <1>1, <1>2, AppendIsConcat
<1>5. OnWay' = (posted \o <<h>>) \o t
  BY <1>4 DEF OnWay
<1> DEFINE one == <<h>>
<1>6. one \in Seq(Message) /\ t \in Seq(Message)
  BY <1>2
<1> HIDE DEF one, t
<1>7. (posted \o one) \o t = posted \o (one \o t)
  BY <1>1, <1>6, ConcatAssociative
<1>8. QED
  BY <1>3, <1>5, <1>7 DEF OnWay, one

LEMMA WayTaken ==
    ASSUME DmnTypeOK, posted # <<>>, posted' = Tail(posted), UNCHANGED pipe
    PROVE  /\ OnWay \in Seq(Message) /\ OnWay # <<>>
           /\ Head(OnWay) = Head(posted) /\ OnWay' = Tail(OnWay)
<1>1. posted \in Seq(Message) /\ pipe \in Seq(Message)
  BY DEF DmnTypeOK
<1> DEFINE q == posted \o pipe
           r == Tail(posted) \o pipe
<1>2. /\ q \in Seq(Message) /\ Len(q) = Len(posted) + Len(pipe)
      /\ \A i \in 1 .. Len(posted) + Len(pipe) : q[i] =
            IF i <= Len(posted) THEN posted[i] ELSE pipe[i - Len(posted)]
  BY <1>1, ConcatProperties
<1>3. /\ Tail(posted) \in Seq(Message) /\ Len(Tail(posted)) = Len(posted) - 1
      /\ \A i \in 1 .. Len(Tail(posted)) : Tail(posted)[i] = posted[i + 1]
      /\ Len(posted) \in Nat \ {0} /\ Len(pipe) \in Nat /\ Head(posted) = posted[1]
  BY <1>1, HeadTailProperties
<1>4. /\ r \in Seq(Message) /\ Len(r) = Len(Tail(posted)) + Len(pipe)
      /\ \A i \in 1 .. Len(Tail(posted)) + Len(pipe) : r[i] =
            IF i <= Len(Tail(posted)) THEN Tail(posted)[i] ELSE pipe[i - Len(Tail(posted))]
  BY <1>1, <1>3, ConcatProperties
<1> HIDE DEF q, r
<1>5. q # <<>> /\ Len(q) \in Nat \ {0} /\ q[1] = posted[1]
  BY <1>2, <1>3
<1>6. /\ Tail(q) \in Seq(Message) /\ Len(Tail(q)) = Len(q) - 1 /\ Head(q) = q[1]
      /\ \A i \in 1 .. Len(Tail(q)) : Tail(q)[i] = q[i + 1]
  BY <1>2, <1>5, HeadTailProperties
<1>7. ASSUME NEW i \in 1 .. Len(r) PROVE r[i] = Tail(q)[i]
  BY <1>2, <1>3, <1>4, <1>6
<1>8. r = Tail(q)
  BY <1>2, <1>3, <1>4, <1>6, <1>7, SeqEqual
<1>9. QED
  BY <1>2, <1>3, <1>5, <1>6, <1>8 DEF OnWay, q, r
-----------------------------------------------------------------------------
(* The steps, as the daemons see them.                                     *)

LEMMA WordsGrow ==
    ASSUME NEW w \in Seq(Action)
    PROVE  /\ Append(w, "request") \in Seq(Action) /\ Append(w, "release") \in Seq(Action)
           /\ Nothing(w) => Asks(Append(w, "request")) /\ Leaves(Append(w, "release"))
           /\ Leaves(w) => AsksAgain(Append(w, "request"))
           /\ Asks(w) => AsksLeaves(Append(w, "release"))
           /\ AsksAgain(w) => LeavesAgain(Append(w, "release"))
<1>1. ASSUME NEW x \in Action
      PROVE  /\ Append(w, x) \in Seq(Action) /\ Len(Append(w, x)) = Len(w) + 1
             /\ Len(w) \in Nat
             /\ \A i \in 1 .. Len(w) : Append(w, x)[i] = w[i]
             /\ Append(w, x)[Len(w) + 1] = x
  BY AppendProperties
<1>2. "request" \in Action /\ "release" \in Action
  BY DEF Action
<1> DEFINE u == Append(w, "request")
           v == Append(w, "release")
<1>3. /\ u \in Seq(Action) /\ Len(u) = Len(w) + 1 /\ Len(w) \in Nat
      /\ \A i \in 1 .. Len(w) : u[i] = w[i]
      /\ u[Len(w) + 1] = "request"
  BY <1>1, <1>2
<1>4. /\ v \in Seq(Action) /\ Len(v) = Len(w) + 1
      /\ \A i \in 1 .. Len(w) : v[i] = w[i]
      /\ v[Len(w) + 1] = "release"
  BY <1>1, <1>2
<1> HIDE DEF u, v
<1>5. /\ Nothing(w) => Asks(u) /\ Leaves(v)
      /\ Leaves(w) => AsksAgain(u)
  BY <1>3, <1>4 DEF Nothing, Asks, Leaves, AsksAgain
<1>6. /\ Asks(w) => AsksLeaves(v)
      /\ AsksAgain(w) => LeavesAgain(v)
  BY <1>3, <1>4 DEF Asks, AsksAgain, AsksLeaves, LeavesAgain
<1>7. QED
  BY <1>3, <1>4, <1>5, <1>6 DEF u, v

LEMMA WordsShrink ==
    ASSUME NEW w \in Seq(Action), w # <<>>
    PROVE  /\ Tail(w) \in Seq(Action) /\ ~Nothing(w)
           /\ Asks(w) => Nothing(Tail(w)) /\ w[1] = "request"
           /\ Leaves(w) => Nothing(Tail(w)) /\ w[1] = "release"
           /\ AsksAgain(w) => Asks(Tail(w)) /\ w[1] = "release"
           /\ AsksLeaves(w) => Leaves(Tail(w)) /\ w[1] = "request"
           /\ LeavesAgain(w) => AsksLeaves(Tail(w)) /\ w[1] = "release"
<1>1. /\ Tail(w) \in Seq(Action) /\ Len(Tail(w)) = Len(w) - 1 /\ Len(w) \in Nat \ {0}
      /\ \A i \in 1 .. Len(Tail(w)) : Tail(w)[i] = w[i + 1]
  BY HeadTailProperties
<1>2. QED
  BY <1>1 DEF Nothing, Asks, Leaves, AsksAgain, AsksLeaves, LeavesAgain

(* An answer that is added to those of a daemon.                           *)
LEMMA AnswersGrow ==
    ASSUME NEW a \in Seq(Reply), NEW p
    PROVE  /\ ReplyTo(p) \in Seq(Reply) /\ a \o ReplyTo(p) \in Seq(Reply)
           /\ p = "open" /\ Silent(a) => Good(a \o ReplyTo(p))
           /\ p \in {"refused", "idle"} =>
                 /\ Silent(a) \/ Good(a) => Over(a \o ReplyTo(p))
                 /\ Silent(a) => Len(a \o ReplyTo(p)) = 1
                 /\ Silent(a) /\ p = "idle" => (a \o ReplyTo(p))[1] = "released"
                 /\ Good(a) => Len(a \o ReplyTo(p)) = 2
                 /\ Good(a) /\ p = "idle" => (a \o ReplyTo(p))[2] = "released"
           /\ p \notin {"open", "refused", "idle"} => a \o ReplyTo(p) = a
<1>1. CASE p \in {"open", "refused", "idle"}
  <2> DEFINE x == IF p = "open" THEN "success" ELSE IF p = "refused" THEN "failure" ELSE "released"
  <2>1. ReplyTo(p) = <<x>> /\ x \in Reply
    BY <1>1 DEF ReplyTo, Reply
  <2>2. <<x>> \in Seq(Reply) /\ a \o <<x>> = Append(a, x)
    BY <2>1, AppendIsConcat
  <2>3. /\ Append(a, x) \in Seq(Reply) /\ Len(Append(a, x)) = Len(a) + 1 /\ Len(a) \in Nat
        /\ \A i \in 1 .. Len(a) : Append(a, x)[i] = a[i]
        /\ Append(a, x)[Len(a) + 1] = x
    BY <2>1, AppendProperties
  <2>4. /\ p = "open" => x = "success"
        /\ p = "refused" => x = "failure"
        /\ p = "idle" => x = "released"
    OBVIOUS
  <2> DEFINE b == a \o ReplyTo(p)
  <2>5. /\ b \in Seq(Reply) /\ Len(b) = Len(a) + 1 /\ Len(a) \in Nat
        /\ \A i \in 1 .. Len(a) : b[i] = a[i]
        /\ b[Len(a) + 1] = x
    BY <2>1, <2>2, <2>3
  <2> HIDE DEF b, x
  <2>6. p = "open" /\ Silent(a) => Good(b)
    BY <2>4, <2>5 DEF Silent, Good
  <2>7. ASSUME p \in {"refused", "idle"}
        PROVE  /\ Silent(a) \/ Good(a) => Over(b)
               /\ Silent(a) => Len(b) = 1
               /\ Silent(a) /\ p = "idle" => b[1] = "released"
               /\ Good(a) => Len(b) = 2
               /\ Good(a) /\ p = "idle" => b[2] = "released"
    <3>1. x # "success"
      BY <2>4, <2>7
    <3>2. CASE Silent(a)
      BY <2>4, <2>5, <3>1, <3>2 DEF Silent, Good, Over
    <3>3. CASE Good(a)
      BY <2>4, <2>5, <3>1, <3>3 DEF Silent, Good, Over
    <3>4. QED
      BY <3>2, <3>3
  <2>8. QED
    BY <1>1, <2>1, <2>2, <2>5, <2>6, <2>7 DEF b
<1>2. CASE p \notin {"open", "refused", "idle"}
  <2>1. ReplyTo(p) = <<>>
    BY <1>2 DEF ReplyTo
  <2>2. QED
    BY <1>2, <2>1, ConcatEmptySeq, EmptySeq
<1>3. QED
  BY <1>1, <1>2

(* An answer that a daemon takes out of its pipe.                          *)
LEMMA AnswersShrink ==
    ASSUME NEW a \in Seq(Reply), a # <<>>
    PROVE  /\ Tail(a) \in Seq(Reply) /\ ~Silent(a)
           /\ Head(a) = a[1]
           /\ Good(a) => Silent(Tail(a)) /\ Head(a) = "success"
           /\ Over(a) /\ Len(a) = 1 => Silent(Tail(a)) /\ Head(a) # "success"
           /\ Over(a) /\ Len(a) # 1 =>
                 /\ Len(a) = 2 /\ Head(a) = "success" /\ Over(Tail(a))
                 /\ Len(Tail(a)) = 1 /\ Tail(a)[1] = a[2]
<1>1. /\ Tail(a) \in Seq(Reply) /\ Len(Tail(a)) = Len(a) - 1 /\ Len(a) \in Nat \ {0}
      /\ \A i \in 1 .. Len(Tail(a)) : Tail(a)[i] = a[i + 1]
      /\ Head(a) = a[1]
  BY HeadTailProperties
<1>2. QED
  BY <1>1 DEF Silent, Good, Over

(* A daemon that no step concerns stands where it stood.                   *)
LEMMA StandsKept ==
    ASSUME NEW c \in Client, NEW w, Stands(c, w),
           view'[c] = view[c], answers'[c] = answers[c], phase'[c] = phase[c],
           c \in subs' <=> c \in subs
    PROVE  Stands(c, w)'
  BY DEF Stands, Resting, Asking, Using, Leaving, Out, In
(* A daemon is not told what it did not wait for: one answer for each      *)
(* client whose phase changed.                                             *)
LEMMA RespondChanged ==
    ASSUME DmnTypeOK, Respond(Changed)
    PROVE  /\ answers' \in [Client -> Seq(Reply)]
           /\ \A c \in Client : answers'[c] =
                 IF phase'[c] # phase[c] THEN answers[c] \o ReplyTo(phase'[c]) ELSE answers[c]
<1>1. answers' = [c \in Client |->
                    IF c \in Changed THEN answers[c] \o ReplyTo(phase'[c]) ELSE answers[c]]
  BY DEF Respond
<1>2. ASSUME NEW c \in Client
      PROVE  answers[c] \in Seq(Reply) /\ answers[c] \o ReplyTo(phase'[c]) \in Seq(Reply)
  BY AnswersGrow DEF DmnTypeOK
<1>3. QED
  BY <1>1, <1>2 DEF Changed

LEMMA RespondOne ==
    ASSUME DmnTypeOK, NEW d \in Client, Respond({d})
    PROVE  /\ answers' \in [Client -> Seq(Reply)]
           /\ \A c \in Client : answers'[c] =
                 IF c = d THEN answers[c] \o ReplyTo(phase'[c]) ELSE answers[c]
<1>1. answers' = [c \in Client |->
                    IF c \in {d} THEN answers[c] \o ReplyTo(phase'[c]) ELSE answers[c]]
  BY DEF Respond
<1>2. ASSUME NEW c \in Client
      PROVE  answers[c] \in Seq(Reply) /\ answers[c] \o ReplyTo(phase'[c]) \in Seq(Reply)
  BY AnswersGrow DEF DmnTypeOK
<1>3. QED
  BY <1>1, <1>2

(* What an answer of the connectivity service does to one client: nothing, *)
(* or it has what it waited for, or it has nothing any more.               *)
LEMMA EventEffect ==
    ASSUME IInv, OnRsrcEvent, NEW c \in Client
    PROVE  \/ phase'[c] = phase[c] /\ (c \in subs' <=> c \in subs)
           \/ In(c, "requested") /\ phase'[c] = "open" /\ c \in subs'
           \/ /\ c \in subs /\ c \notin subs' /\ phase'[c] \in {"idle", "refused"}
              /\ phase[c] \in {"requested", "open", "closing"}
              /\ phase[c] = "open" => phase'[c] = "idle"
<1> USE DEF In
<1>1. CASE IgnoreEvent
  BY <1>1 DEF IgnoreEvent, hal
<1>2. CASE PendingGranted
  <2>1. inactive = {} /\ (c \in subs => phase[c] = "requested")
    BY <1>2 DEF PendingGranted, IInv, InactiveOnlyReleasing, PhaseOfSubscriber
  <2>2. phase'[c] = IF c \in subs THEN "open" ELSE phase[c]
    BY <1>2, <2>1 DEF PendingGranted, Tell, Answer
  <2>3. QED
    BY <1>2, <2>1, <2>2 DEF PendingGranted
<1>3. CASE PendingDenied
  <2>1. c \in subs => phase[c] = "requested"
    BY <1>3 DEF PendingDenied, IInv, PhaseOfSubscriber
  <2>2. phase'[c] = IF c \in subs THEN "refused" ELSE phase[c]
    BY <1>3 DEF PendingDenied, Tell, Answer
  <2>3. QED
    BY <1>3, <2>1, <2>2 DEF PendingDenied
<1>4. CASE AcquiredReleased
  <2>1. c \in subs => phase[c] = "open"
    BY <1>4 DEF AcquiredReleased, IInv, PhaseOfSubscriber
  <2>2. phase'[c] = IF c \in subs THEN "idle" ELSE phase[c]
    BY <1>4 DEF AcquiredReleased, Tell, Answer
  <2>3. QED
    BY <1>4, <2>1, <2>2 DEF AcquiredReleased
<1>5. CASE ReleasingDone
  <2>1. inactive = subs /\ (c \in subs => phase[c] = "closing")
    BY <1>5 DEF ReleasingDone, IInv, InactiveOnlyReleasing, PhaseOfSubscriber
  <2>2. PICK event \in {"released", "denied"} : Tell(inactive, event)
    BY <1>5 DEF ReleasingDone
  <2>3. phase'[c] = IF c \in subs THEN Answer(event) ELSE phase[c]
    BY <2>1, <2>2 DEF Tell
  <2>4. Answer(event) \in {"idle", "refused"}
    BY <2>2 DEF Answer
  <2>5. QED
    BY <1>5, <2>1, <2>3, <2>4 DEF ReleasingDone
<1>6. QED
  BY <1>1, <1>2, <1>3, <1>4, <1>5 DEF OnRsrcEvent

LEMMA AskStep == ASSUME DmnInv, NEW c \in Client, Ask(c) PROVE DaemonInv'
<1> DEFINE m == [from |-> c, op |-> "request"]
<1>1. m \in Message /\ m.from = c /\ m.op = "request"
  BY DEF Message, Action
<1>2. /\ pipe' = Append(pipe, m) /\ UNCHANGED <<vars, posted, answers>>
      /\ view[c] = "idle" /\ view' = [view EXCEPT ![c] = "asked"]
  BY DEF Ask, Write
<1> HIDE DEF m
<1>3. OnWay' = Append(OnWay, m) /\ OnWay \in Seq(Message)
  BY <1>1, <1>2, WayWritten DEF DmnInv
<1>4. ASSUME NEW d \in Client
      PROVE  \E w \in Seq(Action) : Holds(OnWay', d, w) /\ Stands(d, w)'
  <2>1. PICK w \in Seq(Action) : Holds(OnWay, d, w) /\ Stands(d, w)
    BY DEF DmnInv, DaemonInv
  <2>2. UNCHANGED <<phase, subs>>
    BY <1>2 DEF vars
  <2>3. CASE d # c
    <3>1. view'[d] = view[d]
      BY <1>2, <2>3 DEF DmnInv, DmnTypeOK
    <3>2. Holds(OnWay', d, w)
      BY <1>1, <1>3, <2>1, <2>3, HoldsAppend
    <3>3. Stands(d, w)'
      BY <1>2, <2>1, <2>2, <3>1, StandsKept
    <3>4. QED
      BY <3>2, <3>3
  <2>4. CASE d = c
    <3> DEFINE v == Append(w, "request")
    <3>1. view'[c] = "asked"
      BY <1>2 DEF DmnInv, DmnTypeOK
    <3>2. Holds(OnWay', c, v) /\ v \in Seq(Action)
      BY <1>1, <1>3, <2>1, <2>4, HoldsAppend, WordsGrow
    <3>3. Resting(c, w)
      BY <1>2, <2>1, <2>4 DEF Stands, Asking, Using, Leaving
    <3>4. Asks(v) \/ AsksAgain(v)
      BY <3>3, WordsGrow DEF Resting
    <3> HIDE DEF v
    <3>5. Asking(c, v)'
      BY <1>2, <2>2, <3>1, <3>3, <3>4 DEF Resting, Asking, Out
    <3>6. QED
      BY <2>4, <3>2, <3>5 DEF Stands
  <2>5. QED
    BY <2>3, <2>4
<1>5. QED
  BY <1>4 DEF DaemonInv

LEMMA LeaveStep == ASSUME DmnInv, NEW c \in Client, Leave(c) PROVE DaemonInv'
<1> DEFINE m == [from |-> c, op |-> "release"]
<1>1. m \in Message /\ m.from = c /\ m.op = "release"
  BY DEF Message, Action
<1>2. /\ pipe' = Append(pipe, m) /\ UNCHANGED <<vars, posted, answers>>
      /\ view[c] \in {"asked", "up"} /\ view' = [view EXCEPT ![c] = "leaving"]
  BY DEF Leave, Write
<1> HIDE DEF m
<1>3. OnWay' = Append(OnWay, m) /\ OnWay \in Seq(Message)
  BY <1>1, <1>2, WayWritten DEF DmnInv
<1>4. ASSUME NEW d \in Client
      PROVE  \E w \in Seq(Action) : Holds(OnWay', d, w) /\ Stands(d, w)'
  <2>1. PICK w \in Seq(Action) : Holds(OnWay, d, w) /\ Stands(d, w)
    BY DEF DmnInv, DaemonInv
  <2>2. UNCHANGED <<phase, subs>>
    BY <1>2 DEF vars
  <2>3. CASE d # c
    <3>1. view'[d] = view[d]
      BY <1>2, <2>3 DEF DmnInv, DmnTypeOK
    <3>2. Holds(OnWay', d, w)
      BY <1>1, <1>3, <2>1, <2>3, HoldsAppend
    <3>3. Stands(d, w)'
      BY <1>2, <2>1, <2>2, <3>1, StandsKept
    <3>4. QED
      BY <3>2, <3>3
  <2>4. CASE d = c
    <3> DEFINE v == Append(w, "release")
    <3>1. view'[c] = "leaving"
      BY <1>2 DEF DmnInv, DmnTypeOK
    <3>2. Holds(OnWay', c, v) /\ v \in Seq(Action)
      BY <1>1, <1>3, <2>1, <2>4, HoldsAppend, WordsGrow
    <3>3. Asking(c, w) \/ Using(c, w)
      BY <1>2, <2>1, <2>4 DEF Stands, Resting, Leaving
    <3>4. /\ Nothing(w) => Leaves(v)
          /\ Asks(w) => AsksLeaves(v)
          /\ AsksAgain(w) => LeavesAgain(v)
      BY WordsGrow
    <3> HIDE DEF v
    <3>5. CASE Asking(c, w)
      <4>1. Leaving(c, v)'
        BY <1>2, <2>2, <3>1, <3>4, <3>5 DEF Asking, Leaving, Out, In
      <4>2. QED
        BY <2>4, <3>2, <4>1 DEF Stands
    <3>6. CASE Using(c, w)
      <4>1. Out(c) => Over(answers[c])
        BY <3>6 DEF Using, Over, Out, In
      <4>2. Leaving(c, v)'
        BY <1>2, <2>2, <3>1, <3>4, <3>6, <4>1 DEF Using, Leaving, Out, In
      <4>3. QED
        BY <2>4, <3>2, <4>2 DEF Stands
    <3>7. QED
      BY <3>3, <3>5, <3>6
  <2>5. QED
    BY <2>3, <2>4
<1>5. QED
  BY <1>4 DEF DaemonInv

LEMMA HearStep == ASSUME DmnInv, NEW c \in Client, Hear(c) PROVE DaemonInv'
<1> DEFINE a == answers[c]
<1>1. /\ a # <<>> /\ UNCHANGED <<vars, pipe, posted>>
      /\ answers' = [answers EXCEPT ![c] = Tail(a)]
      /\ view' = [view EXCEPT ![c] =
                    IF Head(a) # "success" THEN "idle"
                    ELSE IF view[c] = "asked" THEN "up" ELSE view[c]]
  BY DEF Hear
<1>2. a \in Seq(Reply)
  BY DEF DmnInv, DmnTypeOK
<1>3. /\ answers'[c] = Tail(a)
      /\ Head(a) # "success" => view'[c] = "idle"
      /\ Head(a) = "success" /\ view[c] = "asked" => view'[c] = "up"
      /\ Head(a) = "success" /\ view[c] # "asked" => view'[c] = view[c]
      /\ \A d \in Client \ {c} : answers'[d] = answers[d] /\ view'[d] = view[d]
  BY <1>1 DEF DmnInv, DmnTypeOK
<1>4. OnWay' = OnWay /\ UNCHANGED <<phase, subs>>
  BY <1>1 DEF OnWay, vars
<1>5. ASSUME NEW d \in Client
      PROVE  \E w \in Seq(Action) : Holds(OnWay', d, w) /\ Stands(d, w)'
  <2>1. PICK w \in Seq(Action) : Holds(OnWay, d, w) /\ Stands(d, w)
    BY DEF DmnInv, DaemonInv
  <2>2. CASE d # c
    <3>1. Stands(d, w)'
      BY <1>3, <1>4, <2>1, <2>2, StandsKept
    <3>2. QED
      BY <1>4, <2>1, <3>1
  <2>3. CASE d = c
    <3> HIDE DEF a
    <3>1. /\ ~Silent(a) /\ Head(a) = a[1]
          /\ Good(a) => Silent(Tail(a)) /\ Head(a) = "success"
          /\ Over(a) /\ Len(a) = 1 => Silent(Tail(a)) /\ Head(a) # "success"
          /\ Over(a) /\ Len(a) # 1 =>
                /\ Len(a) = 2 /\ Head(a) = "success" /\ Over(Tail(a))
                /\ Len(Tail(a)) = 1 /\ Tail(a)[1] = a[2]
      BY <1>1, <1>2, AnswersShrink
    <3>2. a = answers[c]
      BY DEF a
    <3>3. ~Resting(c, w)
      BY <3>1, <3>2 DEF Resting
    <3>4. CASE Asking(c, w)
      <4>1. CASE Good(a)
        <5>1. Using(c, w)'
          BY <1>3, <1>4, <3>1, <3>2, <3>4, <4>1 DEF Asking, Using, Out, In, Good, Over
        <5>2. QED
          BY <1>4, <2>1, <2>3, <5>1 DEF Stands
      <4>2. CASE ~Good(a) /\ Len(a) = 1
        <5>1. Resting(c, w)'
          BY <1>3, <1>4, <3>1, <3>2, <3>4, <4>2 DEF Asking, Resting, Out, In
        <5>2. QED
          BY <1>4, <2>1, <2>3, <5>1 DEF Stands
      <4>3. CASE ~Good(a) /\ Len(a) # 1
        <5>1. Using(c, w)'
          BY <1>3, <1>4, <3>1, <3>2, <3>4, <4>3 DEF Asking, Using, Out, In
        <5>2. QED
          BY <1>4, <2>1, <2>3, <5>1 DEF Stands
      <4>4. QED
        BY <4>1, <4>2, <4>3
    <3>5. CASE Using(c, w)
      <4>1. Len(a) = 1 /\ Over(a) /\ Out(c)
        BY <3>1, <3>2, <3>5 DEF Using, Over
      <4>2. Resting(c, w)'
        BY <1>3, <1>4, <3>1, <3>5, <4>1 DEF Using, Resting, Out
      <4>3. QED
        BY <1>4, <2>1, <2>3, <4>2 DEF Stands
    <3>6. CASE Leaving(c, w)
      <4>1. CASE Good(a)
        <5>1. ~Over(a) /\ view[c] # "asked"
          BY <3>6, <4>1 DEF Good, Over, Leaving
        <5>2. Leaving(c, w)'
          BY <1>3, <1>4, <3>1, <3>2, <3>6, <4>1, <5>1 DEF Leaving, Out, In
        <5>3. QED
          BY <1>4, <2>1, <2>3, <5>2 DEF Stands
      <4>2. CASE ~Good(a) /\ Len(a) = 1
        <5>1. Resting(c, w)'
          BY <1>3, <1>4, <3>1, <3>2, <3>6, <4>2 DEF Leaving, Resting, Out, In
        <5>2. QED
          BY <1>4, <2>1, <2>3, <5>1 DEF Stands
      <4>3. CASE ~Good(a) /\ Len(a) # 1
        <5>1. Leaving(c, w)'
          BY <1>3, <1>4, <3>1, <3>2, <3>6, <4>3 DEF Leaving, Out, In
        <5>2. QED
          BY <1>4, <2>1, <2>3, <5>1 DEF Stands
      <4>4. QED
        BY <4>1, <4>2, <4>3
    <3>7. QED
      BY <2>1, <2>3, <3>3, <3>4, <3>5, <3>6 DEF Stands
  <2>4. QED
    BY <2>2, <2>3
<1>6. QED
  BY <1>5 DEF DaemonInv
(* The MsgTask takes the next message on its way, and whose it is.         *)
LEMMA TakenEffect ==
    ASSUME DmnInv, NEW c \in Client, NEW op \in Action, TakePosted(c, op),
           NEW d \in Client, NEW w \in Seq(Action), Holds(OnWay, d, w)
    PROVE  /\ d # c => Holds(OnWay', d, w)
           /\ d = c => w # <<>> /\ w[1] = op /\ Holds(OnWay', d, Tail(w))
<1>1. /\ posted # <<>> /\ posted' = Tail(posted) /\ UNCHANGED pipe
      /\ Head(posted) = [from |-> c, op |-> op]
  BY DEF TakePosted
<1>2. /\ OnWay \in Seq(Message) /\ OnWay # <<>>
      /\ Head(OnWay) = Head(posted) /\ OnWay' = Tail(OnWay)
  BY <1>1, WayTaken DEF DmnInv
<1>3. Head(OnWay).from = c /\ Head(OnWay).op = op
  BY <1>1, <1>2
<1>4. QED
  BY <1>2, <1>3, HoldsTail

LEMMA RequestStep == ASSUME DmnInv, NEW c \in Client, ProcRequest(c) PROVE DaemonInv'
<1>1. /\ TakePosted(c, "request") /\ UNCHANGED view
      /\ \/ Subscribe(c) /\ Respond(Changed)
         \/ RefuseSecond(c) /\ Respond({c})
      /\ "request" \in Action
  BY DEF ProcRequest, TakePosted, Action
<1>2. phase \in [Client -> Phase] /\ subs \in SUBSET Client
  BY DEF DmnInv, DmnTypeOK, TypeOK
<1>3. ASSUME NEW d \in Client, d # c
      PROVE  phase'[d] = phase[d] /\ answers'[d] = answers[d] /\ (d \in subs' <=> d \in subs)
  <2>1. CASE Subscribe(c) /\ Respond(Changed)
    <3>1. phase'[d] = phase[d] /\ (d \in subs' <=> d \in subs)
      BY <1>2, <1>3, <2>1 DEF Subscribe
    <3>2. QED
      BY <2>1, <3>1, RespondChanged DEF DmnInv
  <2>2. CASE RefuseSecond(c) /\ Respond({c})
    <3>1. phase'[d] = phase[d] /\ (d \in subs' <=> d \in subs)
      BY <1>3, <2>2 DEF RefuseSecond, Tell
    <3>2. QED
      BY <1>3, <2>2, <3>1, RespondOne DEF DmnInv
  <2>3. QED
    BY <1>1, <2>1, <2>2
<1>4. ASSUME NEW d \in Client
      PROVE  \E w \in Seq(Action) : Holds(OnWay', d, w) /\ Stands(d, w)'
  <2>1. PICK w \in Seq(Action) : Holds(OnWay, d, w) /\ Stands(d, w)
    BY DEF DmnInv, DaemonInv
  <2>2. CASE d # c
    <3>1. Holds(OnWay', d, w)
      BY <1>1, <2>1, <2>2, TakenEffect
    <3>2. Stands(d, w)'
      BY <1>1, <1>3, <2>1, <2>2, StandsKept
    <3>3. QED
      BY <3>1, <3>2
  <2>3. CASE d = c
    <3> DEFINE v == Tail(w)
    <3>1. w # <<>> /\ w[1] = "request" /\ Holds(OnWay', c, v)
      BY <1>1, <2>1, <2>3, TakenEffect
    <3>2. /\ v \in Seq(Action) /\ ~Nothing(w) /\ ~Leaves(w) /\ ~AsksAgain(w) /\ ~LeavesAgain(w)
          /\ Asks(w) => Nothing(v)
          /\ AsksLeaves(w) => Leaves(v)
      BY <3>1, WordsShrink
    <3> HIDE DEF v
    <3>3. Out(c) /\ Silent(answers[c])
      BY <2>1, <2>3, <3>2 DEF Stands, Resting, Asking, Using, Leaving
    <3>4. \/ view[c] = "asked" /\ Nothing(v)
          \/ view[c] = "leaving" /\ Leaves(v)
      BY <2>1, <2>3, <3>2 DEF Stands, Resting, Asking, Using, Leaving
    <3>5. answers[c] \in Seq(Reply) /\ view'[c] = view[c]
      BY <1>1 DEF DmnInv, DmnTypeOK
    <3>6. CASE Subscribe(c) /\ Respond(Changed)
      <4>1. /\ c \in subs' /\ phase[c] \in {"idle", "refused"}
            /\ phase'[c] \in {"open", "requested"}
        BY <1>2, <3>6 DEF Subscribe
      <4>2. answers'[c] = answers[c] \o ReplyTo(phase'[c])
        BY <3>6, <4>1, RespondChanged DEF DmnInv
      <4>3. \/ phase'[c] = "open" /\ Good(answers'[c])
            \/ phase'[c] = "requested" /\ Silent(answers'[c])
        BY <3>3, <3>5, <4>1, <4>2, AnswersGrow
      <4>4. Asking(c, v)' \/ Leaving(c, v)'
        BY <3>4, <3>5, <4>1, <4>3 DEF Asking, Leaving, In, Out
      <4>5. QED
        BY <2>3, <3>1, <3>2, <4>4 DEF Stands
    <3>7. CASE RefuseSecond(c) /\ Respond({c})
      <4>1. UNCHANGED subs /\ phase'[c] = "refused"
        BY <3>7 DEF RefuseSecond, Tell, Answer
      <4>2. answers'[c] = answers[c] \o ReplyTo(phase'[c])
        BY <3>7, RespondOne DEF DmnInv
      <4>3. Over(answers'[c]) /\ Len(answers'[c]) = 1
        BY <3>3, <3>5, <4>1, <4>2, AnswersGrow
      <4>4. Asking(c, v)' \/ Leaving(c, v)'
        BY <3>3, <3>4, <3>5, <4>1, <4>3 DEF Asking, Leaving, In, Out
      <4>5. QED
        BY <2>3, <3>1, <3>2, <4>4 DEF Stands
    <3>8. QED
      BY <1>1, <3>6, <3>7
  <2>4. QED
    BY <2>2, <2>3
<1>5. QED
  BY <1>4 DEF DaemonInv

(* What a release does to the one who leaves: it waits for the close, or   *)
(* has nothing any more.                                                   *)
LEMMA UnsubscribeEffect ==
    ASSUME IInv, NEW c \in Client, Unsubscribe(c)
    PROVE  /\ c \in subs
           /\ \/ phase'[c] = "closing" /\ c \in subs'
              \/ phase'[c] = "idle" /\ c \notin subs'
           /\ \A d \in Client : d # c => phase'[d] = phase[d] /\ (d \in subs' <=> d \in subs)
<1>1. c \in subs /\ state # "released" /\ phase \in [Client -> Phase] /\ subs \in SUBSET Client
  BY DEF Unsubscribe, IInv, ReleasedIsEmpty, TypeOK
<1>2. CASE WaitForClose
  BY <1>1, <1>2 DEF Unsubscribe
<1>3. CASE ~WaitForClose
  BY <1>1, <1>3 DEF Unsubscribe, Tell, Answer
<1>4. QED
  BY <1>1, <1>2, <1>3

LEMMA ReleaseStep == ASSUME DmnInv, NEW c \in Client, ProcRelease(c) PROVE DaemonInv'
<1>1. /\ TakePosted(c, "release") /\ UNCHANGED view
      /\ \/ Unsubscribe(c) /\ Respond(Changed)
         \/ c \notin subs /\ UNCHANGED <<vars, answers>>
      /\ "release" \in Action
  BY DEF ProcRelease, TakePosted, Action
<1>2. ASSUME NEW d \in Client, d # c
      PROVE  phase'[d] = phase[d] /\ answers'[d] = answers[d] /\ (d \in subs' <=> d \in subs)
  <2>1. CASE Unsubscribe(c) /\ Respond(Changed)
    BY <1>2, <2>1, UnsubscribeEffect, RespondChanged DEF DmnInv
  <2>2. CASE UNCHANGED <<vars, answers>>
    BY <2>2 DEF vars
  <2>3. QED
    BY <1>1, <2>1, <2>2
<1>3. ASSUME NEW d \in Client
      PROVE  \E w \in Seq(Action) : Holds(OnWay', d, w) /\ Stands(d, w)'
  <2>1. PICK w \in Seq(Action) : Holds(OnWay, d, w) /\ Stands(d, w)
    BY DEF DmnInv, DaemonInv
  <2>2. CASE d # c
    <3>1. Holds(OnWay', d, w)
      BY <1>1, <2>1, <2>2, TakenEffect
    <3>2. Stands(d, w)'
      BY <1>1, <1>2, <2>1, <2>2, StandsKept
    <3>3. QED
      BY <3>1, <3>2
  <2>3. CASE d = c
    <3> DEFINE v == Tail(w)
    <3>1. w # <<>> /\ w[1] = "release" /\ Holds(OnWay', c, v)
      BY <1>1, <2>1, <2>3, TakenEffect
    <3>2. /\ v \in Seq(Action) /\ ~Nothing(w) /\ ~Asks(w) /\ ~AsksLeaves(w)
          /\ Leaves(w) => Nothing(v)
          /\ AsksAgain(w) => Asks(v)
          /\ LeavesAgain(w) => AsksLeaves(v)
      BY <3>1, WordsShrink
    <3> HIDE DEF v
    <3>3. answers[c] \in Seq(Reply) /\ view'[c] = view[c]
      BY <1>1 DEF DmnInv, DmnTypeOK
    <3>4. CASE Unsubscribe(c) /\ Respond(Changed)
      <4>1. /\ c \in subs
            /\ \/ phase'[c] = "closing" /\ c \in subs'
               \/ phase'[c] = "idle" /\ c \notin subs'
        BY <3>4, UnsubscribeEffect DEF DmnInv
      <4>2. /\ view[c] = "leaving" /\ Leaves(w) /\ phase[c] \in {"requested", "open"}
            /\ Silent(answers[c]) \/ Good(answers[c])
        BY <2>1, <2>3, <3>2, <4>1 DEF Stands, Resting, Asking, Using, Leaving, In, Out
      <4>3. answers'[c] = answers[c] \o ReplyTo(phase'[c])
        BY <3>4, <4>1, <4>2, RespondChanged DEF DmnInv
      <4>4. \/ phase'[c] = "closing" /\ answers'[c] = answers[c]
            \/ phase'[c] = "idle" /\ Over(answers'[c])
        BY <3>3, <4>1, <4>2, <4>3, AnswersGrow
      <4>5. Leaving(c, v)'
        BY <3>2, <3>3, <4>1, <4>2, <4>4 DEF Leaving, In, Out
      <4>6. QED
        BY <2>3, <3>1, <3>2, <4>5 DEF Stands
    <3>5. CASE c \notin subs /\ UNCHANGED <<vars, answers>>
      <4>1. UNCHANGED <<phase, subs>>
        BY <3>5 DEF vars
      <4>2. Stands(c, v)'
        BY <2>1, <2>3, <3>2, <3>3, <3>5, <4>1 DEF Stands, Resting, Asking, Using, Leaving, In, Out
      <4>3. QED
        BY <2>3, <3>1, <3>2, <4>2
    <3>6. QED
      BY <1>1, <3>4, <3>5
  <2>4. QED
    BY <2>2, <2>3
<1>4. QED
  BY <1>3 DEF DaemonInv

LEMMA EventStep == ASSUME DmnInv, ProcEvent PROVE DaemonInv'
<1>1. OnRsrcEvent /\ Respond(Changed) /\ UNCHANGED <<pipe, posted, view>>
  BY DEF ProcEvent
<1>2. OnWay' = OnWay
  BY <1>1 DEF OnWay
<1>3. ASSUME NEW c \in Client
      PROVE  \E w \in Seq(Action) : Holds(OnWay', c, w) /\ Stands(c, w)'
  <2>1. PICK w \in Seq(Action) : Holds(OnWay, c, w) /\ Stands(c, w)
    BY DEF DmnInv, DaemonInv
  <2>2. /\ answers[c] \in Seq(Reply) /\ view'[c] = view[c]
        /\ answers'[c] =
              IF phase'[c] # phase[c] THEN answers[c] \o ReplyTo(phase'[c]) ELSE answers[c]
    BY <1>1, RespondChanged DEF DmnInv, DmnTypeOK
  <2>3. CASE phase'[c] = phase[c] /\ (c \in subs' <=> c \in subs)
    BY <1>2, <2>1, <2>2, <2>3, StandsKept
  <2>4. CASE In(c, "requested") /\ phase'[c] = "open" /\ c \in subs'
    <3>1. Silent(answers[c])
      BY <2>1, <2>4 DEF Stands, Resting, Asking, Using, Leaving, In, Out
    <3>2. Good(answers'[c])
      BY <2>2, <2>4, <3>1, AnswersGrow DEF In
    <3>3. Stands(c, w)'
      BY <2>1, <2>2, <2>4, <3>2 DEF Stands, Resting, Asking, Using, Leaving, In, Out
    <3>4. QED
      BY <1>2, <2>1, <3>3
  <2>5. CASE /\ c \in subs /\ c \notin subs' /\ phase'[c] \in {"idle", "refused"}
             /\ phase[c] \in {"requested", "open", "closing"}
             /\ phase[c] = "open" => phase'[c] = "idle"
    <3>1. answers'[c] = answers[c] \o ReplyTo(phase'[c])
      BY <2>2, <2>5
    <3>2. /\ Silent(answers[c]) \/ Good(answers[c]) => Over(answers'[c])
          /\ Silent(answers[c]) => Len(answers'[c]) = 1
          /\ Silent(answers[c]) /\ phase'[c] = "idle" => answers'[c][1] = "released"
          /\ Good(answers[c]) => Len(answers'[c]) = 2
          /\ Good(answers[c]) /\ phase'[c] = "idle" => answers'[c][2] = "released"
      <4> DEFINE a == answers[c]
                 p == phase'[c]
                 b == a \o ReplyTo(p)
      <4>1. a \in Seq(Reply) /\ p \in {"refused", "idle"}
        BY <2>2, <2>5
      <4> HIDE DEF a, p
      <4>2. /\ Silent(a) \/ Good(a) => Over(b)
            /\ Silent(a) => Len(b) = 1
            /\ Silent(a) /\ p = "idle" => b[1] = "released"
            /\ Good(a) => Len(b) = 2
            /\ Good(a) /\ p = "idle" => b[2] = "released"
        BY <4>1, AnswersGrow
      <4> HIDE DEF b
      <4>3. answers'[c] = b
        BY <3>1 DEF a, p, b
      <4>4. QED
        BY <4>2, <4>3 DEF a, p
    <3>3. CASE Asking(c, w)
      <4>1. /\ Nothing(w) /\ (Silent(answers[c]) \/ Good(answers[c]))
            /\ phase[c] # "open" => Silent(answers[c])
            /\ view[c] = "asked"
        BY <2>5, <3>3 DEF Asking, In, Out
      <4>2. Over(answers'[c]) /\ (Len(answers'[c]) = 2 => answers'[c][2] = "released")
        BY <2>5, <3>2, <4>1
      <4>3. Asking(c, w)'
        BY <2>2, <2>5, <4>1, <4>2 DEF Asking, Out
      <4>4. QED
        BY <1>2, <2>1, <4>3 DEF Stands
    <3>4. CASE Using(c, w)
      <4>1. Using(c, w)'
        BY <2>2, <2>5, <3>2, <3>4 DEF Using, In, Out
      <4>2. QED
        BY <1>2, <2>1, <4>1 DEF Stands
    <3>5. CASE Leaving(c, w)
      <4>1. Leaving(c, w)'
        BY <2>2, <2>5, <3>2, <3>5 DEF Leaving, In, Out
      <4>2. QED
        BY <1>2, <2>1, <4>1 DEF Stands
    <3>6. QED
      BY <2>1, <2>5, <3>3, <3>4, <3>5 DEF Stands, Resting, Out
  <2>6. QED
    BY <1>1, <2>3, <2>4, <2>5, EventEffect DEF DmnInv
<1>4. QED
  BY <1>3 DEF DaemonInv

(* The steps that neither a daemon nor the machine notices.                *)
LEMMA QuietStep ==
    ASSUME DmnInv, Listen \/ Serve \/ Connectivity \/ UNCHANGED all
    PROVE  DaemonInv'
<1>1. UNCHANGED <<view, answers, phase, subs>>
  BY DEF Listen, Serve, Connectivity, NifRequest, NifRelease, NifAnswer, NifLost, hal, conn,
         vars, all
<1>2. OnWay' = OnWay
  <2>1. CASE Serve
    <3>1. Head(pipe) \in Message /\ pipe # <<>> /\ pipe' = Tail(pipe)
      BY <2>1, HeadTailProperties DEF Serve, DmnInv, DmnTypeOK
    <3>2. /\ Head(pipe).op = "request" => [from |-> Head(pipe).from, op |-> "request"] = Head(pipe)
          /\ Head(pipe).op = "release" => [from |-> Head(pipe).from, op |-> "release"] = Head(pipe)
      BY <3>1 DEF Message
    <3>3. posted' = Append(posted, Head(pipe))
      BY <2>1, <3>2 DEF Serve, PostRequest, PostRelease
    <3>4. QED
      BY <3>1, <3>3, WayServed DEF DmnInv
  <2>2. CASE Listen \/ Connectivity \/ UNCHANGED all
    BY <2>2 DEF Listen, Connectivity, conn, all, OnWay
  <2>3. QED
    BY <2>1, <2>2
<1>3. ASSUME NEW c \in Client
      PROVE  \E w \in Seq(Action) : Holds(OnWay', c, w) /\ Stands(c, w)'
  <2>1. PICK w \in Seq(Action) : Holds(OnWay, c, w) /\ Stands(c, w)
    BY DEF DmnInv, DaemonInv
  <2>2. Stands(c, w)'
    BY <1>1, <2>1, StandsKept
  <2>3. QED
    BY <1>2, <2>1, <2>2
<1>4. QED
  BY <1>3 DEF DaemonInv
LEMMA DmnStepIsStep == [DmnNext]_all => [Next]_vars
  BY DEF DmnNext, Ask, Leave, Hear, ProcRequest, ProcRelease, Listen, Serve, ProcEvent,
         Connectivity, all, Next

LEMMA DmnTypeStep ==
    ASSUME DmnInv, TypeOK', [DmnNext]_all
    PROVE  DmnTypeOK'
<1> USE DEF DmnTypeOK, DmnInv
<1>1. ASSUME NEW c \in Client, Ask(c) \/ Leave(c) PROVE DmnTypeOK'
  <2>1. PICK op \in Action : Write(c, op)
    BY <1>1 DEF Ask, Leave, Action
  <2>2. [from |-> c, op |-> op] \in Message
    BY DEF Message
  <2>3. pipe' \in Seq(Message)
    BY <2>1, <2>2, AppendProperties DEF Write
  <2>4. view' \in [Client -> {"idle", "asked", "up", "leaving"}]
        /\ UNCHANGED <<listening, posted, answers>>
    BY <1>1 DEF Ask, Leave
  <2>5. QED
    BY <2>3, <2>4
<1>2. ASSUME NEW c \in Client, Hear(c) PROVE DmnTypeOK'
  <2>1. Tail(answers[c]) \in Seq(Reply)
    BY <1>2, HeadTailProperties DEF Hear
  <2>2. answers' \in [Client -> Seq(Reply)]
    BY <1>2, <2>1 DEF Hear
  <2>3. view' \in [Client -> {"idle", "asked", "up", "leaving"}]
    BY <1>2 DEF Hear
  <2>4. QED
    BY <1>2, <2>2, <2>3 DEF Hear
<1>3. ASSUME NEW c \in Client, NEW op \in Action, TakePosted(c, op), answers' \in [Client -> Seq(Reply)]
      PROVE  DmnTypeOK'
  <2>1. posted' \in Seq(Message)
    BY <1>3, HeadTailProperties DEF TakePosted
  <2>2. QED
    BY <1>3, <2>1 DEF TakePosted
<1>4. ASSUME NEW c \in Client, ProcRequest(c) PROVE DmnTypeOK'
  <2>1. "request" \in Action /\ TakePosted(c, "request")
    BY <1>4 DEF ProcRequest, Action
  <2>2. Respond(Changed) \/ Respond({c})
    BY <1>4 DEF ProcRequest
  <2>3. QED
    BY <1>3, <2>1, <2>2, RespondChanged, RespondOne
<1>5. ASSUME NEW c \in Client, ProcRelease(c) PROVE DmnTypeOK'
  <2>1. "release" \in Action /\ TakePosted(c, "release")
    BY <1>5 DEF ProcRelease, Action
  <2>2. Respond(Changed) \/ UNCHANGED answers
    BY <1>5 DEF ProcRelease
  <2>3. QED
    BY <1>3, <2>1, <2>2, RespondChanged
<1>6. ASSUME ProcEvent PROVE DmnTypeOK'
  BY <1>6, RespondChanged DEF ProcEvent
<1>7. ASSUME Serve PROVE DmnTypeOK'
  <2>1. Head(pipe) \in Message /\ Tail(pipe) \in Seq(Message)
    BY <1>7, HeadTailProperties DEF Serve
  <2>2. /\ [from |-> Head(pipe).from, op |-> "request"] \in Message
        /\ [from |-> Head(pipe).from, op |-> "release"] \in Message
    BY <2>1 DEF Message, Action
  <2>3. posted' \in Seq(Message)
    <3>1. PICK m \in Message : posted' = Append(posted, m)
      BY <1>7, <2>2 DEF Serve, PostRequest, PostRelease
    <3>2. posted \in Seq(Message)
      OBVIOUS
    <3>3. QED
      BY <3>1, <3>2, AppendProperties
  <2>4. QED
    BY <1>7, <2>1, <2>3 DEF Serve
<1>8. ASSUME Listen \/ Connectivity \/ UNCHANGED all PROVE DmnTypeOK'
  BY <1>8 DEF Listen, Connectivity, conn, all
<1>9. QED
  BY <1>1, <1>2, <1>4, <1>5, <1>6, <1>7, <1>8 DEF DmnNext

LEMMA DmnInitInv == DmnInit => DmnInv
<1> SUFFICES ASSUME DmnInit PROVE DmnInv
  OBVIOUS
<1>1. IInv
  BY InitIInv DEF DmnInit
<1>2. HeldInv
  BY DEF DmnInit, Init, HeldInv, AcquiredIsReal, GrantsAreHeld
<1>3. DmnTypeOK
  <2>1. <<>> \in Seq(Message) /\ <<>> \in Seq(Reply)
    BY EmptySeq
  <2>2. answers \in [Client -> Seq(Reply)]
    BY <2>1 DEF DmnInit
  <2>3. view \in [Client -> {"idle", "asked", "up", "leaving"}]
    BY DEF DmnInit
  <2>4. QED
    BY <1>1, <2>1, <2>2, <2>3 DEF DmnInit, DmnTypeOK, IInv
<1>4. ASSUME NEW c \in Client
      PROVE  \E w \in Seq(Action) : Holds(OnWay, c, w) /\ Stands(c, w)
  <2>1. OnWay = <<>> /\ Len(OnWay) = 0
    BY ConcatEmptySeq, EmptySeq DEF DmnInit, OnWay
  <2> DEFINE w == <<>>
  <2>2. w \in Seq(Action) /\ Len(w) = 0
    OBVIOUS
  <2> HIDE DEF w
  <2>3. Holds(OnWay, c, w)
    <3> DEFINE f == [i \in 1 .. Len(w) |-> i]
    <3>1. 1 .. Len(w) = {} /\ 1 .. Len(OnWay) = {}
      BY <2>1, <2>2
    <3>2. f \in [1 .. Len(w) -> 1 .. Len(OnWay)]
      BY <3>1
    <3> HIDE DEF f
    <3>3. QED
      BY <3>1, <3>2 DEF Holds
  <2>4. Stands(c, w)
    BY <2>2 DEF DmnInit, Init, Stands, Resting, Out, Silent, Nothing
  <2>5. QED
    BY <2>2, <2>3, <2>4
<1>5. QED
  BY <1>1, <1>2, <1>3, <1>4 DEF DmnInv, DaemonInv

LEMMA DmnStepInv == DmnInv /\ [DmnNext]_all => DmnInv'
<1> SUFFICES ASSUME DmnInv, [DmnNext]_all PROVE DmnInv'
  OBVIOUS
<1>1. IInv' /\ HeldInv'
  BY DmnStepIsStep, NextIInv, StepHeld DEF DmnInv
<1>2. DmnTypeOK'
  BY <1>1, DmnTypeStep DEF IInv
<1>3. DaemonInv'
  BY AskStep, LeaveStep, HearStep, RequestStep, ReleaseStep, EventStep, QuietStep DEF DmnNext
<1>4. QED
  BY <1>1, <1>2, <1>3 DEF DmnInv

LEMMA DmnInvariantHolds == DmnSpec => []DmnInv
  BY DmnInitInv, DmnStepInv, PTL DEF DmnSpec

(* The pipes, the queue and the machine have their types, whatever the     *)
(* daemons write and whenever.                                             *)
THEOREM DaemonsTyped == DmnSpec => []DmnTypeOK
<1>1. DmnInv => DmnTypeOK
  BY DEF DmnInv
<1>2. QED
  BY <1>1, DmnInvariantHolds, PTL

(* A daemon that believes it is connected is, or the news waits for it:    *)
(* for any number of daemons, for pipes and queues of any size, and for    *)
(* either kind of subscriber.                                              *)
THEOREM ViewsAreTrue == DmnSpec => []ViewIsTrue
<1>1. ASSUME DmnInv PROVE ViewIsTrue
  <2> SUFFICES ASSUME NEW c \in Client, view[c] = "up"
               PROVE  \/ /\ phase[c] = "open" /\ c \in subs \ inactive
                         /\ AcquiredIsReal /\ state = "acquired"
                      \/ InSeq("released", answers[c])
    BY DEF ViewIsTrue
  <2>1. PICK w \in Seq(Action) : Stands(c, w)
    BY <1>1 DEF DmnInv, DaemonInv
  <2>2. Using(c, w)
    BY <2>1 DEF Stands, Resting, Asking, Leaving
  <2>3. CASE In(c, "open")
    <3>1. c \in subs /\ phase[c] = "open"
      BY <2>3 DEF In
    <3>2. state = "acquired" /\ c \notin inactive
      BY <1>1, <3>1 DEF DmnInv, IInv, TypeOK, State, ReleasedIsEmpty, PhaseOfSubscriber,
        InactiveOnlyReleasing
    <3>3. QED
      BY <1>1, <3>1, <3>2 DEF DmnInv, HeldInv
  <2>4. CASE Len(answers[c]) = 1 /\ answers[c][1] = "released"
    BY <2>4 DEF InSeq
  <2>5. QED
    BY <2>2, <2>3, <2>4 DEF Using
<1>2. QED
  BY <1>1, DmnInvariantHolds, PTL

(* A daemon that has nothing and asks reads no answer to what it asked     *)
(* before, and the machine does not still have it on its list.             *)
THEOREM AnswersNeverStale == DmnSpec => []NoStaleAnswer
<1>1. ASSUME DmnInv PROVE NoStaleAnswer
  <2> SUFFICES ASSUME NEW c \in Client, view[c] = "idle"
               PROVE  answers[c] = <<>> /\ c \notin subs
    BY DEF NoStaleAnswer
  <2>1. PICK w \in Seq(Action) : Stands(c, w)
    BY <1>1 DEF DmnInv, DaemonInv
  <2>2. Resting(c, w)
    BY <2>1 DEF Stands, Using, Asking, Leaving
  <2>3. Len(answers[c]) = 0 /\ answers[c] \in Seq(Reply)
    BY <1>1, <2>2 DEF Resting, Silent, DmnInv, DmnTypeOK
  <2>4. answers[c] = <<>>
    BY <2>3, EmptySeq
  <2>5. QED
    BY <2>2, <2>4 DEF Resting, Out
<1>2. QED
  BY <1>1, DmnInvariantHolds, PTL

(* The MsgTask is never stopped by a daemon that does not read its pipe,   *)
(* once that has room for two answers: no daemon is ever owed more.        *)
FewAnswers == \A c \in Client : Len(answers[c]) <= 2

THEOREM AnswersAreFew == DmnSpec => []FewAnswers
<1>1. ASSUME DmnInv PROVE FewAnswers
  <2>1. ASSUME NEW c \in Client PROVE Len(answers[c]) <= 2
    <3>1. PICK w \in Seq(Action) : Stands(c, w)
      BY <1>1 DEF DmnInv, DaemonInv
    <3>2. Silent(answers[c]) \/ Good(answers[c]) \/ Over(answers[c]) \/ Len(answers[c]) = 1
      BY <3>1 DEF Stands, Resting, Asking, Using, Leaving
    <3>3. CASE Silent(answers[c])
      BY <3>3 DEF Silent
    <3>4. CASE Good(answers[c])
      BY <3>4 DEF Good
    <3>5. CASE Over(answers[c])
      <4>1. Len(answers[c]) = 1 \/ Len(answers[c]) = 2
        BY <3>5, Zenon DEF Over
      <4>2. CASE Len(answers[c]) = 1
        BY <4>2
      <4>3. CASE Len(answers[c]) = 2
        BY <4>3
      <4>4. QED
        BY <4>1, <4>2, <4>3
    <3>6. CASE Len(answers[c]) = 1
      BY <3>6
    <3>7. QED
      BY <3>2, <3>3, <3>4, <3>5, <3>6
  <2>2. QED
    BY <2>1 DEF FewAnswers
<1>2. QED
  BY <1>1, DmnInvariantHolds, PTL
=============================================================================
