-------------------------- MODULE NiSessionProofs ---------------------------
(***************************************************************************)
(* Theorems of NiSession, for any number of requests and any answers: a    *)
(* request in session always has a thread that will end it, it is answered *)
(* once, and without restarts its memory has one owner and an answer of    *)
(* the user decides one request.                                           *)
(***************************************************************************)
EXTENDS NiSession, FiniteSetTheorems, TLAPS

USE DEF Request, NULL

(* Every step keeps the types.                                             *)
LEMMA TypeStep == TypeOK /\ [Next]_vars => TypeOK'
<1> SUFFICES ASSUME TypeOK, [Next]_vars PROVE TypeOK'
  OBVIOUS
<1> USE BoundAssumption DEF TypeOK, session, user, Response
<1>1. ASSUME RequestBusy PROVE TypeOK'
  BY <1>1 DEF RequestBusy
<1>2. ASSUME RequestSaved PROVE TypeOK'
  BY <1>2 DEF RequestSaved
<1>3. ASSUME RequestNumbered PROVE TypeOK'
  BY <1>3 DEF RequestNumbered
<1>4. ASSUME RequestShown PROVE TypeOK'
  BY <1>4 DEF RequestShown
<1>5. ASSUME NEW r \in Request, ThreadStart(r) PROVE TypeOK'
  BY <1>5 DEF ThreadStart, Goes
<1>6. ASSUME NEW r \in Request, ThreadAnswered(r) \/ ThreadTimedOut(r) PROVE TypeOK'
  <2>1. PICK answer \in Response \cup {"none"} : Finish(r, answer)
    BY <1>6 DEF ThreadAnswered, ThreadTimedOut
  <2>2. thread' \in [Request -> {"none", "start", "waiting", "unlocked", "rested", "sending", "done"}]
    BY <1>6 DEF ThreadAnswered, ThreadTimedOut, Goes
  <2>3. msg' \in [Request -> [req : Request \cup {NULL}, answer : Response \cup {"none"}]]
    BY <2>1 DEF Finish
  <2>4. QED
    BY <2>1, <2>2, <2>3 DEF Finish
<1>7. ASSUME NEW r \in Request, ThreadRests(r) PROVE TypeOK'
  BY <1>7 DEF ThreadRests, Goes
<1>8. ASSUME NEW r \in Request, ThreadCounts(r) PROVE TypeOK'
  BY <1>8 DEF ThreadCounts, Goes
<1>9. ASSUME NEW r \in Request, ThreadSends(r) PROVE TypeOK'
  BY <1>9 DEF ThreadSends, Goes
<1>10. ASSUME NEW r \in Request, NEW answer \in UserAnswer, RespondChecked(r, answer) PROVE TypeOK'
  BY <1>10 DEF RespondChecked
<1>11. ASSUME NEW r \in Request, RespondStored(r) PROVE TypeOK'
  BY <1>11 DEF RespondStored
<1>12. ASSUME RestartChecks \/ RestartFrees \/ RestartClears \/ RestartWakes PROVE TypeOK'
  BY <1>12 DEF RestartChecks, RestartFrees, RestartClears, RestartWakes
<1>13. ASSUME UNCHANGED vars PROVE TypeOK'
  BY <1>13 DEF vars
<1>14. QED
  BY <1>1, <1>2, <1>3, <1>4, <1>5, <1>6, <1>7, <1>8, <1>9, <1>10, <1>11, <1>12, <1>13
  DEF Next, MsgTask, NiThread

LEMMA TypeInit == Init => TypeOK
<1> SUFFICES ASSUME Init PROVE TypeOK
  OBVIOUS
<1>1. /\ arrived \in 0 .. MaxRequests /\ reqID \in Nat
      /\ shown \in [Request -> Nat]
  BY BoundAssumption DEF Init, Unseen
<1>2. msg \in [Request -> [req : Request \cup {NULL}, answer : Response \cup {"none"}]]
  BY DEF Init, NoMsg
<1>3. QED
  BY <1>1, <1>2 DEF Init, TypeOK

(* The steps that only move a thread on, or touch nothing of the session.  *)
LEMMA SessionKept ==
    ASSUME TypeOK, SessionInv, UNCHANGED <<arrived, msg>>,
           rawRequest' \in {rawRequest, NULL},
           task' \in {"saved", "numbered"} => task \in {"saved", "numbered"},
           task' = task \/ task \notin {"saved", "numbered"},
           \/ UNCHANGED thread
           \/ \E r \in Request :
                 /\ thread[r] # "none" /\ thread' = [thread EXCEPT ![r] = thread'[r]]
                 /\ thread'[r] \in {"start", "waiting", "unlocked", "rested", "sending", "done"}
                 /\ thread[r] \notin {"start", "waiting"} => thread'[r] \notin {"start", "waiting"}
                 /\ rawRequest' # r \/ Live(r)'
    PROVE  SessionInv'
BY BoundAssumption DEF TypeOK, SessionInv, SessionHasThread, AnsweredOnce, Live

(* Every step keeps the invariant.                                         *)
LEMMA SessionStep == TypeOK /\ SessionInv /\ [Next]_vars => SessionInv'
<1> SUFFICES ASSUME TypeOK, SessionInv, [Next]_vars PROVE SessionInv'
  OBVIOUS
<1> USE BoundAssumption
<1> USE DEF TypeOK, session, user, Live
<1>1. ASSUME RequestBusy PROVE SessionInv'
  BY <1>1 DEF RequestBusy, SessionInv, SessionHasThread, AnsweredOnce
<1>2. ASSUME RequestSaved PROVE SessionInv'
  <2>1. arrived' \in Request /\ arrived' > arrived /\ rawRequest' = arrived' /\ task' = "saved"
    BY <1>2 DEF RequestSaved
  <2>2. UNCHANGED <<thread, msg>>
    BY <1>2 DEF RequestSaved
  <2>3. thread[arrived'] = "none"
    BY <2>1 DEF SessionInv
  <2>4. \A r \in Request : msg[r].req # arrived'
    BY <2>1 DEF SessionInv
  <2>5. QED
    BY <2>1, <2>2, <2>3, <2>4 DEF SessionInv, SessionHasThread, AnsweredOnce
<1>3. ASSUME RequestNumbered PROVE SessionInv'
  BY <1>3 DEF RequestNumbered, SessionInv, SessionHasThread, AnsweredOnce
<1>4. ASSUME RequestShown PROVE SessionInv'
  <2>1. arrived \in Request /\ thread[arrived] = "none" /\ thread'[arrived] = "start"
    BY <1>4 DEF RequestShown, SessionInv
  <2>2. QED
    BY <1>4, <2>1 DEF RequestShown, SessionInv, SessionHasThread, AnsweredOnce
<1>5. ASSUME NEW r \in Request, ThreadStart(r) PROVE SessionInv'
  BY <1>5, SessionKept DEF ThreadStart, Goes
<1>6. ASSUME NEW r \in Request, ThreadAnswered(r) \/ ThreadTimedOut(r) PROVE SessionInv'
  <2>1. PICK answer \in Response \cup {"none"} : Finish(r, answer)
    BY <1>6 DEF ThreadAnswered, ThreadTimedOut, Response
  <2>2. /\ thread[r] \in {"start", "waiting"}
        /\ thread' = [thread EXCEPT ![r] = "unlocked"]
    BY <1>6 DEF ThreadAnswered, ThreadTimedOut, Goes
  <2>3. UNCHANGED <<arrived, task>> /\ rawRequest' = NULL
    BY <2>1 DEF Finish
  <2>4. /\ msg'[r].req \in {NULL, rawRequest}
        /\ \A s \in Request \ {r} : msg'[s] = msg[s]
    <3>1. CASE rawRequest # NULL /\ answer # "ignore"
      BY <2>1, <3>1 DEF Finish
    <3>2. CASE ~(rawRequest # NULL /\ answer # "ignore")
      BY <2>1, <2>2, <3>2 DEF Finish, SessionInv
    <3>3. QED
      BY <3>1, <3>2
  <2>5. ASSUME NEW s \in Request PROVE msg'[s].req <= arrived'
    <3>1. CASE s = r
      BY <2>3, <2>4, <3>1 DEF SessionInv
    <3>2. CASE s # r
      <4>1. msg'[s] = msg[s]
        BY <2>4, <3>2
      <4>2. msg[s].req <= arrived
        BY DEF SessionInv
      <4>3. QED
        BY <2>3, <4>1, <4>2
    <3>3. QED
      BY <3>1, <3>2
  <2>6. ASSUME NEW p \in Request, NEW q \in Request,
               msg'[p].req = msg'[q].req, msg'[p].req # NULL
        PROVE  p = q
    <3>1. CASE p # r /\ q # r
      BY <2>4, <2>6, <3>1 DEF SessionInv, AnsweredOnce
    <3>2. CASE p = r /\ q # r
      <4>1. msg'[q] = msg[q] /\ msg'[p].req = rawRequest /\ rawRequest # NULL
        BY <2>4, <2>6, <3>2
      <4>2. QED
        BY <2>6, <4>1 DEF SessionInv
    <3>3. CASE p # r /\ q = r
      <4>1. msg'[p] = msg[p] /\ msg'[q].req = rawRequest /\ rawRequest # NULL
        BY <2>4, <2>6, <3>3
      <4>2. QED
        BY <2>6, <4>1 DEF SessionInv
    <3>4. QED
      BY <3>1, <3>2, <3>3
  <2>7. QED
    BY <2>2, <2>3, <2>4, <2>5, <2>6 DEF SessionInv, SessionHasThread, AnsweredOnce
<1>7. ASSUME NEW r \in Request, ThreadRests(r) PROVE SessionInv'
  <2>1. rawRequest # r
    BY <1>7 DEF ThreadRests, Goes, SessionInv, SessionHasThread
  <2>2. QED
    BY <1>7, <2>1, SessionKept DEF ThreadRests, Goes
<1>8. ASSUME NEW r \in Request, ThreadCounts(r) PROVE SessionInv'
  <2>1. rawRequest # r
    BY <1>8 DEF ThreadCounts, Goes, SessionInv, SessionHasThread
  <2>2. QED
    BY <1>8, <2>1, SessionKept DEF ThreadCounts, Goes
<1>9. ASSUME NEW r \in Request, ThreadSends(r) PROVE SessionInv'
  <2>1. rawRequest # r
    BY <1>9 DEF ThreadSends, Goes, SessionInv, SessionHasThread
  <2>2. QED
    BY <1>9, <2>1, SessionKept DEF ThreadSends, Goes
<1>10. ASSUME NEW r \in Request, NEW answer \in UserAnswer, RespondChecked(r, answer)
       PROVE SessionInv'
  BY <1>10, SessionKept DEF RespondChecked
<1>11. ASSUME NEW r \in Request, RespondStored(r) PROVE SessionInv'
  BY <1>11, SessionKept DEF RespondStored
<1>12. ASSUME RestartChecks \/ RestartFrees \/ RestartClears \/ RestartWakes PROVE SessionInv'
  BY <1>12, SessionKept DEF RestartChecks, RestartFrees, RestartClears, RestartWakes
<1>13. ASSUME UNCHANGED vars PROVE SessionInv'
  BY <1>13, SessionKept DEF vars
<1>14. QED
  BY <1>1, <1>2, <1>3, <1>4, <1>5, <1>6, <1>7, <1>8, <1>9, <1>10, <1>11, <1>12, <1>13
  DEF Next, MsgTask, NiThread

LEMMA SessionInit == Init => SessionInv
BY BoundAssumption DEF Init, SessionInv, SessionHasThread, AnsweredOnce, Live, NoMsg

(* The types of loc_eng_ni_data_s_type and of the three kinds of thread    *)
(* are kept (loc_eng_ni.cpp:112-363).                                      *)
THEOREM TypeCorrect == Spec => []TypeOK
BY TypeInit, TypeStep, PTL DEF Spec

(* Of ni_thread_proc and loc_eng_ni_reset_on_engine_restart                *)
(* (loc_eng_ni.cpp:185-278): the inductive invariant of the session.       *)
THEOREM SessionInvariant == Spec => []SessionInv
BY TypeInit, TypeStep, SessionInit, SessionStep, PTL DEF Spec

(* The handler is never busy for ever: a request in session always has the *)
(* thread that will end it (loc_eng_ni.cpp:126-163).                       *)
THEOREM SessionAlwaysHasThread == Spec => []SessionHasThread
BY SessionInvariant, PTL DEF SessionInv

(* No request is answered to the modem twice, however sessions overlap     *)
(* (loc_eng_ni.cpp:229-239).                                               *)
THEOREM NeverAnsweredTwice == Spec => []AnsweredOnce
BY SessionInvariant, PTL DEF SessionInv

(* The request a step takes out of session is in no list of freed ones.    *)
LEMMA OwnerStep == TypeOK /\ SessionInv /\ OwnerInv /\ [Next]_vars => OwnerInv'
<1> SUFFICES ASSUME TypeOK, SessionInv, OwnersFit, [Next]_vars, ~restarted' PROVE OwnersFit'
  <2>1. ASSUME [Next]_vars, restarted PROVE restarted'
    BY <2>1 DEF vars, Next, MsgTask, NiThread, RequestBusy, RequestSaved, RequestNumbered,
      RequestShown, ThreadStart, ThreadAnswered, ThreadTimedOut, Finish, ThreadRests,
      ThreadCounts, ThreadSends, RespondChecked, RespondStored, RestartChecks, RestartFrees,
      RestartClears, RestartWakes
  <2>2. QED
    BY <2>1 DEF OwnerInv
<1> USE BoundAssumption DEF TypeOK, session, user
<1>1. ASSUME RequestBusy PROVE OwnersFit'
  <2>1. arrived' \notin freed /\ arrived' > arrived /\ freed' = freed \cup {arrived'}
    BY <1>1 DEF RequestBusy, OwnersFit
  <2>2. \A r \in Request : msg[r].req # arrived'
    BY <2>1 DEF SessionInv
  <2>3. rawRequest # arrived'
    BY <2>1 DEF SessionInv
  <2>4. QED
    BY <1>1, <2>1, <2>2, <2>3 DEF RequestBusy, OwnersFit
<1>2. ASSUME RequestSaved PROVE OwnersFit'
  BY <1>2 DEF RequestSaved, OwnersFit
<1>3. ASSUME RequestNumbered PROVE OwnersFit'
  BY <1>3 DEF RequestNumbered, OwnersFit
<1>4. ASSUME RequestShown PROVE OwnersFit'
  BY <1>4 DEF RequestShown, OwnersFit, SessionInv
<1>5. ASSUME NEW r \in Request, ThreadStart(r) PROVE OwnersFit'
  BY <1>5 DEF ThreadStart, Goes, OwnersFit
<1>6. ASSUME NEW r \in Request, ThreadAnswered(r) \/ ThreadTimedOut(r) PROVE OwnersFit'
  <2>1. PICK answer : Finish(r, answer)
    BY <1>6 DEF ThreadAnswered, ThreadTimedOut
  <2>2. /\ thread[r] \in {"start", "waiting"}
        /\ thread' = [thread EXCEPT ![r] = "unlocked"]
    BY <1>6 DEF ThreadAnswered, ThreadTimedOut, Goes
  <2>3. UNCHANGED <<arrived, task, freed>> /\ rawRequest' = NULL
    BY <2>1 DEF Finish
  <2>4. /\ msg'[r].req \in {NULL, rawRequest}
        /\ \A s \in Request \ {r} : msg'[s] = msg[s]
    <3>1. CASE rawRequest # NULL /\ answer # "ignore"
      BY <2>1, <3>1 DEF Finish
    <3>2. CASE ~(rawRequest # NULL /\ answer # "ignore")
      BY <2>1, <2>2, <3>2 DEF Finish, SessionInv
    <3>3. QED
      BY <3>1, <3>2
  <2>5. QED
    BY <2>2, <2>3, <2>4 DEF OwnersFit
<1>7. ASSUME NEW r \in Request, ThreadRests(r) PROVE OwnersFit'
  BY <1>7 DEF ThreadRests, Goes, OwnersFit
<1>8. ASSUME NEW r \in Request, ThreadCounts(r) PROVE OwnersFit'
  BY <1>8 DEF ThreadCounts, Goes, OwnersFit
<1>9. ASSUME NEW r \in Request, ThreadSends(r) PROVE OwnersFit'
  <2>1. /\ freed' = freed \cup ({msg[r].req} \ {NULL})
        /\ thread[r] = "sending" /\ thread' = [thread EXCEPT ![r] = "done"]
        /\ UNCHANGED <<arrived, task, rawRequest, msg>>
    BY <1>9 DEF ThreadSends, Goes
  <2>2. msg[r].req # NULL => msg[r].req # rawRequest
    BY DEF SessionInv
  <2>3. msg[r].req <= arrived
    BY DEF SessionInv
  <2>4. \A s \in Request : msg[s].req = msg[r].req /\ msg[r].req # NULL => s = r
    BY DEF SessionInv, AnsweredOnce
  <2>5. QED
    BY <2>1, <2>2, <2>3, <2>4 DEF OwnersFit
<1>10. ASSUME NEW r \in Request, NEW answer \in UserAnswer, RespondChecked(r, answer)
       PROVE OwnersFit'
  BY <1>10 DEF RespondChecked, OwnersFit
<1>11. ASSUME NEW r \in Request, RespondStored(r) PROVE OwnersFit'
  BY <1>11 DEF RespondStored, OwnersFit
<1>12. ASSUME RestartChecks \/ RestartFrees \/ RestartClears \/ RestartWakes PROVE OwnersFit'
  BY <1>12 DEF RestartChecks, RestartFrees, RestartClears, RestartWakes, OwnersFit
<1>13. ASSUME UNCHANGED vars PROVE OwnersFit'
  BY <1>13 DEF vars, OwnersFit
<1>14. QED
  BY <1>1, <1>2, <1>3, <1>4, <1>5, <1>6, <1>7, <1>8, <1>9, <1>10, <1>11, <1>12, <1>13
  DEF Next, MsgTask, NiThread

(* While the modem does not restart the memory of a request has one owner: *)
(* the session, then one message, then nobody (loc_eng_ni.cpp:76-82,       *)
(* 126-137, 229-248).                                                      *)
THEOREM AlwaysOneOwner == Spec => []OneOwner
<1>1. Init => OwnerInv
  BY DEF Init, OwnerInv, OwnersFit, NoMsg
<1>2. TypeOK /\ SessionInv /\ OwnerInv /\ [Next]_vars => OwnerInv'
  BY OwnerStep
<1>3. TypeOK /\ SessionInv /\ OwnerInv => OneOwner
  BY DEF TypeOK, SessionInv, OwnerInv, OwnersFit, OneOwner
<1>4. QED
  BY <1>1, <1>2, <1>3, TypeCorrect, SessionInvariant, PTL DEF Spec
-----------------------------------------------------------------------------
(* One answer, one request.                                                *)

(* The answers that loc_eng_ni_respond has stored, or dropped for good;    *)
(* and the one it stored that no thread has taken.                         *)
Stored(answer) == {r \in Request : given[r] = answer /\ r \notin calls}
Token(answer)  == IF respRecvd /\ resp = answer THEN 1 ELSE 0

(* Every message has used up an answer, and an answer still to be taken is *)
(* not used.                                                               *)
AnswersFit ==
    \A answer \in {"accept", "deny"} :
        Cardinality(Answers(answer)) + Token(answer) <= Cardinality(Stored(answer))

AnswerInv == ~restarted => AnswersFit

LEMMA Finite ==
    ASSUME NEW S \in SUBSET Request
    PROVE  IsFiniteSet(S) /\ Cardinality(S) \in Nat
<1>1. IsFiniteSet(Request)
  BY BoundAssumption, FS_Interval
<1>2. QED
  BY <1>1, FS_Subset, FS_CardinalityType

LEMMA Smaller ==
    ASSUME NEW S \in SUBSET Request, NEW T \in SUBSET S
    PROVE  Cardinality(T) <= Cardinality(S)
  BY Finite, FS_Subset

LEMMA OneMore ==
    ASSUME NEW S \in SUBSET Request, NEW r \in Request
    PROVE  /\ Cardinality(S \cup {r}) <= Cardinality(S) + 1
           /\ r \notin S => Cardinality(S \cup {r}) = Cardinality(S) + 1
<1>1. IsFiniteSet(S) /\ Cardinality(S) \in Nat
  BY Finite
<1>2. QED
  BY <1>1, FS_AddElement

LEMMA AnswersTyped ==
    ASSUME NEW answer
    PROVE  /\ Answers(answer) \in SUBSET Request /\ Stored(answer) \in SUBSET Request
           /\ Givers(answer) \in SUBSET Request /\ Token(answer) \in {0, 1}
           /\ Cardinality(Answers(answer)) \in Nat /\ Cardinality(Stored(answer)) \in Nat
<1>1. /\ Answers(answer) \in SUBSET Request /\ Stored(answer) \in SUBSET Request
      /\ Givers(answer) \in SUBSET Request /\ Token(answer) \in {0, 1}
  BY DEF Answers, Stored, Givers, Token
<1>2. QED
  BY <1>1, Finite

(* A step that uses no answer up: no message is new, no answer comes back. *)
LEMMA AnswersKept ==
    ASSUME AnswersFit,
           \A answer \in {"accept", "deny"} :
              /\ Answers(answer)' \subseteq Answers(answer)
              /\ Stored(answer) \subseteq Stored(answer)'
              /\ Token(answer)' <= Token(answer)
    PROVE  AnswersFit'
<1> SUFFICES ASSUME NEW answer \in {"accept", "deny"}
             PROVE  Cardinality(Answers(answer)') + Token(answer)' <= Cardinality(Stored(answer)')
  BY DEF AnswersFit
<1>1. Stored(answer)' \in SUBSET Request /\ Token(answer)' \in {0, 1}
  BY DEF Stored, Token
<1>2. Answers(answer)' \in SUBSET Request
  BY DEF Answers
<1>3. /\ Cardinality(Answers(answer)') \in Nat /\ Cardinality(Stored(answer)') \in Nat
  BY <1>1, <1>2, Finite
<1>4. Cardinality(Answers(answer)') <= Cardinality(Answers(answer))
  BY AnswersTyped, Smaller
<1>5. Cardinality(Stored(answer)) <= Cardinality(Stored(answer)')
  BY <1>1, Smaller
<1>6. QED
  BY <1>1, <1>3, <1>4, <1>5, AnswersTyped DEF AnswersFit

LEMMA AnswerStep == TypeOK /\ OwnerInv /\ AnswerInv /\ [Next]_vars => AnswerInv'
<1> SUFFICES ASSUME TypeOK, OwnersFit, AnswersFit, [Next]_vars, ~restarted' PROVE AnswersFit'
  <2>1. ASSUME [Next]_vars, restarted PROVE restarted'
    BY <2>1 DEF vars, Next, MsgTask, NiThread, RequestBusy, RequestSaved, RequestNumbered,
      RequestShown, ThreadStart, ThreadAnswered, ThreadTimedOut, Finish, ThreadRests,
      ThreadCounts, ThreadSends, RespondChecked, RespondStored, RestartChecks, RestartFrees,
      RestartClears, RestartWakes
  <2>2. QED
    BY <2>1 DEF OwnerInv, AnswerInv
<1> USE DEF session, user
<1>1. ASSUME UNCHANGED <<msg, given, calls, respRecvd, resp>> PROVE AnswersFit'
  BY <1>1, AnswersTyped, AnswersKept DEF Answers, Stored, Token
<1>2. ASSUME RequestBusy \/ RequestSaved \/ RequestNumbered \/ RequestShown PROVE AnswersFit'
  BY <1>1, <1>2 DEF RequestBusy, RequestSaved, RequestNumbered, RequestShown
<1>3. ASSUME NEW r \in Request,
             ThreadStart(r) \/ ThreadRests(r) \/ ThreadCounts(r) \/ ThreadSends(r)
      PROVE  AnswersFit'
  BY <1>1, <1>3 DEF ThreadStart, ThreadRests, ThreadCounts, ThreadSends
<1>4. ASSUME NEW r \in Request, ThreadTimedOut(r) PROVE AnswersFit'
  <2>1. Finish(r, "noresp")
    BY <1>4 DEF ThreadTimedOut
  <2>2. UNCHANGED <<given, calls>> /\ respRecvd' = FALSE
    BY <2>1 DEF Finish
  <2>3. \A s \in Request : msg'[s] = msg[s] \/ msg'[s].answer = "noresp"
    BY <2>1 DEF Finish, TypeOK
  <2>4. ASSUME NEW answer \in {"accept", "deny"}
        PROVE  /\ Answers(answer)' \subseteq Answers(answer)
               /\ Stored(answer) \subseteq Stored(answer)'
               /\ Token(answer)' <= Token(answer)
    BY <2>2, <2>3, AnswersTyped DEF Answers, Stored, Token
  <2>5. QED
    BY <2>4, AnswersKept
<1>5. ASSUME NEW r \in Request, ThreadAnswered(r) PROVE AnswersFit'
  <2>1. Finish(r, resp) /\ respRecvd
    BY <1>5 DEF ThreadAnswered
  <2>2. UNCHANGED <<given, calls>> /\ respRecvd' = FALSE
    BY <2>1 DEF Finish
  <2>3. \A s \in Request : msg'[s] = msg[s] \/ (s = r /\ msg'[s].answer = resp)
    BY <2>1 DEF Finish, TypeOK
  <2>4. ASSUME NEW answer \in {"accept", "deny"}
        PROVE  Cardinality(Answers(answer)') + Token(answer)' <= Cardinality(Stored(answer)')
    <3>1. Stored(answer)' = Stored(answer) /\ Token(answer)' = 0
      BY <2>2 DEF Stored, Token
    <3>2. Answers(answer)' \in SUBSET Request /\ Cardinality(Answers(answer)') \in Nat
      <4>1. Answers(answer)' \in SUBSET Request
        BY DEF Answers
      <4>2. QED
        BY <4>1, Finite
    <3>3. Cardinality(Answers(answer)') <= Cardinality(Answers(answer)) + Token(answer)
      <4>1. CASE resp = answer
        <5>1. Answers(answer)' \subseteq Answers(answer) \cup {r} /\ Token(answer) = 1
          BY <2>1, <2>3, <4>1 DEF Answers, Token
        <5>2. Answers(answer) \cup {r} \in SUBSET Request
          BY AnswersTyped
        <5>3. Cardinality(Answers(answer)') <= Cardinality(Answers(answer) \cup {r})
          BY <5>1, <5>2, Smaller
        <5>4. Cardinality(Answers(answer) \cup {r}) <= Cardinality(Answers(answer)) + 1
          BY AnswersTyped, OneMore
        <5>5. Cardinality(Answers(answer) \cup {r}) \in Nat
          BY <5>2, Finite
        <5>6. QED
          BY <3>2, <5>1, <5>3, <5>4, <5>5, AnswersTyped
      <4>2. CASE resp # answer
        <5>1. Answers(answer)' \subseteq Answers(answer)
          BY <2>3, <4>2 DEF Answers
        <5>2. Cardinality(Answers(answer)') <= Cardinality(Answers(answer))
          BY <5>1, AnswersTyped, Smaller
        <5>3. QED
          BY <3>2, <5>2, AnswersTyped
      <4>3. QED
        BY <4>1, <4>2
    <3>4. QED
      BY <3>1, <3>2, <3>3, AnswersTyped DEF AnswersFit
  <2>5. QED
    BY <2>4 DEF AnswersFit
<1>6. ASSUME NEW r \in Request, NEW given_ \in UserAnswer, RespondChecked(r, given_)
      PROVE  AnswersFit'
  <2>1. /\ given[r] = "none" /\ given' = [given EXCEPT ![r] = given_]
        /\ calls' \subseteq calls \cup {r} /\ UNCHANGED <<msg, respRecvd, resp>>
    BY <1>6 DEF RespondChecked
  <2>2. ASSUME NEW answer \in {"accept", "deny"}
        PROVE  /\ Answers(answer)' \subseteq Answers(answer)
               /\ Stored(answer) \subseteq Stored(answer)'
               /\ Token(answer)' <= Token(answer)
    BY <2>1, AnswersTyped DEF Answers, Stored, Token, TypeOK
  <2>3. QED
    BY <2>2, AnswersKept
<1>7. ASSUME NEW r \in Request, RespondStored(r) PROVE AnswersFit'
  <2>1. /\ r \in calls /\ calls' = calls \ {r} /\ resp' = given[r] /\ respRecvd' = TRUE
        /\ UNCHANGED <<msg, given>>
    BY <1>7 DEF RespondStored
  <2>2. ASSUME NEW answer \in {"accept", "deny"}
        PROVE  Cardinality(Answers(answer)') + Token(answer)' <= Cardinality(Stored(answer)')
    <3>1. Answers(answer)' = Answers(answer)
      BY <2>1 DEF Answers
    <3>2. CASE given[r] = answer
      <4>1. Stored(answer)' = Stored(answer) \cup {r} /\ r \notin Stored(answer)
        BY <2>1, <3>2 DEF Stored
      <4>2. Cardinality(Stored(answer)') = Cardinality(Stored(answer)) + 1
        BY <4>1, AnswersTyped, OneMore
      <4>3. Token(answer)' \in {0, 1}
        BY DEF Token
      <4>4. QED
        BY <3>1, <4>2, <4>3, AnswersTyped DEF AnswersFit
    <3>3. CASE given[r] # answer
      <4>1. Stored(answer)' = Stored(answer)
        BY <2>1, <3>3 DEF Stored
      <4>2. Token(answer)' = 0
        BY <2>1, <3>3 DEF Token
      <4>3. QED
        BY <3>1, <4>1, <4>2, AnswersTyped DEF AnswersFit
    <3>4. QED
      BY <3>2, <3>3
  <2>3. QED
    BY <2>2 DEF AnswersFit
<1>8. ASSUME RestartChecks \/ RestartFrees \/ RestartClears \/ RestartWakes PROVE AnswersFit'
  BY <1>8 DEF RestartChecks, RestartFrees, RestartClears, RestartWakes, OwnersFit
<1>9. ASSUME UNCHANGED vars PROVE AnswersFit'
  BY <1>1, <1>9 DEF vars
<1>10. QED
  BY <1>2, <1>3, <1>4, <1>5, <1>6, <1>7, <1>8, <1>9 DEF Next, MsgTask, NiThread

(* Whatever answers come late, twice or during the session of another      *)
(* request, the modem is not told accept or deny more often than the user  *)
(* said so, while it does not restart (loc_eng_ni.cpp:200-239, 346-360).   *)
THEOREM AnswersUsedOnce == Spec => []AnswerUsedOnce
<1>1. ASSUME Init PROVE AnswersFit
  <2>1. ASSUME NEW answer \in {"accept", "deny"}
        PROVE  Answers(answer) = {} /\ Token(answer) = 0
    BY <2>1, <1>1 DEF Init, NoMsg, Answers, Token
  <2>2. QED
    BY <2>1, AnswersTyped, FS_EmptySet DEF AnswersFit
<1>2. ASSUME AnswerInv PROVE AnswerUsedOnce
  <2>1. ASSUME ~restarted, NEW answer \in {"accept", "deny"}
        PROVE  Cardinality(Answers(answer)) <= Cardinality(Givers(answer))
    <3>1. Stored(answer) \subseteq Givers(answer)
      BY DEF Stored, Givers
    <3>2. Cardinality(Stored(answer)) <= Cardinality(Givers(answer))
      BY <3>1, AnswersTyped, Smaller
    <3>3. Cardinality(Givers(answer)) \in Nat
      BY AnswersTyped, Finite
    <3>4. QED
      BY <1>2, <2>1, <3>2, <3>3, AnswersTyped DEF AnswerInv, AnswersFit
  <2>2. QED
    BY <2>1 DEF AnswerUsedOnce
<1>3. Init => AnswerInv
  BY <1>1 DEF AnswerInv
<1>4. Init => OwnerInv
  BY DEF Init, OwnerInv, OwnersFit, NoMsg
<1>5. AnswerInv => AnswerUsedOnce
  BY <1>2
<1>6. QED
  BY <1>3, <1>4, <1>5, OwnerStep, AnswerStep, TypeCorrect, SessionInvariant, PTL DEF Spec
=============================================================================
