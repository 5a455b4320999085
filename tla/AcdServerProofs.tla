--------------------------- MODULE AcdServerProofs ----------------------------
(***************************************************************************)
(* Proofs about the whole process, for any number of requests of any       *)
(* shape, connections and call ids: the two components keep in the whole   *)
(* what each keeps alone, and together they keep the promise of            *)
(* RequestReply.                                                           *)
(***************************************************************************)
EXTENDS AcdServer, SiaManagerProofs

TcpProofs == INSTANCE TcpServerProofs
               WITH NumRequests <- NumMsgs, received <- arrived,
                    stop <- tcpStop, crashed <- tcpCrashed

(* A step of the whole is one of each component, or leaves it alone.       *)
LEMMA StepOfManager == [AcdNext]_acdVars => [Next]_vars
<1> SUFFICES ASSUME [AcdNext]_acdVars PROVE [Next]_vars
  OBVIOUS
<1>1. CASE Receive
  BY <1>1 DEF Receive, Next
<1>2. ASSUME NEW s \in SessionId,
             SessionRuns(s) \/ (GetTimesOut(s) /\ OnlyManager)
      PROVE  Next
  BY <1>2 DEF SessionRuns, Answer, SessionStep, Next, Session
<1>3. CASE ManagerRuns \/ TimerRuns \/ AcdStop \/ ManagerStops
  BY <1>3 DEF ManagerRuns, TimerRuns, AcdStop, ManagerStops, Next
<1>4. CASE LoopRuns \/ LoopWrites \/ LoopServes \/ TcpStops
  BY <1>4 DEF LoopRuns, LoopWrites, LoopServes, TcpStops, OnlyServer,
              managerVars, vars
<1>5. CASE UNCHANGED acdVars
  BY <1>5 DEF acdVars
<1> QED
  BY <1>1, <1>2, <1>3, <1>4, <1>5 DEF AcdNext, AcdTerminated

(* Only the arrival of a request changes how many have come.               *)
LEMMA ArrivedKept ==
  ASSUME \/ Manager \/ TimerRun \/ Stop \/ Stopping
         \/ \E s \in SessionId : Session(s) \/ GetTimesOut(s)
  PROVE  arrived' = arrived
BY DEF Manager, UseReceiver, NewSession, NewSessionRefused, GetSessionByCallId,
       AssociateSessionByCallId, Dispatch, ManagerEnds, Stop, Stopping,
       TimerStop, OnDisconnect, EnterJoin, Joined, Stopped, ClearAttached,
       ClearDetached, TimerRun, TimerDispatches, TimerEnds, timerShared,
       Session, GetTimesOut, Get, HandleMessage, HandlerThrows, Detach,
       RemoveSession, RemoveSessionThrows, Release, sessionShared, stopShared

(* What the sessions, the manager and main() do by themselves.             *)
LEMMA ManagerAlone ==
  ASSUME \/ ManagerRuns \/ TimerRuns \/ AcdStop \/ ManagerStops
         \/ \E s \in SessionId : SessionStep(s) \/ (GetTimesOut(s) /\ OnlyManager)
  PROVE  UNCHANGED <<arrived, tcpVars, answerOf>>
<1>1. arrived' = arrived
  BY ArrivedKept DEF ManagerRuns, TimerRuns, AcdStop, ManagerStops, SessionStep, Session
<1>2. OnlyManager
  BY DEF ManagerRuns, TimerRuns, AcdStop, ManagerStops, SessionStep
<1> QED
  BY <1>1, <1>2 DEF OnlyManager

LEMMA StepOfServer == [AcdNext]_acdVars => [Tcp!Next]_(Tcp!vars)
<1> SUFFICES ASSUME [AcdNext]_acdVars PROVE [Tcp!Next]_(Tcp!vars)
  OBVIOUS
<1> USE DEF Tcp!vars, Tcp!timers, Tcp!answers, Tcp!stops, tcpVars
<1>1. CASE Receive
  BY <1>1 DEF Receive, Tcp!Next, Tcp!Callback
<1>2. ASSUME NEW s \in SessionId, Answer(s) PROVE Tcp!Next
  BY <1>2 DEF Answer, Tcp!Next
<1>3. CASE \/ ManagerRuns \/ TimerRuns \/ AcdStop \/ ManagerStops
           \/ \E s \in SessionId : \/ SessionStep(s)
                                   \/ (GetTimesOut(s) /\ OnlyManager)
  BY <1>3, ManagerAlone
<1>4. CASE LoopRuns \/ LoopWrites \/ LoopServes \/ TcpStops
  BY <1>4 DEF LoopRuns, LoopWrites, LoopServes, TcpStops, Tcp!Next, Tcp!Callback
<1>5. CASE UNCHANGED acdVars
  BY <1>5 DEF acdVars, vars
<1> QED
  BY <1>1, <1>2, <1>3, <1>4, <1>5 DEF AcdNext, AcdTerminated, SessionRuns

(* In the whole, the manager does nothing it could not do alone, and the   *)
(* TCP server neither: what has been proved of each holds of the whole.    *)
THEOREM StepsOfBoth == AcdSteps => Steps /\ Tcp!Steps
<1>1. AcdInit => Init /\ Tcp!Init
  BY DEF AcdInit
<1> QED
  BY <1>1, StepOfManager, StepOfServer, PTL DEF AcdSteps, Steps, Tcp!Steps

(* The TCP server's invariants in the whole.                               *)
LEMMA ServerKept ==
  AcdSteps => [](/\ Tcp!TypeOK /\ Tcp!FirstConnectionServed
                 /\ Tcp!StopReachesLoop)
<1>1. Tcp!Init => TcpProofs!Init
  BY DEF Tcp!Init, TcpProofs!Init, Tcp!Client, TcpProofs!Client
<1>2. [Tcp!Next]_(Tcp!vars) => [TcpProofs!Next]_(TcpProofs!vars)
  <2>1. Tcp!Client = TcpProofs!Client /\ Tcp!SS = TcpProofs!SS
    BY DEF Tcp!Client, TcpProofs!Client, Tcp!SS, TcpProofs!SS
  <2>2. Tcp!vars = TcpProofs!vars /\ Tcp!vars' = TcpProofs!vars'
    BY DEF Tcp!vars, TcpProofs!vars, Tcp!timers, TcpProofs!timers,
           Tcp!answers, TcpProofs!answers, Tcp!stops, TcpProofs!stops
  <2>3. Tcp!Loop \/ Tcp!ListenFails \/ Tcp!Accept => TcpProofs!Next
    BY DEF Tcp!Loop, Tcp!Prepare, Tcp!Dispatch, Tcp!LoopEnds, Tcp!ListenFails,
       Tcp!Accept, Tcp!timers, Tcp!answers, Tcp!stops, Tcp!Dispatching,
       TcpProofs!Loop, TcpProofs!Prepare, TcpProofs!Dispatch,
       TcpProofs!LoopEnds, TcpProofs!ListenFails, TcpProofs!Accept,
       TcpProofs!timers, TcpProofs!answers, TcpProofs!stops,
       TcpProofs!Dispatching, TcpProofs!Next
  <2>4. ASSUME NEW c \in Tcp!Client, Tcp!Callback(c) PROVE TcpProofs!Next
    <3>1. TcpProofs!Callback(c)
      BY <2>4 DEF Tcp!Callback, Tcp!Ping, Tcp!ReceiveRequest, Tcp!OnClosed,
         Tcp!OnHeartbeatTimeout, Tcp!OnLoginTimeout, Tcp!Delete,
         Tcp!timers, Tcp!answers, Tcp!stops, Tcp!Dispatching, Tcp!InCallback,
         TcpProofs!Callback, TcpProofs!Ping, TcpProofs!ReceiveRequest,
         TcpProofs!OnClosed, TcpProofs!OnHeartbeatTimeout,
         TcpProofs!OnLoginTimeout, TcpProofs!Delete, TcpProofs!timers,
         TcpProofs!answers, TcpProofs!stops, TcpProofs!Dispatching,
         TcpProofs!InCallback
    <3> QED
      BY <2>1, <3>1 DEF TcpProofs!Next
  <2>5. Tcp!PutMessage \/ Tcp!Stop \/ Tcp!Joined => TcpProofs!Next
    BY DEF Tcp!PutMessage, Tcp!Stop, Tcp!Joined, Tcp!SS, Tcp!timers,
       Tcp!answers, Tcp!stops, TcpProofs!PutMessage, TcpProofs!Stop,
       TcpProofs!Joined, TcpProofs!SS, TcpProofs!timers, TcpProofs!answers,
       TcpProofs!stops, TcpProofs!Next
  <2>6. Tcp!Write => TcpProofs!Next
    BY DEF Tcp!Write, Tcp!OnWriteble, Tcp!OnWritebleFreed, Tcp!Pending,
       Tcp!Client, Tcp!SS, Tcp!timers, Tcp!answers, Tcp!stops,
       Tcp!Dispatching, TcpProofs!Write, TcpProofs!OnWriteble,
       TcpProofs!OnWritebleFreed, TcpProofs!Pending, TcpProofs!Client,
       TcpProofs!SS, TcpProofs!timers, TcpProofs!answers, TcpProofs!stops,
       TcpProofs!Dispatching, TcpProofs!Next
  <2> QED
    BY <2>2, <2>3, <2>4, <2>5, <2>6 DEF Tcp!Next, Tcp!Terminated
<1>3. TcpProofs!TypeOK => Tcp!TypeOK
  BY DEF TcpProofs!TypeOK, Tcp!TypeOK, TcpProofs!Client, Tcp!Client
<1>4. TcpProofs!FirstConnectionServed => Tcp!FirstConnectionServed
  BY DEF TcpProofs!FirstConnectionServed, Tcp!FirstConnectionServed,
         TcpProofs!Client, Tcp!Client, TcpProofs!SS, Tcp!SS
<1>5. Tcp!Steps => TcpProofs!Steps
  BY <1>1, <1>2, PTL DEF Tcp!Steps, TcpProofs!Steps
<1>6. TcpProofs!NumClientsAssumption /\ TcpProofs!NumRequestsAssumption
  BY ServerAssumption, ConstantsAssumption
     DEF TcpProofs!NumClientsAssumption, TcpProofs!NumRequestsAssumption
<1>7. TcpProofs!Steps => []TcpProofs!TypeOK
  BY <1>6, TcpProofs!TypeCorrect
<1>8. TcpProofs!Steps => []TcpProofs!FirstConnectionServed
  BY <1>6, TcpProofs!FirstServed
<1>9. TcpProofs!StopReachesLoop => Tcp!StopReachesLoop
  BY DEF TcpProofs!StopReachesLoop, Tcp!StopReachesLoop
<1>10. TcpProofs!Steps => []TcpProofs!StopReachesLoop
  BY <1>6, TcpProofs!StopReached
<1> QED
  BY <1>3, <1>4, <1>5, <1>7, <1>8, <1>9, <1>10, StepsOfBoth, PTL
-----------------------------------------------------------------------------
(* Each answer belongs to a request of its own, which a session has in     *)
(* hand that has handled it already; Stop comes to the TCP server after    *)
(* the sessions.                                                           *)
Answered(s) == thread[s] \notin {"none", "get", "busy"}

AnswerInv ==
  /\ answerOf \in Seq(1..NumMsgs) /\ Len(answerOf) = puts
  /\ \A i \in 1..Len(answerOf) :
       \E s \in SessionId : Answered(s) /\ current[s].n = answerOf[i]
  /\ \A i, j \in 1..Len(answerOf) : answerOf[i] = answerOf[j] => i = j
  /\ tcpStop # "no" => stop = "done"

(* What a session that handles a request knows: it is a request that has   *)
(* come, and none of the answers belongs to it.                            *)
LEMMA NotYetAnswered ==
  ASSUME TypeInv, OnceInv, AnswerInv, NEW s \in SessionId, thread[s] = "busy"
  PROVE  /\ current[s].n \in 1..arrived
         /\ \A i \in 1..Len(answerOf) : answerOf[i] # current[s].n
<1>1. current[s] \in Message /\ TypeOK
  BY DEF TypeInv, BusyHolds
<1>2. \A t \in SessionId : 0 \in Slots(t) /\ Holds(t, 0) = current[t].n
  BY <1>1, Numbers DEF Slots, Holds
<1>3. current[s].n \in 1..NumMsgs /\ current[s].n # 0
  BY <1>1, MessageKinds, ConstantsAssumption
<1>4. Holds(s, 0) <= arrived /\ arrived \in Nat
  BY <1>1, <1>2, Numbers DEF OnceInv
<1>5. \A x, y \in SessionId : \A k \in Slots(x), l \in Slots(y) :
        Holds(x, k) = Holds(y, l) /\ Holds(x, k) # 0 => x = y /\ k = l
  BY Zenon DEF OnceInv
<1>6. ASSUME NEW i \in 1..Len(answerOf), answerOf[i] = current[s].n PROVE FALSE
  <2>1. PICK t \in SessionId : Answered(t) /\ current[t].n = answerOf[i]
    BY DEF AnswerInv
  <2>2. t = s
    BY <1>2, <1>3, <1>5, <1>6, <2>1
  <2> QED
    BY <2>1, <2>2 DEF Answered
<1> QED
  BY <1>2, <1>3, <1>4, <1>6, ConstantsAssumption

(* One more answer, of a request that has none.                            *)
LEMMA AnswerStep ==
  ASSUME TypeInv, OnceInv, AnswerInv, NEW s \in SessionId, Answer(s)
  PROVE  AnswerInv'
<1> DEFINE n == current[s].n
           k == Len(answerOf)
<1>1. /\ thread[s] = "busy" /\ thread' = [thread EXCEPT ![s] = "closing"]
      /\ current' = current /\ puts' = puts + 1
      /\ UNCHANGED <<stop, tcpStop>>
      /\ answerOf' = Append(answerOf, n)
  BY DEF Answer, HandleMessage, sessionShared, Tcp!PutMessage, Tcp!stops
<1>2. n \in 1..arrived /\ \A i \in 1..k : answerOf[i] # n
  BY <1>1, NotYetAnswered
<1>3. n \in 1..NumMsgs /\ answerOf \in Seq(1..NumMsgs) /\ k \in Nat
  BY <1>2, LenProperties, ConstantsAssumption DEF TypeInv, TypeOK, AnswerInv
<1>4. /\ answerOf' \in Seq(1..NumMsgs) /\ Len(answerOf') = k + 1
      /\ answerOf'[k + 1] = n /\ \A i \in 1..k : answerOf'[i] = answerOf[i]
  BY <1>1, <1>3, AppendProperties
<1>5. \A i \in 1..(k + 1) : i \in 1..k \/ i = k + 1
  BY <1>3
<1>6. \A t \in SessionId : Answered(t) => Answered(t)'
  BY <1>1 DEF Answered, TypeInv, TypeOK
<1>7. Answered(s)'
  BY <1>1 DEF Answered, TypeInv, TypeOK
<1>8. \A i \in 1..(k + 1) :
        \E t \in SessionId : Answered(t)' /\ current'[t].n = answerOf'[i]
  BY <1>1, <1>4, <1>5, <1>6, <1>7 DEF AnswerInv
<1>9. \A i, j \in 1..(k + 1) : answerOf'[i] = answerOf'[j] => i = j
  BY <1>2, <1>4, <1>5 DEF AnswerInv
<1>10. Len(answerOf') = puts'
  BY <1>1, <1>4 DEF AnswerInv
<1> QED
  BY <1>1, <1>4, <1>8, <1>9, <1>10 DEF AnswerInv, Answered

(* A session that has answered never takes another message in hand.        *)
LEMMA AnsweredStays ==
  ASSUME TypeInv, LifeInv, Next, NEW s \in SessionId, Answered(s)
  PROVE  Answered(s)' /\ current'[s] = current[s]
<1> USE DEF TypeInv, TypeOK, Answered
<1>1. CASE UNCHANGED <<thread, current>>
  BY <1>1
<1>2. CASE NewSession
  <2>1. nextId # s
    BY DEF LifeInv, ThreadInv, Unborn
  <2> QED
    BY <1>2, <2>1 DEF NewSession
<1>3. ASSUME NEW t \in SessionId, Get(t) PROVE Answered(s)' /\ current'[s] = current[s]
  BY <1>3 DEF Get
<1>4. ASSUME NEW t \in SessionId,
             \/ GetTimesOut(t) \/ HandleMessage(t) \/ HandlerThrows(t) \/ Detach(t)
             \/ RemoveSession(t) \/ RemoveSessionThrows(t) \/ Release(t)
      PROVE  Answered(s)' /\ current'[s] = current[s]
  <2>1. /\ current' = current
        /\ \E label \in {"closing", "ended", "detached", "removed"} :
             thread' = [thread EXCEPT ![t] = label]
    BY <1>4 DEF HandleMessage, HandlerThrows, Detach, RemoveSession, EraseSession,
                RemoveSessionThrows, Release, GetTimesOut
  <2> QED
    BY <2>1
<1>5. CASE \/ \E r \in Input : SendMessageToMe(r)
           \/ UseReceiver \/ NewSessionRefused \/ GetSessionByCallId
           \/ AssociateSessionByCallId \/ Dispatch \/ ManagerEnds
           \/ TimerRun \/ Stop \/ Stopping \/ UNCHANGED vars
  BY <1>1, <1>5 DEF SendMessageToMe, UseReceiver, NewSessionRefused,
     GetSessionByCallId, AssociateSessionByCallId, Dispatch, ManagerEnds,
     TimerRun, TimerDispatches, TimerEnds, timerShared, Stop, Stopping, TimerStop,
     OnDisconnect, EnterJoin, Joined, Stopped, ClearAttached, ClearDetached,
     stopShared, sessionVars, vars
<1> QED
  BY <1>2, <1>3, <1>4, <1>5 DEF Next, Manager, Session, Terminated

(* Stop of the manager stays done.                                         *)
LEMMA DoneStays == stop = "done" /\ Next => stop' = "done"
BY DEF Next, SendMessageToMe, Manager, UseReceiver, NewSession,
   NewSessionRefused, GetSessionByCallId, AssociateSessionByCallId, Dispatch,
   ManagerEnds, Session, GetTimesOut, Get, HandleMessage, HandlerThrows,
   Detach, RemoveSession, RemoveSessionThrows, Release, sessionShared, Stop,
   Stopping, TimerStop, OnDisconnect, EnterJoin, Joined, Stopped, ClearAttached,
   ClearDetached, TimerRun, TimerDispatches, TimerEnds, timerShared, stopVars,
   Terminated, vars

LEMMA AnswersKept == AcdSteps => []AnswerInv
<1>1. AcdInit => AnswerInv
  BY EmptySeq DEF AcdInit, AnswerInv, Tcp!Init
<1>2. TypeInv /\ LifeInv /\ OnceInv /\ AnswerInv /\ [AcdNext]_acdVars => AnswerInv'
  <2> SUFFICES ASSUME TypeInv, LifeInv, OnceInv, AnswerInv, [AcdNext]_acdVars
               PROVE  AnswerInv'
    OBVIOUS
  <2>1. ASSUME NEW s \in SessionId, Answer(s) PROVE AnswerInv'
    BY <2>1, AnswerStep
  <2>2. ASSUME UNCHANGED <<answerOf, puts>>, [Next]_vars,
               tcpStop' # "no" => tcpStop # "no" \/ stop = "done"
        PROVE  AnswerInv'
    <3>1. \A s \in SessionId : Answered(s) => Answered(s)' /\ current'[s] = current[s]
      <4>1. CASE Next
        BY <4>1, AnsweredStays
      <4>2. CASE UNCHANGED vars
        BY <4>2 DEF vars, sessionVars, Answered
      <4> QED
        BY <2>2, <4>1, <4>2
    <3>2. stop = "done" => stop' = "done"
      BY <2>2, DoneStays DEF vars, stopVars
    <3>3. tcpStop' # "no" => stop' = "done"
      BY <2>2, <3>2 DEF AnswerInv
    <3>4. \A i \in 1..Len(answerOf) :
            \E s \in SessionId : Answered(s)' /\ current'[s].n = answerOf[i]
      BY <3>1 DEF AnswerInv
    <3> QED
      BY <2>2, <3>3, <3>4 DEF AnswerInv, Answered
  <2>3. [Next]_vars
    BY StepOfManager
  <2>4. CASE \/ ManagerRuns \/ TimerRuns \/ AcdStop \/ ManagerStops
             \/ \E s \in SessionId : \/ SessionStep(s)
                                     \/ (GetTimesOut(s) /\ OnlyManager)
    BY <2>2, <2>3, <2>4, ManagerAlone DEF tcpVars
  <2>5. CASE Receive
    BY <2>2, <2>3, <2>5
       DEF Receive, Tcp!ReceiveRequest, Tcp!answers, Tcp!stops
  <2>6. CASE LoopRuns \/ LoopWrites \/ LoopServes
    <3>1. UNCHANGED <<answerOf, puts, tcpStop>>
      BY <2>6 DEF LoopRuns, LoopWrites, LoopServes, OnlyServer, Tcp!Loop,
         Tcp!Prepare, Tcp!Dispatch, Tcp!LoopEnds, Tcp!Write, Tcp!OnWriteble,
         Tcp!OnWritebleFreed, Tcp!ListenFails, Tcp!Accept, Tcp!Ping,
         Tcp!OnClosed, Tcp!OnHeartbeatTimeout, Tcp!OnLoginTimeout,
         Tcp!answers, Tcp!stops
    <3> QED
      BY <2>2, <2>3, <3>1
  <2>7. CASE TcpStops
    <3>1. UNCHANGED <<answerOf, puts>> /\ stop = "done"
      BY <2>7 DEF TcpStops, OnlyServer, Tcp!Stop, Tcp!Joined, Tcp!answers
    <3> QED
      BY <2>2, <2>3, <3>1
  <2>8. CASE UNCHANGED acdVars
    BY <2>2, <2>3, <2>8 DEF acdVars, tcpVars
  <2> QED
    BY <2>1, <2>4, <2>5, <2>6, <2>7, <2>8 DEF AcdNext, AcdTerminated, SessionRuns
<1> QED
  BY <1>1, <1>2, StepsOfBoth, TypeInvCorrect, LifeCorrect, OnceCorrect, PTL
     DEF AcdSteps

(* A session that is about to answer finds the TCP server there, and has   *)
(* an answer to give: there are as many requests, at least, as answers     *)
(* with its own.                                                           *)
THEOREM AnswersFind == AcdSteps => []AnswersFindServer
<1>1. TypeInv /\ OnceInv /\ AnswerInv /\ NoAnswerAfterStop => AnswersFindServer
  <2> SUFFICES ASSUME TypeInv, OnceInv, AnswerInv, NoAnswerAfterStop,
                      NEW s \in SessionId, thread[s] = "busy"
               PROVE  tcpStop = "no" /\ puts < arrived
    BY DEF AnswersFindServer
  <2>1. tcpStop = "no"
    BY DEF AnswerInv, NoAnswerAfterStop
  <2> DEFINE n == current[s].n
             f == [i \in 1..(puts + 1) |-> IF i <= puts THEN answerOf[i] ELSE n]
  <2>2. /\ n \in 1..arrived /\ \A i \in 1..puts : answerOf[i] # n
        /\ puts \in Nat /\ arrived \in Nat
    BY NotYetAnswered, LenProperties, ConstantsAssumption
       DEF AnswerInv, TypeInv, TypeOK
  <2>3. \A i \in 1..puts : answerOf[i] \in 1..arrived
    <3> SUFFICES ASSUME NEW i \in 1..puts PROVE answerOf[i] \in 1..arrived
      OBVIOUS
    <3>1. answerOf[i] \in 1..NumMsgs
      BY ElementOfSeq DEF AnswerInv
    <3>2. PICK t \in SessionId : current[t].n = answerOf[i]
      BY DEF AnswerInv
    <3>3. 0 \in Slots(t) /\ Holds(t, 0) = current[t].n
      BY Numbers DEF Slots, Holds, TypeInv
    <3>4. current[t].n <= arrived
      BY <3>3 DEF OnceInv
    <3> QED
      BY <2>2, <3>1, <3>2, <3>4, ConstantsAssumption
  <2>4. f \in [1..(puts + 1) -> 1..arrived]
    BY <2>2, <2>3
  <2>5. \A i, j \in 1..(puts + 1) : f[i] = f[j] => i = j
    <3>1. \A i, j \in 1..puts : answerOf[i] = answerOf[j] => i = j
      BY DEF AnswerInv
    <3>2. \A i \in 1..(puts + 1) : i <= puts => i \in 1..puts
      BY <2>2
    <3>3. \A i \in 1..(puts + 1) : ~(i <= puts) => i = puts + 1
      BY <2>2
    <3> QED
      BY <2>2, <3>1, <3>2, <3>3
  <2>6. f \in Injection(1..(puts + 1), 1..arrived)
    BY <2>4, <2>5 DEF Injection, IsInjective
  <2>7. /\ IsFiniteSet(1..(puts + 1)) /\ Cardinality(1..(puts + 1)) = puts + 1
        /\ IsFiniteSet(1..arrived) /\ Cardinality(1..arrived) = arrived
    <3>1. \A m \in Nat : IsFiniteSet(1..m) /\ Cardinality(1..m) = m
      <4> SUFFICES ASSUME NEW m \in Nat
                   PROVE  IsFiniteSet(1..m) /\ Cardinality(1..m) = m
        OBVIOUS
      <4>1. IsFiniteSet(1..m) /\ Cardinality(1..m) = IF 1 > m THEN 0 ELSE m - 1 + 1
        BY FS_Interval
      <4> QED
        BY <4>1
    <3>2. puts + 1 \in Nat
      BY <2>2
    <3> QED
      BY <2>2, <3>1, <3>2
  <2>8. Cardinality(1..(puts + 1)) <= Cardinality(1..arrived)
    BY <2>6, <2>7, FS_Injection
  <2> QED
    BY <2>1, <2>2, <2>7, <2>8
<1> QED
  BY <1>1, StepsOfBoth, TypeInvCorrect, OnceCorrect, AnswersKept,
     SilentAfterStop, PTL

(* One more answer to the request session s has in hand.                   *)
LEMMA ReplyStep ==
  ASSUME TypeInv, OnceInv, AnswerInv, OneReply, RepliesAreAnswers,
         NEW s \in SessionId, Answer(s)
  PROVE  RepliesAreAnswers'
<1>1. /\ thread[s] = "busy" /\ current' = current /\ puts' = puts + 1
      /\ replies' = [replies EXCEPT ![s] = @ + 1]
      /\ answerOf' = Append(answerOf, current[s].n)
  BY DEF Answer, HandleMessage, sessionShared, Tcp!PutMessage
<1>2. /\ current[s].n \in 1..arrived
      /\ \A i \in 1..Len(answerOf) : answerOf[i] # current[s].n
  BY <1>1, NotYetAnswered
<1>3. /\ Len(answerOf) = puts /\ puts \in Nat
      /\ current[s].n \in 1..NumMsgs /\ answerOf \in Seq(1..NumMsgs)
  BY <1>2, LenProperties, ConstantsAssumption DEF AnswerInv, TypeInv, TypeOK
<1>4. /\ answerOf'[puts + 1] = current[s].n
      /\ \A i \in 1..puts : answerOf'[i] = answerOf[i]
  BY <1>1, <1>3, AppendProperties
<1>5. replies[s] = 0 /\ DOMAIN replies = SessionId
  BY <1>1 DEF OneReply, TypeInv, TypeOK
<1>6. ASSUME NEW t \in SessionId, t # s PROVE current[t].n # current[s].n
  <2>1. \A r \in SessionId : 0 \in Slots(r) /\ Holds(r, 0) = current[r].n
    BY Numbers DEF TypeInv, Slots, Holds
  <2>2. \A x, y \in SessionId : \A k \in Slots(x), l \in Slots(y) :
          Holds(x, k) = Holds(y, l) /\ Holds(x, k) # 0 => x = y /\ k = l
    BY Zenon DEF OnceInv
  <2> QED
    BY <1>2, <1>6, <2>1, <2>2
<1>7. ASSUME NEW t \in SessionId, current[t] # NoMessage
      PROVE  replies'[t] = 1 <=> \E i \in 1..(puts + 1) : answerOf'[i] = current[t].n
  <2>1. CASE t = s
    <3>1. replies'[t] = 1 /\ puts + 1 \in 1..(puts + 1)
      BY <1>1, <1>3, <1>5, <2>1
    <3> QED
      BY <1>4, <2>1, <3>1
  <2>2. CASE t # s
    <3>1. replies'[t] = replies[t] /\ current[t].n # current[s].n
      BY <1>1, <1>5, <1>6, <2>2
    <3>2. \A i \in 1..(puts + 1) : i \in 1..puts \/ i = puts + 1
      BY <1>3
    <3>3. \A i \in 1..puts : i \in 1..(puts + 1)
      BY <1>3
    <3> QED
      BY <1>4, <1>7, <3>1, <3>2, <3>3 DEF RepliesAreAnswers
  <2> QED
    BY <2>1, <2>2
<1> QED
  BY <1>1, <1>7 DEF RepliesAreAnswers

(* A session that takes a request takes one that nobody has answered.      *)
LEMMA TakeStep ==
  ASSUME TypeInv, OnceInv, AnswerInv, OneReply, RepliesAreAnswers,
         NEW s \in SessionId, Get(s), UNCHANGED <<puts, answerOf>>
  PROVE  RepliesAreAnswers'
<1>1. /\ thread[s] = "get" /\ m_EventQueue[s] # <<>> /\ UNCHANGED replies
      /\ \/ current' = current
         \/ /\ ~IsStop(Head(m_EventQueue[s]))
            /\ current' = [current EXCEPT ![s] = Head(m_EventQueue[s])]
  BY DEF Get
<1>2. CASE current' = current
  BY <1>1, <1>2 DEF RepliesAreAnswers
<1>3. CASE /\ ~IsStop(Head(m_EventQueue[s]))
           /\ current' = [current EXCEPT ![s] = Head(m_EventQueue[s])]
  <2>1. \A t \in SessionId \ {s} : current'[t] = current[t]
    BY <1>3 DEF TypeInv, TypeOK
  <2>2. current'[s] = m_EventQueue[s][1] /\ m_EventQueue[s][1].n # 0
    <3>1. m_EventQueue[s] \in Seq(QueuedMessage)
      BY DEF TypeInv, TypeOK
    <3>2. Head(m_EventQueue[s]) = m_EventQueue[s][1]
      BY <1>1, <3>1, HeadTailProperties
    <3> QED
      BY <1>3, <3>2 DEF TypeInv, TypeOK, IsStop
  <2>3. /\ 1 \in Slots(s) /\ Holds(s, 1) = m_EventQueue[s][1].n
        /\ \A r \in SessionId : 0 \in Slots(r) /\ Holds(r, 0) = current[r].n
    <3>1. m_EventQueue[s] \in Seq(QueuedMessage)
      BY DEF TypeInv, TypeOK
    <3>2. Len(m_EventQueue[s]) \in Nat /\ Len(m_EventQueue[s]) # 0
      BY <1>1, <3>1, EmptySeq
    <3> QED
      BY <3>2, Numbers DEF TypeInv, Slots, Holds
  <2>4. \A x, y \in SessionId : \A k \in Slots(x), l \in Slots(y) :
          Holds(x, k) = Holds(y, l) /\ Holds(x, k) # 0 => x = y /\ k = l
    BY Zenon DEF OnceInv
  <2>5. \A t \in SessionId : current[t].n # current'[s].n
    BY <2>2, <2>3, <2>4
  <2>6. \A i \in 1..puts : answerOf[i] # current'[s].n
    BY <2>5 DEF AnswerInv
  <2>7. replies[s] # 1
    BY <1>1 DEF OneReply
  <2> QED
    BY <1>1, <2>1, <2>6, <2>7 DEF RepliesAreAnswers
<1> QED
  BY <1>1, <1>2, <1>3

(* What the sessions say they answered is what the TCP server was given.   *)
THEOREM RepliesGiven == AcdSteps => []RepliesAreAnswers
<1>1. AcdInit => RepliesAreAnswers
  BY DEF AcdInit, Init, RepliesAreAnswers
<1>2. TypeInv /\ OnceInv /\ AnswerInv /\ OneReply /\ RepliesAreAnswers
        /\ [AcdNext]_acdVars => RepliesAreAnswers'
  <2> SUFFICES ASSUME TypeInv, OnceInv, AnswerInv, OneReply, RepliesAreAnswers,
                      [AcdNext]_acdVars
               PROVE  RepliesAreAnswers'
    OBVIOUS
  <2>1. CASE UNCHANGED <<current, replies, puts, answerOf>>
    BY <2>1 DEF RepliesAreAnswers
  <2>2. ASSUME NEW s \in SessionId, Answer(s) PROVE RepliesAreAnswers'
    BY <2>2, ReplyStep
  <2>3. ASSUME NEW s \in SessionId, Get(s), OnlyManager PROVE RepliesAreAnswers'
    BY <2>3, TakeStep DEF OnlyManager, tcpVars
  <2>4. CASE ManagerRuns \/ TimerRuns \/ AcdStop \/ ManagerStops
    <3>1. UNCHANGED <<current, replies>>
      BY <2>4 DEF ManagerRuns, TimerRuns, AcdStop, ManagerStops, Manager, UseReceiver,
         NewSession, NewSessionRefused, GetSessionByCallId,
         AssociateSessionByCallId, Dispatch, ManagerEnds, Stop, Stopping,
         TimerStop, OnDisconnect, EnterJoin, Joined, Stopped, ClearAttached,
         ClearDetached, TimerRun, TimerDispatches, TimerEnds, timerShared,
         stopShared, sessionVars
    <3> QED
      BY <2>1, <2>4, <3>1, ManagerAlone DEF tcpVars
  <2>5. ASSUME NEW s \in SessionId, SessionStep(s) \/ (GetTimesOut(s) /\ OnlyManager),
               ~Get(s)
        PROVE  RepliesAreAnswers'
    <3>1. UNCHANGED <<current, replies>>
      BY <2>5 DEF SessionStep, GetTimesOut, HandleMessage, HandlerThrows, Detach,
         RemoveSession, RemoveSessionThrows, Release
    <3> QED
      BY <2>1, <2>5, <3>1, ManagerAlone DEF tcpVars
  <2>6. CASE Receive
    BY <2>1, <2>6 DEF Receive, SendMessageToMe, sessionVars, Tcp!ReceiveRequest,
                      Tcp!answers
  <2>7. CASE LoopRuns \/ LoopWrites \/ LoopServes \/ TcpStops
    <3>1. UNCHANGED <<managerVars, answerOf, puts>>
      BY <2>7 DEF LoopRuns, LoopWrites, LoopServes, TcpStops, OnlyServer, Tcp!Loop,
         Tcp!Prepare, Tcp!Dispatch, Tcp!LoopEnds, Tcp!Write, Tcp!OnWriteble,
         Tcp!OnWritebleFreed, Tcp!ListenFails, Tcp!Accept, Tcp!Ping,
         Tcp!OnClosed, Tcp!OnHeartbeatTimeout, Tcp!OnLoginTimeout,
         Tcp!Stop, Tcp!Joined, Tcp!answers
    <3> QED
      BY <2>1, <3>1 DEF managerVars, sessionVars
  <2>8. CASE UNCHANGED acdVars
    BY <2>1, <2>8 DEF acdVars, vars, sessionVars, tcpVars
  <2> QED
    BY <2>2, <2>3, <2>4, <2>5, <2>6, <2>7, <2>8
       DEF AcdNext, AcdTerminated, SessionRuns, SessionStep
<1> QED
  BY <1>1, <1>2, StepsOfBoth, TypeInvCorrect, OnceCorrect, AnswersKept,
     AnsweredOnce, PTL DEF AcdSteps

(* Whoever waits is owed what it waits for: the step of another thread     *)
(* that brings it can be taken.                                            *)
THEOREM EveryWaitOwed == AcdSteps => []NobodyWaitsInVain
<1>1. NoIdleSession /\ StopHeard /\ AnswerInv /\ Tcp!StopReachesLoop
        => NobodyWaitsInVain
  BY DEF AnswerInv, NobodyWaitsInVain
<1> QED
  BY <1>1, StepsOfBoth, NobodyIdle, StopIsHeard, AnswersKept, ServerKept, PTL
-----------------------------------------------------------------------------
(* What the soft switch is shown changes with what is written to it.       *)
LEMMA ShownKept ==
  ASSUME Tcp!TypeOK, AnswerInv, UNCHANGED puts, UNCHANGED answerOf,
         written'[Tcp!SS] = written[Tcp!SS]
  PROVE  Shown' = Shown
BY DEF Shown, Tcp!SS

(* A further answer changes nothing that has been shown.                   *)
LEMMA ShownBefore ==
  ASSUME Tcp!TypeOK, AnswerInv, NEW n \in 1..NumMsgs, written' = written,
         answerOf' = Append(answerOf, n)
  PROVE  Shown' = Shown
<1>1. /\ answerOf \in Seq(1..NumMsgs) /\ Len(answerOf) = puts
      /\ \A i \in 1..puts : answerOf'[i] = answerOf[i]
  BY AppendProperties DEF AnswerInv
<1>2. written[Tcp!SS] \in Seq(1..puts)
  BY ServerAssumption DEF Tcp!TypeOK, Tcp!SS, Tcp!Client
<1>3. \A i \in 1..Len(written[Tcp!SS]) : written[Tcp!SS][i] \in 1..puts
  BY <1>2, ElementOfSeq
<1>4. \A i \in 1..Len(written[Tcp!SS]) :
        answerOf'[written[Tcp!SS][i]] = answerOf[written[Tcp!SS][i]]
  BY <1>1, <1>3
<1> QED
  BY <1>4 DEF Shown, Tcp!SS

(* Writing shows the soft switch all answers there are, or nothing new.    *)
LEMMA WriteStep ==
  ASSUME Tcp!TypeOK, Tcp!FirstConnectionServed, AnswerInv, LoopWrites
  PROVE  [Promise!Next]_(Promise!vars)
<1> USE DEF Tcp!SS
<1>1. /\ UNCHANGED <<arrived, answerOf, accepted, g_TCPClientMap, puts>>
      /\ Tcp!SS \in Tcp!Client
  <2>1. UNCHANGED <<arrived, answerOf>> /\ Tcp!Write
    BY DEF LoopWrites, OnlyServer
  <2>2. UNCHANGED <<accepted, g_TCPClientMap, puts>>
    BY <2>1 DEF Tcp!Write, Tcp!OnWriteble, Tcp!OnWritebleFreed
  <2>3. Tcp!SS \in Tcp!Client
    BY ServerAssumption DEF Tcp!Client
  <2> QED
    BY <2>1, <2>2, <2>3
<1>2. ASSUME written'[Tcp!SS] = written[Tcp!SS]
      PROVE  UNCHANGED Promise!vars
  <2>1. Shown' = Shown
    BY <1>1, <1>2, ShownKept
  <2> QED
    BY <1>1, <2>1 DEF Promise!vars
<1>3. CASE Tcp!OnWriteble /\ Tcp!SS \notin Tcp!Pending
  <2>1. written'[Tcp!SS] = written[Tcp!SS]
    BY <1>1, <1>3 DEF Tcp!OnWriteble
  <2> QED
    BY <1>2, <2>1
<1>4. CASE Tcp!OnWriteble /\ Tcp!SS \in Tcp!Pending
  <2>1. /\ Tcp!SS \in g_TCPClientMap
        /\ written'[Tcp!SS] = written[Tcp!SS] \o m_Datas[Tcp!SS]
    BY <1>1, <1>4 DEF Tcp!OnWriteble
  <2>2. written'[Tcp!SS] = [k \in 1..puts |-> k]
    BY <2>1 DEF Tcp!FirstConnectionServed
  <2>3. puts \in Nat /\ Len(written'[Tcp!SS]) = puts
    <3>1. puts \in Nat
      BY LenProperties DEF AnswerInv
    <3>2. [k \in 1..puts |-> k] \in Seq(Nat) /\ Len([k \in 1..puts |-> k]) = puts
      BY <3>1
    <3> QED
      BY <2>2, <3>1, <3>2
  <2>4. Shown' = answerOf
    <3>1. Shown' = [k \in 1..puts |-> answerOf[k]]
      BY <1>1, <2>2, <2>3 DEF Shown
    <3>2. answerOf = [k \in 1..puts |-> answerOf[k]]
      BY <2>3 DEF AnswerInv
    <3> QED
      BY <3>1, <3>2
  <2> QED
    BY <1>1, <2>1, <2>4 DEF Promise!Next, Promise!Show
<1>5. CASE Tcp!OnWritebleFreed
  <2>1. Tcp!SS \notin g_TCPClientMap
    <3> SUFFICES ASSUME Tcp!SS \in g_TCPClientMap PROVE FALSE
      OBVIOUS
    <3>1. PICK c \in Tcp!Pending : c \notin g_TCPClientMap
      BY <1>5 DEF Tcp!OnWritebleFreed
    <3>2. c \in m_Connects /\ m_Datas[c] # <<>> /\ c # Tcp!SS
      BY <3>1 DEF Tcp!Pending
    <3>3. m_Connects \subseteq 1..accepted /\ accepted \in 0..NumClients
      BY DEF Tcp!TypeOK
    <3>4. c \in Tcp!Client
      BY <3>2, <3>3, ServerAssumption DEF Tcp!Client
    <3> QED
      BY <3>2, <3>4 DEF Tcp!FirstConnectionServed
  <2>2. written'[Tcp!SS] = written[Tcp!SS]
    BY <1>1, <1>5, <2>1 DEF Tcp!OnWritebleFreed, Tcp!TypeOK
  <2> QED
    BY <1>2, <2>2
<1> QED
  BY <1>3, <1>4, <1>5 DEF LoopWrites, Tcp!Write

(* A connection that is closed stays closed.                               *)
LEMMA ServeStep ==
  ASSUME Tcp!TypeOK, AnswerInv, LoopServes
  PROVE  [Promise!Next]_(Promise!vars)
<1> DEFINE gone == accepted > 0 /\ Tcp!SS \notin g_TCPClientMap
<1>1. UNCHANGED <<arrived, answerOf, puts, written>>
  BY DEF LoopServes, OnlyServer, Tcp!ListenFails, Tcp!Accept, Tcp!Ping,
         Tcp!OnClosed, Tcp!OnHeartbeatTimeout, Tcp!OnLoginTimeout, Tcp!answers
<1>2. Shown' = Shown
  BY <1>1, ShownKept
<1>3. gone' = gone \/ gone' = TRUE
  <2>1. CASE Tcp!Accept
    <3>1. accepted \in Nat /\ g_TCPClientMap' = g_TCPClientMap \cup {accepted + 1}
          /\ accepted' = accepted + 1
      BY <2>1 DEF Tcp!Accept, Tcp!TypeOK
    <3>2. CASE accepted = 0
      BY <3>1, <3>2 DEF Tcp!SS
    <3>3. CASE accepted > 0
      BY <3>1, <3>3 DEF Tcp!SS
    <3> QED
      BY <3>1, <3>2, <3>3
  <2>2. CASE g_TCPClientMap' \subseteq g_TCPClientMap /\ accepted' = accepted
    BY <2>2 DEF Tcp!SS
  <2>3. CASE \/ Tcp!ListenFails
             \/ \E c \in Tcp!Client : \/ Tcp!Ping(c) \/ Tcp!OnClosed(c)
                                      \/ Tcp!OnHeartbeatTimeout(c)
                                      \/ Tcp!OnLoginTimeout(c)
    BY <2>2, <2>3 DEF Tcp!ListenFails, Tcp!Ping, Tcp!OnClosed,
       Tcp!OnHeartbeatTimeout, Tcp!OnLoginTimeout, Tcp!Delete
  <2> QED
    BY <2>1, <2>3 DEF LoopServes
<1> QED
  BY <1>1, <1>2, <1>3 DEF Promise!vars, Promise!Next, Promise!Close

(* Whatever the manager, the sessions, the loop and main() do in whatever  *)
(* order, the soft switch sees what RequestReply promises.                 *)
THEOREM PromiseKept == AcdSpec => KeepsPromise
<1>1. AcdInit => Promise!Init
  <2> SUFFICES ASSUME AcdInit PROVE Promise!Init
    OBVIOUS
  <2>1. written[Tcp!SS] = <<>> /\ accepted = 0 /\ arrived = 0 /\ answerOf = <<>>
    BY ServerAssumption DEF AcdInit, Init, Tcp!Init, Tcp!SS, Tcp!Client
  <2>2. Shown = <<>>
    BY <2>1 DEF Shown
  <2> QED
    BY <2>1, <2>2 DEF Promise!Init
<1>2. /\ TypeInv /\ OnceInv /\ AnswerInv
      /\ Tcp!TypeOK /\ Tcp!FirstConnectionServed
      /\ [AcdNext]_acdVars
      => [Promise!Next]_(Promise!vars)
  <2> SUFFICES ASSUME TypeInv, OnceInv, AnswerInv, Tcp!TypeOK,
                      Tcp!FirstConnectionServed, [AcdNext]_acdVars
               PROVE  [Promise!Next]_(Promise!vars)
    OBVIOUS
  <2>1. ASSUME UNCHANGED <<arrived, answerOf, puts, written, accepted,
                           g_TCPClientMap>>
        PROVE  UNCHANGED Promise!vars
    <3>1. Shown' = Shown
      BY <2>1, ShownKept
    <3> QED
      BY <2>1, <3>1 DEF Promise!vars, Tcp!SS
  <2>2. CASE Receive
    <3>1. /\ arrived' = arrived + 1
          /\ UNCHANGED <<answerOf, puts, written, accepted, g_TCPClientMap>>
      BY <2>2 DEF Receive, Tcp!ReceiveRequest, Tcp!answers
    <3>2. Shown' = Shown
      BY <3>1, ShownKept
    <3> QED
      BY <3>1, <3>2 DEF Promise!Next, Promise!Ask, Tcp!SS
  <2>3. ASSUME NEW s \in SessionId, Answer(s) PROVE Promise!Next
    <3>1. /\ thread[s] = "busy" /\ answerOf' = Append(answerOf, current[s].n)
          /\ UNCHANGED <<arrived, written, accepted, g_TCPClientMap>>
      BY <2>3 DEF Answer, HandleMessage, sessionShared, Tcp!PutMessage
    <3>2. /\ current[s].n \in 1..arrived
          /\ \A i \in 1..Len(answerOf) : answerOf[i] # current[s].n
      BY <3>1, NotYetAnswered
    <3>3. current[s].n \in 1..NumMsgs
      BY <3>2, ConstantsAssumption DEF TypeInv, TypeOK
    <3>4. Shown' = Shown
      BY <3>1, <3>3, ShownBefore
    <3>5. Promise!Answer(current[s].n)
      BY <3>1, <3>2, <3>4 DEF Promise!Answer, Tcp!SS
    <3> QED
      BY <3>2, <3>5 DEF Promise!Next
  <2>4. CASE \/ ManagerRuns \/ TimerRuns \/ AcdStop \/ ManagerStops
             \/ \E s \in SessionId : \/ SessionStep(s)
                                     \/ (GetTimesOut(s) /\ OnlyManager)
    BY <2>1, <2>4, ManagerAlone DEF tcpVars
  <2>5. CASE LoopRuns \/ TcpStops
    BY <2>1, <2>5 DEF LoopRuns, TcpStops, OnlyServer, Tcp!Loop, Tcp!Prepare,
       Tcp!Dispatch, Tcp!LoopEnds, Tcp!Stop, Tcp!Joined, Tcp!answers
  <2>6. CASE LoopWrites
    BY <2>6, WriteStep
  <2>7. CASE LoopServes
    BY <2>7, ServeStep
  <2>8. CASE UNCHANGED acdVars
    BY <2>1, <2>8 DEF acdVars, vars, tcpVars
  <2> QED
    BY <2>2, <2>3, <2>4, <2>5, <2>6, <2>7, <2>8
       DEF AcdNext, AcdTerminated, SessionRuns
<1>3. AcdSteps => Promise!Spec
  BY <1>1, <1>2, StepsOfBoth, TypeInvCorrect, OnceCorrect, AnswersKept,
     ServerKept, PTL DEF AcdSteps, Promise!Spec
<1> QED
  BY <1>3 DEF AcdSpec, KeepsPromise
=============================================================================
