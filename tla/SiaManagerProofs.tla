-------------------------- MODULE SiaManagerProofs ---------------------------
(***************************************************************************)
(* Proofs about the session manager for any number of requests of any      *)
(* shape, any limit of sessions and any call ids.                          *)
(***************************************************************************)
EXTENDS SiaManager, SequenceTheorems, FiniteSetTheorems, TLAPS

(* Requests wait in the order of their arrival, and every session that has *)
(* been created took one that arrived before those that wait: the session  *)
(* ids never run out.                                                      *)
QueueOrder ==
  /\ nextId - FirstId <= arrived
  /\ \A i \in 1..Len(m_mainqueue) :
       ~IsStop(m_mainqueue[i]) =>
         nextId - FirstId < m_mainqueue[i].n /\ m_mainqueue[i].n <= arrived
  /\ \A i, j \in 1..Len(m_mainqueue) :
       i < j /\ ~IsStop(m_mainqueue[i]) /\ ~IsStop(m_mainqueue[j]) =>
         m_mainqueue[i].n < m_mainqueue[j].n

(* A thread that handles a message has one. *)
BusyHolds == \A s \in SessionId : thread[s] = "busy" => current[s] \in Message

TypeInv == TypeOK /\ QueueOrder /\ BusyHolds

(* A message in a queue is a request with the number of its arrival, or    *)
(* the one of Stop.                                                        *)
LEMMA MessageKinds ==
  /\ \A m \in QueuedMessage : ~IsStop(m) => m \in Message
  /\ \A m \in Message : ~IsStop(m) /\ m.n \in 1..NumMsgs /\ m.req \in Request
  /\ ManagerStop \in QueuedMessage /\ IsStop(ManagerStop)
BY ConstantsAssumption DEF QueuedMessage, Message, IsStop, ManagerStop

(* What the manager takes is a request; the rest of the queue stays.       *)
LEMMA Taken ==
  ASSUME TypeOK, TakeRequest
  PROVE  /\ Head(m_mainqueue) \in Message /\ tranInfo' = Head(m_mainqueue)
         /\ Head(m_mainqueue) = m_mainqueue[1] /\ request \in Request
         /\ m_mainqueue' \in Seq(QueuedMessage)
         /\ Len(m_mainqueue) \in Nat /\ Len(m_mainqueue') = Len(m_mainqueue) - 1
         /\ Len(m_mainqueue) >= 1
         /\ \A i \in 1..Len(m_mainqueue') : m_mainqueue'[i] = m_mainqueue[i + 1]
<1>1. m_mainqueue \in Seq(QueuedMessage) /\ m_mainqueue # <<>>
  BY DEF TypeOK, TakeRequest
<1>2. /\ Head(m_mainqueue) \in QueuedMessage /\ ~IsStop(Head(m_mainqueue))
      /\ m_mainqueue' = Tail(m_mainqueue) /\ tranInfo' = Head(m_mainqueue)
  BY <1>1, HeadTailProperties DEF TakeRequest
<1>3. Head(m_mainqueue) \in Message /\ request \in Request
  BY <1>2, MessageKinds DEF request
<1>4. Len(m_mainqueue) \in Nat /\ Len(m_mainqueue) >= 1
  BY <1>1, EmptySeq
<1>5. Head(m_mainqueue) = m_mainqueue[1]
  BY <1>1
<1> QED
  BY <1>1, <1>2, <1>3, <1>4, <1>5, HeadTailProperties

(* Taking the first request keeps the order, and leaves an id for the      *)
(* session it may open.                                                    *)
LEMMA QueueOrderTail ==
  ASSUME TypeOK, QueueOrder, TakeRequest, arrived' = arrived,
         nextId' = nextId \/ nextId' = nextId + 1
  PROVE  QueueOrder' /\ nextId \in SessionId /\ nextId' \in FirstId..(FirstId + NumMsgs)
<1> USE ConstantsAssumption
<1>1. /\ nextId \in FirstId..(FirstId + NumMsgs) /\ arrived \in 0..NumMsgs
      /\ FirstId \in Nat /\ NumMsgs \in Nat
  BY DEF TypeOK
<1>2. LET h == m_mainqueue[1] IN
        /\ h \in Message /\ ~IsStop(h) /\ h.n \in 1..NumMsgs
        /\ nextId - FirstId < h.n /\ h.n <= arrived
  BY Taken, MessageKinds DEF QueueOrder
<1>3. nextId' - FirstId <= m_mainqueue[1].n
  BY <1>1, <1>2
<1>4. \A i \in 1..Len(m_mainqueue') :
        i + 1 \in 1..Len(m_mainqueue) /\ m_mainqueue'[i] = m_mainqueue[i + 1]
  BY Taken
<1>5. \A i \in 1..Len(m_mainqueue) :
        ~IsStop(m_mainqueue[i]) => m_mainqueue[i].n \in 1..NumMsgs
  <2>1. \A i \in 1..Len(m_mainqueue) : m_mainqueue[i] \in QueuedMessage
    BY ElementOfSeq DEF TypeOK
  <2> QED
    BY <2>1, MessageKinds
<1>6. \A i \in 1..Len(m_mainqueue') :
        ~IsStop(m_mainqueue'[i]) =>
          nextId' - FirstId < m_mainqueue'[i].n /\ m_mainqueue'[i].n <= arrived
  <2> SUFFICES ASSUME NEW i \in 1..Len(m_mainqueue'), ~IsStop(m_mainqueue'[i])
               PROVE  /\ nextId' - FirstId < m_mainqueue'[i].n
                      /\ m_mainqueue'[i].n <= arrived
    OBVIOUS
  <2>1. /\ i + 1 \in 1..Len(m_mainqueue) /\ m_mainqueue'[i] = m_mainqueue[i + 1]
        /\ 1 < i + 1 /\ 1 \in 1..Len(m_mainqueue)
    BY <1>4, Taken
  <2>2. m_mainqueue[1].n < m_mainqueue[i + 1].n
    BY <1>2, <2>1 DEF QueueOrder
  <2>3. m_mainqueue[i + 1].n <= arrived /\ m_mainqueue[i + 1].n \in 1..NumMsgs
    BY <1>5, <2>1 DEF QueueOrder
  <2> QED
    BY <1>1, <1>2, <1>3, <2>1, <2>2, <2>3
<1>7. \A i, j \in 1..Len(m_mainqueue') :
        i < j /\ ~IsStop(m_mainqueue'[i]) /\ ~IsStop(m_mainqueue'[j]) =>
          m_mainqueue'[i].n < m_mainqueue'[j].n
  <2> SUFFICES ASSUME NEW i \in 1..Len(m_mainqueue'), NEW j \in 1..Len(m_mainqueue'),
                      i < j, ~IsStop(m_mainqueue'[i]), ~IsStop(m_mainqueue'[j])
               PROVE  m_mainqueue'[i].n < m_mainqueue'[j].n
    OBVIOUS
  <2>1. i + 1 \in 1..Len(m_mainqueue) /\ j + 1 \in 1..Len(m_mainqueue) /\ i + 1 < j + 1
    BY <1>4
  <2> QED
    BY <1>4, <2>1 DEF QueueOrder
<1>8. nextId' - FirstId <= arrived /\ nextId \in SessionId
      /\ nextId' \in FirstId..(FirstId + NumMsgs)
  BY <1>1, <1>2, <1>3 DEF SessionId
<1> QED
  BY <1>6, <1>7, <1>8 DEF QueueOrder, IsStop

(* A message is put behind the others.                                     *)
LEMMA QueueOrderAppend ==
  ASSUME TypeOK, QueueOrder, nextId' = nextId, NEW m \in QueuedMessage,
         m_mainqueue' = Append(m_mainqueue, m),
         arrived' \in Int, arrived <= arrived',
         IsStop(m) \/ (m.n = arrived + 1 /\ arrived' = arrived + 1)
  PROVE  QueueOrder' /\ m_mainqueue' \in Seq(QueuedMessage)
<1> USE ConstantsAssumption
<1> DEFINE q == m_mainqueue
           k == Len(m_mainqueue)
<1>1. /\ q \in Seq(QueuedMessage) /\ k \in Nat
      /\ nextId \in Int /\ arrived \in Int /\ FirstId \in Int
  BY LenProperties DEF TypeOK
<1>2. /\ m_mainqueue' \in Seq(QueuedMessage) /\ Len(m_mainqueue') = k + 1
      /\ m_mainqueue'[k + 1] = m /\ \A i \in 1..k : m_mainqueue'[i] = q[i]
  BY <1>1, AppendProperties
<1>3. \A i \in 1..k : ~IsStop(q[i]) => q[i].n \in Int
  <2>1. \A i \in 1..k : q[i] \in QueuedMessage
    BY <1>1, ElementOfSeq
  <2> QED
    BY <2>1, MessageKinds
<1>4. \A i \in 1..(k + 1) : i \in 1..k \/ i = k + 1
  BY <1>1
<1>5. \A i \in 1..(k + 1) :
        ~IsStop(m_mainqueue'[i]) =>
          nextId - FirstId < m_mainqueue'[i].n /\ m_mainqueue'[i].n <= arrived'
  <2>1. \A i \in 1..k :
          ~IsStop(m_mainqueue'[i]) =>
            nextId - FirstId < m_mainqueue'[i].n /\ m_mainqueue'[i].n <= arrived'
    BY <1>1, <1>2, <1>3 DEF QueueOrder
  <2>2. ~IsStop(m) => nextId - FirstId < m.n /\ m.n <= arrived'
    BY <1>1 DEF QueueOrder
  <2> QED
    BY <1>2, <1>4, <2>1, <2>2
<1>6. ASSUME NEW i \in 1..(k + 1), NEW j \in 1..(k + 1), i < j,
             ~IsStop(m_mainqueue'[i]), ~IsStop(m_mainqueue'[j])
      PROVE  m_mainqueue'[i].n < m_mainqueue'[j].n
  <2>1. i \in 1..k
    BY <1>1, <1>6
  <2>2. CASE j \in 1..k
    BY <1>2, <1>6, <2>1, <2>2 DEF QueueOrder
  <2>3. CASE j = k + 1
    <3>1. q[i].n <= arrived /\ q[i].n \in Int
      BY <1>2, <1>3, <1>6, <2>1 DEF QueueOrder
    <3>2. m.n = arrived + 1
      BY <1>2, <1>6, <2>3
    <3> QED
      BY <1>1, <1>2, <2>1, <2>3, <3>1, <3>2
  <2> QED
    BY <1>4, <2>2, <2>3
<1>7. nextId' - FirstId <= arrived'
  BY <1>1 DEF QueueOrder
<1> QED
  BY <1>2, <1>5, <1>6, <1>7 DEF QueueOrder, IsStop

(* The types, the order and the messages in hand are kept together: a new  *)
(* session id is in range because of the order.                            *)
LEMMA TypeInvCorrect == Steps => []TypeInv
<1> USE ConstantsAssumption
<1>1. Init => TypeInv
  <2> SUFFICES ASSUME Init PROVE TypeInv
    OBVIOUS
  <2>1. <<>> \in Seq(QueuedMessage) /\ Len(<<>>) = 0 /\ NoMessage \in HeldMessage
    BY EmptySeq DEF HeldMessage
  <2>2. joining \in BOOLEAN /\ crashed \in BOOLEAN
    BY Zenon DEF Init
  <2>3. TypeOK
    BY <2>1, <2>2 DEF Init, TypeOK, TimerState
  <2>4. QueueOrder
    BY <2>1 DEF Init, QueueOrder
  <2> QED
    BY <2>3, <2>4 DEF TypeInv, Init, BusyHolds
<1>2. TypeInv /\ [Next]_vars => TypeOK' /\ QueueOrder'
  <2> SUFFICES ASSUME TypeOK, QueueOrder, BusyHolds, [Next]_vars
               PROVE  TypeOK' /\ QueueOrder'
    BY DEF TypeInv
  <2>0. ASSUME UNCHANGED <<m_mainqueue, arrived, nextId>> PROVE QueueOrder'
    BY <2>0 DEF QueueOrder, IsStop
  <2>1. ASSUME NEW r \in Input, SendMessageToMe(r) PROVE TypeOK' /\ QueueOrder'
    <3>1. [n |-> arrived + 1, req |-> r] \in Message /\ arrived + 1 \in 0..NumMsgs
      BY <2>1 DEF SendMessageToMe, TypeOK, Message
    <3>2. QueueOrder' /\ m_mainqueue' \in Seq(QueuedMessage)
      <4>1. [n |-> arrived + 1, req |-> r] \in QueuedMessage
        BY <3>1 DEF QueuedMessage
      <4>2. /\ arrived' = arrived + 1 /\ nextId' = nextId
            /\ m_mainqueue' = Append(m_mainqueue, [n |-> arrived + 1, req |-> r])
        BY <2>1 DEF SendMessageToMe
      <4>3. arrived' \in Int /\ arrived <= arrived'
        BY <4>2 DEF TypeOK
      <4> QED
        BY <4>1, <4>2, <4>3, QueueOrderAppend
    <3> QED
      BY <2>1, <3>1, <3>2 DEF SendMessageToMe, TypeOK, mgrVars, sessionVars, stopVars
  <2>2. CASE UseReceiver
    <3>1. TakeRequest /\ UNCHANGED <<arrived, nextId>>
      BY <2>2 DEF UseReceiver
    <3>2. QueueOrder'
      BY <3>1, QueueOrderTail
    <3>3. sid' \in {0} \cup SessionId
      BY <2>2, <3>1, Taken DEF UseReceiver, Request
    <3> QED
      BY <2>2, <3>1, <3>2, <3>3, Taken
         DEF UseReceiver, TypeOK, HeldMessage, sessionVars, stopVars
  <2>3. CASE NewSession
    <3>1. TakeRequest /\ arrived' = arrived /\ nextId' = nextId + 1
      BY <2>3 DEF NewSession
    <3>2. /\ QueueOrder' /\ nextId \in SessionId
          /\ nextId' \in FirstId..(FirstId + NumMsgs)
      BY <3>1, QueueOrderTail
    <3> QED
      BY <2>3, <3>1, <3>2, Taken DEF NewSession, TypeOK, HeldMessage, stopVars
  <2>4. CASE NewSessionRefused
    <3>1. TakeRequest /\ UNCHANGED <<arrived, nextId>>
      BY <2>4 DEF NewSessionRefused
    <3>2. QueueOrder'
      BY <3>1, QueueOrderTail
    <3> QED
      BY <2>4, <3>1, <3>2, Taken
         DEF NewSessionRefused, TypeOK, HeldMessage, sessionVars, stopVars
  <2>5. CASE GetSessionByCallId
    <3>1. TakeRequest /\ UNCHANGED <<arrived, nextId>>
      BY <2>5 DEF GetSessionByCallId
    <3>2. QueueOrder'
      BY <3>1, QueueOrderTail
    <3>3. sid' \in {0} \cup SessionId
      BY <2>5 DEF GetSessionByCallId, TypeOK
    <3> QED
      BY <2>5, <3>1, <3>2, <3>3, Taken
         DEF GetSessionByCallId, TypeOK, HeldMessage, sessionVars, stopVars
  <2>6. CASE AssociateSessionByCallId
    BY <2>0, <2>6 DEF AssociateSessionByCallId, TypeOK, sessionVars, stopVars
  <2>7. CASE Dispatch
    <3>1. ASSUME sid \in m_Sessions
          PROVE  Append(m_EventQueue[sid], tranInfo) \in Seq(QueuedMessage)
      <4>1. tranInfo \in QueuedMessage /\ m_EventQueue[sid] \in Seq(QueuedMessage)
        BY <2>7, <3>1 DEF Dispatch, TypeOK, QueuedMessage
      <4> QED
        BY <4>1, AppendProperties
    <3>2. m_EventQueue' \in [SessionId -> Seq(QueuedMessage)]
      BY <2>7, <3>1 DEF Dispatch, TypeOK
    <3> QED
      BY <2>0, <2>7, <3>2 DEF Dispatch, TypeOK, HeldMessage, stopVars
  <2>8. CASE ManagerEnds
    <3>1. QueueOrder' /\ m_mainqueue' \in Seq(QueuedMessage)
      <4>1. m_mainqueue \in Seq(QueuedMessage) /\ m_mainqueue # <<>>
        BY <2>8 DEF ManagerEnds, TypeOK
      <4>2. /\ m_mainqueue' \in Seq(QueuedMessage)
            /\ Len(m_mainqueue) \in Nat /\ Len(m_mainqueue') = Len(m_mainqueue) - 1
            /\ \A i \in 1..Len(m_mainqueue') : m_mainqueue'[i] = m_mainqueue[i + 1]
        BY <2>8, <4>1, HeadTailProperties, LenProperties DEF ManagerEnds
      <4>3. \A i \in 1..Len(m_mainqueue') : i + 1 \in 1..Len(m_mainqueue)
        BY <4>2
      <4>4. \A i, j \in 1..Len(m_mainqueue') : i < j => i + 1 < j + 1
        BY <4>2
      <4>5. arrived' = arrived /\ nextId' = nextId
        BY <2>8 DEF ManagerEnds
      <4> QED
        BY <4>2, <4>3, <4>4, <4>5 DEF QueueOrder, IsStop
    <3> QED
      BY <2>8, <3>1 DEF ManagerEnds, TypeOK, sessionVars, stopVars
  <2>9. ASSUME NEW s \in SessionId, Get(s) PROVE TypeOK' /\ QueueOrder'
    <3>1. /\ Head(m_EventQueue[s]) \in QueuedMessage
          /\ Tail(m_EventQueue[s]) \in Seq(QueuedMessage)
      BY <2>9, HeadTailProperties DEF Get, TypeOK
    <3>2. ~IsStop(Head(m_EventQueue[s])) => Head(m_EventQueue[s]) \in HeldMessage
      BY <3>1, MessageKinds DEF HeldMessage
    <3>3. m_EventQueue' \in [SessionId -> Seq(QueuedMessage)]
      BY <2>9, <3>1 DEF Get, TypeOK
    <3>4. current' \in [SessionId -> HeldMessage]
      <4>1. CASE IsStop(Head(m_EventQueue[s]))
        BY <2>9, <4>1 DEF Get, TypeOK
      <4>2. CASE ~IsStop(Head(m_EventQueue[s]))
        BY <2>9, <3>2, <4>2 DEF Get, TypeOK
      <4> QED
        BY <4>1, <4>2
    <3>5. thread' = [thread EXCEPT ![s] = "ended"]
          \/ thread' = [thread EXCEPT ![s] = "busy"]
      BY <2>9 DEF Get
    <3>6. UNCHANGED <<m_mainqueue, arrived, mpc, tranInfo, sid, nextId, timer, stop,
                      destroying, joining, opener, m_Sessions,
                      m_Callid2SessionMap, attached, m_connection, replies,
                      freed, crashed>>
      BY <2>9 DEF Get, sessionShared, mgrVars
    <3> QED
      BY <2>0, <3>3, <3>4, <3>5, <3>6 DEF TypeOK
  <2>10. ASSUME NEW s \in SessionId,
                GetTimesOut(s) \/ Detach(s) \/ RemoveSessionThrows(s) \/ Release(s)
         PROVE  TypeOK' /\ QueueOrder'
    BY <2>0, <2>10 DEF GetTimesOut, Detach, RemoveSessionThrows, Release, TypeOK,
                       sessionShared, mgrVars
  <2>11. ASSUME NEW s \in SessionId, HandleMessage(s) \/ HandlerThrows(s)
         PROVE  TypeOK' /\ QueueOrder'
    <3>1. NewConnection(s) \in CallId \cup {Absent, Bad}
      <4>1. current[s].req \in Request /\ m_connection[s] \in CallId \cup {Absent, Bad}
        BY <2>11, MessageKinds DEF HandleMessage, HandlerThrows, BusyHolds, TypeOK
      <4> QED
        BY <4>1 DEF NewConnection, Request
    <3>2. /\ m_connection' = [m_connection EXCEPT ![s] = NewConnection(s)]
          /\ \E label \in {"closing", "ended"} :
               thread' = [thread EXCEPT ![s] = label]
          /\ replies' = replies \/ replies' = [replies EXCEPT ![s] = @ + 1]
      BY <2>11 DEF HandleMessage, HandlerThrows
    <3>3. UNCHANGED <<m_mainqueue, arrived, mpc, tranInfo, sid, nextId, timer, stop,
                      destroying, joining, opener, m_Sessions,
                      m_Callid2SessionMap, m_EventQueue, current, attached,
                      freed, crashed>>
      BY <2>11 DEF HandleMessage, HandlerThrows, sessionShared, mgrVars
    <3> QED
      BY <2>0, <3>1, <3>2, <3>3 DEF TypeOK
  <2>12. ASSUME NEW s \in SessionId, RemoveSession(s) PROVE TypeOK' /\ QueueOrder'
    <3>1. crashed' \in BOOLEAN
      BY <2>12 DEF RemoveSession, TypeOK
    <3>2. /\ m_Sessions' \in SUBSET SessionId
          /\ m_Callid2SessionMap' \in [CallId -> {Unmapped, 0} \cup SessionId]
          /\ thread' = [thread EXCEPT ![s] = "removed"]
             \/ thread' = [thread EXCEPT ![s] = "ended"]
      BY <2>12 DEF RemoveSession, EraseSession, TypeOK
    <3>3. UNCHANGED <<m_mainqueue, arrived, mpc, tranInfo, sid, nextId, timer, stop,
                      destroying, joining, opener, m_EventQueue, current,
                      attached, m_connection, replies, freed>>
      BY <2>12 DEF RemoveSession, sessionShared, mgrVars
    <3> QED
      BY <2>0, <3>1, <3>2, <3>3 DEF TypeOK
  <2>13. CASE Stop
    <3>1. ManagerStop \in QueuedMessage /\ IsStop(ManagerStop) /\ arrived \in Int
      BY MessageKinds DEF TypeOK
    <3>2. /\ m_mainqueue' = Append(m_mainqueue, ManagerStop)
          /\ UNCHANGED <<arrived, nextId>>
      BY <2>13 DEF Stop, stopShared
    <3>3. QueueOrder' /\ m_mainqueue' \in Seq(QueuedMessage)
      BY <3>1, <3>2, QueueOrderAppend
    <3> QED
      BY <2>13, <3>3 DEF Stop, stopShared, mgrVars, TypeOK
  <2>14. ASSUME NEW s \in SessionId, ClearAttached(s) PROVE TypeOK' /\ QueueOrder'
    <3>1. Append(m_EventQueue[s], ManagerStop) \in Seq(QueuedMessage)
      BY MessageKinds, AppendProperties DEF TypeOK
    <3> QED
      BY <2>0, <2>14, <3>1 DEF ClearAttached, TypeOK, stopShared, mgrVars
  <2>15. CASE OnDisconnect \/ EnterJoin \/ Joined \/ Stopped
    BY <2>0, <2>15 DEF OnDisconnect, EnterJoin, Joined, Stopped, TypeOK,
                       stopShared, mgrVars
  <2>16. ASSUME NEW s \in SessionId, ClearDetached(s) PROVE TypeOK' /\ QueueOrder'
    BY <2>0, <2>16 DEF ClearDetached, TypeOK, stopShared, mgrVars
  <2>17. CASE UNCHANGED vars
    BY <2>0, <2>17 DEF vars, TypeOK, mgrVars, sessionVars, stopVars
  <2>18. CASE TimerStop
    <3>1. timer' \in TimerState
      BY <2>18 DEF TimerStop, ToldToLeave, TimerState, TypeOK
    <3> QED
      BY <2>0, <2>18, <3>1 DEF TimerStop, TypeOK, stopShared, mgrVars
  <2>19. CASE TimerRun
    <3>1. timer' \in TimerState /\ UNCHANGED timerShared
      BY <2>19 DEF TimerRun, TimerDispatches, TimerEnds, TimerState
    <3> QED
      BY <2>0, <3>1 DEF timerShared, TypeOK, mgrVars, sessionVars
  <2> QED
    BY <2>1, <2>2, <2>3, <2>4, <2>5, <2>6, <2>7, <2>8, <2>9, <2>10, <2>11,
       <2>12, <2>13, <2>14, <2>15, <2>16, <2>17, <2>18, <2>19
       DEF Next, Manager, Session, Stopping, Terminated
<1>3. TypeInv /\ [Next]_vars => BusyHolds'
  <2> SUFFICES ASSUME TypeOK, BusyHolds, [Next]_vars, NEW s \in SessionId,
                      thread'[s] = "busy"
               PROVE  current'[s] \in Message
    BY DEF TypeInv, BusyHolds
  <2> USE DEF TypeOK
  <2>1. CASE thread[s] = "busy" /\ current' = current
    BY <2>1 DEF BusyHolds
  <2>2. ASSUME NEW t \in SessionId, Get(t) PROVE current'[s] \in Message
    <3>1. CASE t = s
      <4>1. /\ Head(m_EventQueue[s]) \in QueuedMessage
            /\ ~IsStop(Head(m_EventQueue[s])) /\ current'[s] = Head(m_EventQueue[s])
        BY <2>2, <3>1, HeadTailProperties DEF Get
      <4> QED
        BY <4>1, MessageKinds
    <3>2. CASE t # s
      BY <2>2, <3>2 DEF Get, BusyHolds
    <3> QED
      BY <3>1, <3>2
  <2>3. CASE \/ \E r \in Input : SendMessageToMe(r)
             \/ UseReceiver \/ NewSessionRefused \/ GetSessionByCallId
             \/ AssociateSessionByCallId \/ ManagerEnds \/ TimerRun \/ UNCHANGED vars
    BY <2>1, <2>3 DEF TimerRun, TimerDispatches, TimerEnds, timerShared,
       SendMessageToMe, UseReceiver, NewSessionRefused,
       GetSessionByCallId, AssociateSessionByCallId, ManagerEnds, sessionVars, vars
  <2>4. CASE Dispatch \/ NewSession
    BY <2>1, <2>4 DEF Dispatch, NewSession
  <2>5. ASSUME NEW t \in SessionId,
               \/ HandleMessage(t) \/ HandlerThrows(t) \/ Detach(t)
               \/ RemoveSession(t) \/ RemoveSessionThrows(t) \/ Release(t)
               \/ GetTimesOut(t)
        PROVE  current'[s] \in Message
    <3>1. current' = current
      BY <2>5 DEF HandleMessage, HandlerThrows, Detach, RemoveSession,
                  RemoveSessionThrows, Release, GetTimesOut
    <3>2. \E label \in {"closing", "ended", "detached", "removed"} :
            thread' = [thread EXCEPT ![t] = label]
      BY <2>5 DEF HandleMessage, HandlerThrows, Detach, RemoveSession, EraseSession,
                  RemoveSessionThrows, Release, GetTimesOut
    <3> QED
      BY <2>1, <3>1, <3>2
  <2>6. CASE Stop \/ Stopping
    BY <2>1, <2>6 DEF Stop, Stopping, TimerStop, OnDisconnect, EnterJoin, Joined, Stopped,
                      ClearAttached, ClearDetached, stopShared
  <2> QED
    BY <2>1, <2>2, <2>3, <2>4, <2>5, <2>6
       DEF Next, Manager, Session, Terminated
<1>4. QED
  <2>1. TypeInv /\ [Next]_vars => TypeInv'
    BY <1>2, <1>3 DEF TypeInv
  <2> QED
    BY <1>1, <2>1, PTL DEF Steps

(* Every variable keeps its type; the session ids never run out.           *)
THEOREM TypeCorrect == Steps => []TypeOK
<1>1. TypeInv => TypeOK
  BY DEF TypeInv
<1> QED
  BY <1>1, TypeInvCorrect, PTL
-----------------------------------------------------------------------------
(* The life of a session: it is in the map and its thread can be joined    *)
(* until the thread detaches itself; its object goes after that.           *)
Unborn(s) == s >= nextId

ThreadInv ==
  \A s \in SessionId :
    /\ thread[s] \in {"get", "busy", "closing"} => s \in m_Sessions /\ s \in attached
    /\ thread[s] = "detached" =>
         s \notin attached /\ (stop \in {"no", "asked", "timer"} => s \in m_Sessions)
    /\ thread[s] = "removed" => s \notin attached
    /\ s \in freed => thread[s] \in {"detached", "removed", "ended"}
    /\ Unborn(s) <=> thread[s] = "none"
    /\ Unborn(s) => s \notin m_Sessions

StopInv ==
  /\ stop \in {"timer", "clearing", "done"} => mpc = "ended"
  /\ stop = "done" =>
       m_Sessions = {} /\ \A c \in CallId : m_Callid2SessionMap[c] = Unmapped

LifeInv == ThreadInv /\ StopInv

(* The life of every session, whatever the order of its thread's steps,    *)
(* the manager's and those of Stop.                                        *)
LEMMA LifeCorrect == Steps => []LifeInv
<1> USE ConstantsAssumption
<1>1. Init => LifeInv
  BY DEF Init, LifeInv, ThreadInv, StopInv, Unborn, SessionId
<1>2. TypeInv /\ LifeInv /\ [Next]_vars => ThreadInv'
  <2> SUFFICES ASSUME TypeOK, QueueOrder, ThreadInv, StopInv, [Next]_vars
               PROVE  ThreadInv'
    BY DEF TypeInv, LifeInv
  <2>0. /\ DOMAIN thread = SessionId /\ m_Sessions \in SUBSET SessionId
        /\ attached \in SUBSET SessionId /\ freed \in SUBSET SessionId
        /\ nextId \in Int /\ SessionId \subseteq Int
    BY DEF TypeOK, SessionId
  <2> USE <2>0 DEF ThreadInv, Unborn
  <2>1. CASE UNCHANGED <<thread, m_Sessions, attached, freed, nextId, stop>>
    BY <2>1
  <2>2. CASE \/ \E r \in Input : SendMessageToMe(r)
             \/ UseReceiver \/ NewSessionRefused \/ GetSessionByCallId
             \/ AssociateSessionByCallId \/ Dispatch \/ ManagerEnds
             \/ TimerRun \/ UNCHANGED vars
    BY <2>1, <2>2 DEF TimerRun, TimerDispatches, TimerEnds, timerShared,
       SendMessageToMe, UseReceiver, NewSessionRefused,
       GetSessionByCallId, AssociateSessionByCallId, Dispatch, ManagerEnds,
       sessionVars, stopVars, vars
  <2>3. CASE NewSession
    <3>1. /\ thread' = [thread EXCEPT ![nextId] = "get"]
          /\ m_Sessions' = m_Sessions \cup {nextId}
          /\ attached' = attached \cup {nextId} /\ nextId' = nextId + 1
          /\ freed' = freed /\ stop' = stop
      BY <2>3 DEF NewSession, stopVars
    <3>2. nextId \in SessionId /\ thread[nextId] = "none"
      <4>1. nextId \in SessionId
        BY <2>3, QueueOrderTail DEF NewSession
      <4> QED
        BY <4>1
    <3> QED
      BY <3>1, <3>2
  <2>4. ASSUME NEW s \in SessionId, Get(s) \/ HandleMessage(s) \/ HandlerThrows(s)
                                    \/ GetTimesOut(s)
        PROVE  ThreadInv'
    <3>1. /\ thread[s] \in {"get", "busy"}
          /\ \E label \in {"busy", "closing", "ended"} :
               thread' = [thread EXCEPT ![s] = label]
          /\ UNCHANGED <<m_Sessions, attached, freed, nextId, stop>>
      BY <2>4 DEF Get, HandleMessage, HandlerThrows, GetTimesOut, sessionShared
    <3> QED
      BY <3>1
  <2>5. ASSUME NEW s \in SessionId, Detach(s) PROVE ThreadInv'
    BY <2>5 DEF Detach, sessionShared
  <2>6. ASSUME NEW s \in SessionId, RemoveSession(s) PROVE ThreadInv'
    <3>1. /\ thread[s] = "detached"
          /\ \E label \in {"removed", "ended"} :
               thread' = [thread EXCEPT ![s] = label]
          /\ m_Sessions' = m_Sessions \/ m_Sessions' = m_Sessions \ {s}
          /\ UNCHANGED <<attached, freed, nextId, stop>>
      BY <2>6 DEF RemoveSession, EraseSession, sessionShared
    <3> QED
      BY <3>1
  <2>7. ASSUME NEW s \in SessionId, RemoveSessionThrows(s) \/ Release(s)
        PROVE  ThreadInv'
    <3>1. /\ thread[s] \in {"detached", "removed"}
          /\ thread' = [thread EXCEPT ![s] = "ended"]
          /\ freed' = freed \/ freed' = freed \cup {s}
          /\ UNCHANGED <<m_Sessions, attached, nextId, stop>>
      BY <2>7 DEF RemoveSessionThrows, Release, sessionShared
    <3> QED
      BY <3>1
  <2>8. CASE Stop \/ TimerStop \/ OnDisconnect \/ EnterJoin \/ Stopped
    <3>1. /\ UNCHANGED <<thread, m_Sessions, attached, freed, nextId>>
          /\ stop' = stop \/ stop' \in {"clearing", "done"} \/ stop \in {"no", "asked"}
      BY <2>8 DEF Stop, TimerStop, OnDisconnect, EnterJoin, Stopped, stopShared
    <3> QED
      BY <3>1
  <2>9. CASE Joined
    BY <2>9 DEF Joined, stopShared, TypeOK
  <2>10. ASSUME NEW s \in SessionId, ClearAttached(s) PROVE ThreadInv'
    BY <2>10 DEF ClearAttached, stopShared
  <2>11. ASSUME NEW s \in SessionId, ClearDetached(s) PROVE ThreadInv'
    <3>1. /\ UNCHANGED <<thread, attached, nextId, stop>> /\ stop = "clearing"
          /\ s \in m_Sessions /\ s \notin attached
          /\ m_Sessions' = m_Sessions \ {s} /\ freed' = freed \cup {s}
      BY <2>11 DEF ClearDetached, stopShared
    <3>2. thread[s] \in {"detached", "removed", "ended"}
      BY <3>1 DEF TypeOK
    <3> QED
      BY <3>1, <3>2
  <2> QED
    BY <2>2, <2>3, <2>4, <2>5, <2>6, <2>7, <2>8, <2>9, <2>10, <2>11
       DEF Next, Manager, Session, Stopping, Terminated
<1>3. TypeInv /\ LifeInv /\ [Next]_vars => StopInv'
  <2> SUFFICES ASSUME TypeOK, ThreadInv, StopInv, [Next]_vars PROVE StopInv'
    BY DEF TypeInv, LifeInv
  <2> USE DEF StopInv
  <2>1. CASE UNCHANGED <<stop, mpc, m_Sessions, m_Callid2SessionMap>>
    BY <2>1
  <2>2. CASE \E r \in Input : SendMessageToMe(r)
    BY <2>1, <2>2 DEF SendMessageToMe, mgrVars, stopVars
  <2>3. CASE Manager
    <3>1. mpc # "ended" /\ stop' = stop
      BY <2>3 DEF Manager, UseReceiver, NewSession, NewSessionRefused,
         GetSessionByCallId, AssociateSessionByCallId, Dispatch, ManagerEnds,
         TakeRequest, stopVars
    <3> QED
      BY <3>1
  <2>4. ASSUME NEW s \in SessionId, Session(s) \/ GetTimesOut(s), ~RemoveSession(s)
        PROVE  StopInv'
    BY <2>1, <2>4 DEF Session, Get, GetTimesOut, HandleMessage, HandlerThrows,
       Detach, RemoveSessionThrows, Release, sessionShared, mgrVars
  <2>5. ASSUME NEW s \in SessionId, RemoveSession(s) PROVE StopInv'
    <3>1. stop' = stop /\ mpc' = mpc
      BY <2>5 DEF RemoveSession, sessionShared, mgrVars
    <3>2. CASE s \in m_Sessions
      BY <3>1, <3>2
    <3>3. CASE s \notin m_Sessions
      BY <2>1, <2>5, <3>1, <3>3 DEF RemoveSession
    <3> QED
      BY <3>2, <3>3
  <2>6. CASE Stop \/ Stopping
    <3>1. mpc' = mpc
      BY <2>6 DEF Stop, Stopping, TimerStop, OnDisconnect, EnterJoin, Joined, Stopped,
                  ClearAttached, ClearDetached, stopShared, mgrVars
    <3>2. CASE Stop \/ TimerStop \/ OnDisconnect \/ Stopped
      BY <3>1, <3>2 DEF Stop, TimerStop, OnDisconnect, Stopped
    <3>3. CASE EnterJoin \/ \E s \in SessionId : ClearAttached(s)
      BY <2>1, <3>1, <3>3 DEF EnterJoin, ClearAttached
    <3>4. CASE Joined \/ \E s \in SessionId : ClearDetached(s)
      BY <3>1, <3>4 DEF Joined, ClearDetached
    <3> QED
      BY <2>6, <3>2, <3>3, <3>4 DEF Stopping
  <2>7. CASE TimerRun \/ UNCHANGED vars
    BY <2>1, <2>7 DEF TimerRun, TimerDispatches, TimerEnds, timerShared,
       vars, mgrVars, stopVars
  <2> QED
    BY <2>2, <2>3, <2>4, <2>5, <2>6, <2>7 DEF Next, Terminated
<1>4. QED
  <2>1. TypeInv /\ LifeInv /\ [Next]_vars => LifeInv'
    BY <1>2, <1>3 DEF LifeInv
  <2> QED
    BY <1>1, <2>1, TypeInvCorrect, PTL DEF Steps

(* The destructor that runs on the session's own thread finds the thread   *)
(* detached.                                                               *)
THEOREM NobodyJoinsItself == Steps => []NoSelfJoin
<1>1. LifeInv => NoSelfJoin
  BY DEF LifeInv, ThreadInv, NoSelfJoin
<1> QED
  BY <1>1, LifeCorrect, PTL

(* Until Stop clears the map, a session at work is in it.                  *)
THEOREM LiveSessionsStay == Steps => []LiveSessionsInMap
<1>1. LifeInv => LiveSessionsInMap
  BY DEF LifeInv, ThreadInv, LiveSessionsInMap
<1> QED
  BY <1>1, LifeCorrect, PTL

(* No object is destroyed under a thread that waits or handles a message.  *)
THEOREM FreedAfterDetach == Steps => []FreedOnlyAfterDetach
<1>1. TypeInv /\ LifeInv => FreedOnlyAfterDetach
  BY DEF TypeInv, TypeOK, LifeInv, ThreadInv, FreedOnlyAfterDetach
<1> QED
  BY <1>1, TypeInvCorrect, LifeCorrect, PTL

(* When Stop has returned no thread is left that could still answer.       *)
THEOREM SilentAfterStop == Steps => []NoAnswerAfterStop
<1>1. LifeInv => NoAnswerAfterStop
  BY DEF LifeInv, ThreadInv, StopInv, NoAnswerAfterStop
<1> QED
  BY <1>1, LifeCorrect, PTL

(* The assertions of ~TSiaManager hold and go on holding.                  *)
THEOREM DestructorAssertsHold == Steps => []DestructorAsserts
<1>1. LifeInv => DestructorAsserts
  BY DEF LifeInv, StopInv, DestructorAsserts
<1> QED
  BY <1>1, LifeCorrect, PTL
-----------------------------------------------------------------------------
(* Sets of sessions are finite, and their sizes can be compared.           *)
LEMMA SessionsFinite ==
  ASSUME NEW S \in SUBSET SessionId, NEW T \in SUBSET S
  PROVE  /\ IsFiniteSet(S) /\ Cardinality(S) \in Nat
         /\ Cardinality(T) \in Nat /\ Cardinality(T) <= Cardinality(S)
<1>1. IsFiniteSet(SessionId)
  BY ConstantsAssumption, FS_Interval DEF SessionId
<1>2. IsFiniteSet(S) /\ IsFiniteSet(T)
  BY <1>1, FS_Subset
<1> QED
  BY <1>2, FS_CardinalityType, FS_Subset

(* The limit: only NewSession adds to the map, below the limit; whatever   *)
(* the session threads and Stop do at the same time makes it smaller.      *)
THEOREM LimitKept == Steps => []SessionLimit
<1> USE ConstantsAssumption DEF SessionLimit
<1>1. Init => SessionLimit
  BY FS_EmptySet DEF Init
<1>2. TypeInv /\ SessionLimit /\ [Next]_vars => SessionLimit'
  <2> SUFFICES ASSUME TypeOK, SessionLimit, [Next]_vars PROVE SessionLimit'
    BY DEF TypeInv
  <2>1. CASE NewSession
    <3>1. /\ m_Sessions' = m_Sessions \cup {nextId}
          /\ Cardinality(m_Sessions) < m_max_session_num
      BY <2>1 DEF NewSession
    <3>2. IsFiniteSet(m_Sessions) /\ Cardinality(m_Sessions) \in Nat
      BY SessionsFinite DEF TypeOK
    <3>3. \/ Cardinality(m_Sessions') = Cardinality(m_Sessions)
          \/ Cardinality(m_Sessions') = Cardinality(m_Sessions) + 1
      BY <3>1, <3>2, FS_AddElement
    <3> QED
      BY <3>1, <3>2, <3>3
  <2>2. CASE m_Sessions' \subseteq m_Sessions
    <3>1. /\ Cardinality(m_Sessions) \in Nat /\ Cardinality(m_Sessions') \in Nat
          /\ Cardinality(m_Sessions') <= Cardinality(m_Sessions)
      BY <2>2, SessionsFinite DEF TypeOK
    <3> QED
      BY <3>1
  <2>3. CASE \/ \E r \in Input : SendMessageToMe(r)
             \/ UseReceiver \/ NewSessionRefused \/ GetSessionByCallId
             \/ AssociateSessionByCallId \/ Dispatch \/ ManagerEnds
    BY <2>2, <2>3 DEF SendMessageToMe, UseReceiver, NewSessionRefused,
       GetSessionByCallId, AssociateSessionByCallId, Dispatch, ManagerEnds
  <2>4. ASSUME NEW s \in SessionId, Session(s) \/ GetTimesOut(s)
        PROVE  m_Sessions' \subseteq m_Sessions
    BY <2>4 DEF Session, Get, GetTimesOut, HandleMessage, HandlerThrows, Detach,
       RemoveSession, EraseSession, RemoveSessionThrows, Release
  <2>5. CASE Stop \/ Stopping
    BY <2>2, <2>5 DEF Stop, Stopping, TimerStop, OnDisconnect, EnterJoin, Joined, Stopped,
       ClearAttached, ClearDetached
  <2>6. CASE TimerRun \/ UNCHANGED vars
    BY <2>2, <2>6 DEF TimerRun, TimerDispatches, TimerEnds, timerShared,
       vars
  <2> QED
    BY <2>1, <2>2, <2>3, <2>4, <2>5, <2>6 DEF Next, Manager, Terminated
<1>3. QED
  BY <1>1, <1>2, TypeInvCorrect, PTL DEF Steps
-----------------------------------------------------------------------------
(* A thread that has not taken its message yet finds the one its session   *)
(* was created for at the head of its queue, or the manager still has it   *)
(* in hand.                                                                *)
OpenerInv ==
  /\ mpc = "associate" /\ sid # 0 => opener[sid] = tranInfo
  /\ \A s \in SessionId :
       /\ thread[s] = "get" =>
            IF m_EventQueue[s] = <<>>
            THEN mpc \in {"associate", "dispatch"} /\ sid = s /\ tranInfo = opener[s]
            ELSE Head(m_EventQueue[s]) = opener[s]
       /\ current[s] # NoMessage => current[s] = opener[s]
       /\ Unborn(s) => /\ current[s] = NoMessage /\ opener[s] = NoMessage
                       /\ m_EventQueue[s] = <<>>

(* Only into an empty queue does a new message come first.                 *)
LEMMA HeadAppend ==
  ASSUME NEW S, NEW q \in Seq(S), NEW m \in S
  PROVE  /\ Append(q, m) # <<>>
         /\ Head(Append(q, m)) = IF q = <<>> THEN m ELSE Head(q)
<1>1. /\ Append(q, m) \in Seq(S) /\ Len(Append(q, m)) = Len(q) + 1
      /\ Len(q) \in Nat /\ Append(q, m)[Len(q) + 1] = m
      /\ \A i \in 1..Len(q) : Append(q, m)[i] = q[i]
  BY AppendProperties, LenProperties
<1>2. Append(q, m) # <<>>
  BY <1>1, EmptySeq
<1>3. Head(Append(q, m)) = Append(q, m)[1]
  BY <1>1, <1>2
<1>4. CASE q = <<>>
  BY <1>1, <1>2, <1>3, <1>4, EmptySeq
<1>5. CASE q # <<>>
  <2>1. 1 \in 1..Len(q) /\ Head(q) = q[1]
    BY <1>1, <1>5, EmptySeq
  <2> QED
    BY <1>1, <1>2, <1>3, <1>5, <2>1
<1> QED
  BY <1>4, <1>5

(* The manager dispatches the opener before it takes the next request, and *)
(* nobody else puts anything into a queue that is still empty.             *)
LEMMA OpenerCorrect == Steps => []OpenerInv
<1> USE ConstantsAssumption
<1>1. Init => OpenerInv
  BY DEF Init, OpenerInv
<1>2. TypeInv /\ LifeInv /\ OpenerInv /\ [Next]_vars => OpenerInv'
  <2> SUFFICES ASSUME TypeOK, QueueOrder, ThreadInv, StopInv, OpenerInv, [Next]_vars
               PROVE  OpenerInv'
    BY DEF TypeInv, LifeInv
  <2>0. /\ DOMAIN thread = SessionId /\ DOMAIN current = SessionId
        /\ DOMAIN opener = SessionId /\ DOMAIN m_EventQueue = SessionId
        /\ nextId \in Int /\ SessionId \subseteq Int
        /\ \A s \in SessionId : m_EventQueue[s] \in Seq(QueuedMessage)
    BY DEF TypeOK, SessionId
  <2> USE <2>0 DEF OpenerInv, Unborn
  <2>1. CASE UNCHANGED <<mpc, sid, tranInfo, opener, thread, current, m_EventQueue,
                         nextId>>
    BY <2>1
  <2>2. CASE \/ \E r \in Input : SendMessageToMe(r)
             \/ Stop \/ TimerStop \/ OnDisconnect \/ EnterJoin \/ Joined \/ Stopped
             \/ \E s \in SessionId : ClearDetached(s)
             \/ TimerRun \/ UNCHANGED vars
    BY <2>1, <2>2 DEF TimerRun, TimerDispatches, TimerEnds, timerShared,
       SendMessageToMe, Stop, TimerStop, OnDisconnect, EnterJoin, Joined,
       Stopped, ClearDetached, stopShared, mgrVars, sessionVars, vars
  <2>3. CASE UseReceiver \/ NewSessionRefused \/ GetSessionByCallId
    <3>1. /\ mpc = "get" /\ (mpc' = "associate" => sid' = 0)
          /\ UNCHANGED <<opener, thread, current, m_EventQueue, nextId>>
      BY <2>3 DEF UseReceiver, NewSessionRefused, GetSessionByCallId, TakeRequest,
                  sessionVars
    <3> QED
      BY <3>1
  <2>4. CASE NewSession
    <3>1. nextId \in SessionId /\ 0 \notin SessionId
      BY <2>4, QueueOrderTail DEF NewSession, SessionId
    <3>2. /\ mpc = "get" /\ mpc' = "associate" /\ sid' = nextId
          /\ tranInfo' = Head(m_mainqueue) /\ nextId' = nextId + 1
          /\ opener' = [opener EXCEPT ![nextId] = Head(m_mainqueue)]
          /\ thread' = [thread EXCEPT ![nextId] = "get"]
          /\ UNCHANGED <<current, m_EventQueue>>
      BY <2>4 DEF NewSession, TakeRequest
    <3> QED
      BY <3>1, <3>2
  <2>5. CASE AssociateSessionByCallId
    <3>1. /\ mpc = "associate" /\ mpc' = "dispatch"
          /\ UNCHANGED <<sid, tranInfo, opener, thread, current, m_EventQueue,
                         nextId>>
      BY <2>5 DEF AssociateSessionByCallId, sessionVars
    <3> QED
      BY <3>1
  <2>6. CASE Dispatch
    <3>1. /\ mpc = "dispatch" /\ mpc' = "get"
          /\ UNCHANGED <<opener, thread, current, nextId>>
      BY <2>6 DEF Dispatch
    <3>2. CASE sid \in m_Sessions
      <4>1. /\ sid \in SessionId /\ ~Unborn(sid) /\ tranInfo \in QueuedMessage
            /\ m_EventQueue' = [m_EventQueue EXCEPT ![sid] = Append(@, tranInfo)]
        BY <2>6, <3>1, <3>2 DEF Dispatch, ThreadInv, TypeOK, QueuedMessage
      <4>2. /\ m_EventQueue'[sid] # <<>>
            /\ Head(m_EventQueue'[sid]) = IF m_EventQueue[sid] = <<>> THEN tranInfo
                                          ELSE Head(m_EventQueue[sid])
        BY <4>1, HeadAppend
      <4>3. \A s \in SessionId : s # sid => m_EventQueue'[s] = m_EventQueue[s]
        BY <4>1
      <4> QED
        BY <3>1, <4>1, <4>2, <4>3
    <3>3. CASE sid \notin m_Sessions
      <4>1. m_EventQueue' = m_EventQueue
        BY <2>6, <3>3 DEF Dispatch
      <4>2. \A s \in SessionId : thread[s] = "get" => s # sid
        BY <3>3 DEF ThreadInv
      <4> QED
        BY <3>1, <4>1, <4>2
    <3> QED
      BY <3>2, <3>3
  <2>7. CASE ManagerEnds
    <3>1. /\ mpc = "get" /\ mpc' = "ended"
          /\ UNCHANGED <<opener, thread, current, m_EventQueue, nextId>>
      BY <2>7 DEF ManagerEnds, sessionVars
    <3> QED
      BY <3>1
  <2>8. ASSUME NEW s \in SessionId, Get(s) PROVE OpenerInv'
    <3>1. /\ thread[s] = "get" /\ m_EventQueue[s] # <<>>
          /\ \E label \in {"ended", "busy"} :
               thread' = [thread EXCEPT ![s] = label]
          /\ m_EventQueue' = [m_EventQueue EXCEPT ![s] = Tail(@)]
          /\ \/ current' = current
             \/ current' = [current EXCEPT ![s] = Head(m_EventQueue[s])]
          /\ UNCHANGED <<mpc, sid, tranInfo, opener, nextId>>
      BY <2>8 DEF Get, sessionShared, mgrVars
    <3>2. Head(m_EventQueue[s]) = opener[s] /\ ~Unborn(s)
      BY <3>1 DEF ThreadInv
    <3> QED
      BY <3>1, <3>2
  <2>9. ASSUME NEW s \in SessionId,
               \/ GetTimesOut(s) \/ HandleMessage(s) \/ HandlerThrows(s) \/ Detach(s)
               \/ RemoveSession(s) \/ RemoveSessionThrows(s) \/ Release(s)
        PROVE  OpenerInv'
    <3>1. /\ \E label \in {"closing", "ended", "detached", "removed"} :
               thread' = [thread EXCEPT ![s] = label]
          /\ UNCHANGED <<m_EventQueue, current>>
      BY <2>9 DEF GetTimesOut, HandleMessage, HandlerThrows, Detach, RemoveSession,
                  EraseSession, RemoveSessionThrows, Release
    <3>2. UNCHANGED <<mpc, sid, tranInfo, opener, nextId>>
      BY <2>9 DEF GetTimesOut, HandleMessage, HandlerThrows, Detach, RemoveSession,
                  RemoveSessionThrows, Release, sessionShared, mgrVars
    <3> QED
      BY <3>1, <3>2
  <2>10. ASSUME NEW s \in SessionId, ClearAttached(s) PROVE OpenerInv'
    <3>1. /\ mpc = "ended" /\ s \in m_Sessions
          /\ m_EventQueue' = [m_EventQueue EXCEPT ![s] = Append(@, ManagerStop)]
          /\ UNCHANGED <<mpc, sid, tranInfo, opener, thread, current, nextId>>
      BY <2>10 DEF ClearAttached, StopInv, stopShared, mgrVars
    <3>2. /\ m_EventQueue'[s] # <<>>
          /\ m_EventQueue[s] # <<>> =>
               Head(m_EventQueue'[s]) = Head(m_EventQueue[s])
      BY <3>1, HeadAppend, MessageKinds
    <3>3. ~Unborn(s)
      BY <3>1 DEF ThreadInv
    <3>4. \A t \in SessionId : t # s => m_EventQueue'[t] = m_EventQueue[t]
      BY <3>1
    <3> QED
      BY <3>1, <3>2, <3>3, <3>4
  <2> QED
    BY <2>2, <2>3, <2>4, <2>5, <2>6, <2>7, <2>8, <2>9, <2>10
       DEF Next, Manager, Session, Stopping, Terminated
<1>3. QED
  BY <1>1, <1>2, TypeInvCorrect, LifeCorrect, PTL DEF Steps

(* Whatever is dispatched to a session by its id or by call id, and        *)
(* whenever, the one message it handles is the one it was created for.     *)
THEOREM HandlesOpener == Steps => []HandlesItsOpener
<1>1. OpenerInv => HandlesItsOpener
  BY DEF OpenerInv, HandlesItsOpener
<1> QED
  BY <1>1, OpenerCorrect, PTL

(* Every session's thread finds a message, or the manager is about to put  *)
(* it there.                                                               *)
THEOREM NobodyIdle == Steps => []NoIdleSession
<1>1. LifeInv /\ OpenerInv => NoIdleSession
  BY DEF LifeInv, ThreadInv, OpenerInv, NoIdleSession
<1> QED
  BY <1>1, LifeCorrect, OpenerCorrect, PTL

(* The message of Stop stays in a queue until it is taken ...              *)
LEMMA StopStays ==
  ASSUME NEW q \in Seq(QueuedMessage), HasStop(q), ~IsStop(Head(q))
  PROVE  HasStop(Tail(q))
<1>1. PICK i \in 1..Len(q) : IsStop(q[i])
  BY DEF HasStop
<1>2. q # <<>> /\ Len(q) \in Nat
  BY <1>1, EmptySeq
<1>3. /\ Len(Tail(q)) = Len(q) - 1 /\ Head(q) = q[1]
      /\ \A j \in 1..Len(Tail(q)) : Tail(q)[j] = q[j + 1]
  BY <1>2, HeadTailProperties
<1>4. i - 1 \in 1..Len(Tail(q)) /\ Tail(q)[i - 1] = q[i]
  BY <1>1, <1>2, <1>3
<1> QED
  BY <1>1, <1>4 DEF HasStop

(* ... whatever is put behind it.                                          *)
LEMMA StopPut ==
  ASSUME NEW q \in Seq(QueuedMessage), NEW m \in QueuedMessage,
         HasStop(q) \/ IsStop(m)
  PROVE  HasStop(Append(q, m))
<1>1. /\ Len(Append(q, m)) = Len(q) + 1 /\ Len(q) \in Nat
      /\ Append(q, m)[Len(q) + 1] = m
      /\ \A i \in 1..Len(q) : Append(q, m)[i] = q[i]
  BY AppendProperties, LenProperties
<1> QED
  BY <1>1 DEF HasStop

(* Whoever Stop waits for has been told: the manager by the message in its *)
(* queue, a session by the one clear() has put before it joins the thread. *)
THEOREM StopIsHeard == Steps => []StopHeard
<1> USE ConstantsAssumption
<1>1. Init => StopHeard
  BY DEF Init, StopHeard
<1>2. TypeInv /\ LifeInv /\ StopHeard /\ [Next]_vars => StopHeard'
  <2> SUFFICES ASSUME TypeOK, ThreadInv, StopInv, StopHeard, [Next]_vars
               PROVE  StopHeard'
    BY DEF TypeInv, LifeInv
  <2>0. /\ m_mainqueue \in Seq(QueuedMessage) /\ 0 \notin SessionId
        /\ m_EventQueue \in [SessionId -> Seq(QueuedMessage)]
        /\ DOMAIN thread = SessionId /\ destroying \in {0} \cup SessionId
    BY DEF TypeOK, SessionId
  <2> USE <2>0 DEF StopHeard
  <2>1. CASE UNCHANGED <<m_mainqueue, mpc, timer, stop, destroying, thread,
                        m_EventQueue>>
    BY <2>1
  <2>2. ASSUME NEW r \in Input, SendMessageToMe(r) PROVE StopHeard'
    <3>1. /\ UNCHANGED <<mpc, timer, stop, destroying, thread, m_EventQueue>>
          /\ m_mainqueue' = Append(m_mainqueue, [n |-> arrived + 1, req |-> r])
      BY <2>2 DEF SendMessageToMe, mgrVars, sessionVars, stopVars
    <3>2. [n |-> arrived + 1, req |-> r] \in QueuedMessage
      <4>1. arrived + 1 \in 1..NumMsgs
        BY <2>2 DEF SendMessageToMe, TypeOK
      <4> QED
        BY <4>1 DEF QueuedMessage, Message
    <3>3. HasStop(m_mainqueue) => HasStop(m_mainqueue')
      BY <3>1, <3>2, StopPut
    <3> QED
      BY <3>1, <3>3
  <2>3. CASE UseReceiver \/ NewSession \/ NewSessionRefused \/ GetSessionByCallId
    <3>1. /\ mpc = "get" /\ UNCHANGED <<timer, stop, destroying>>
          /\ m_mainqueue' = Tail(m_mainqueue) /\ ~IsStop(Head(m_mainqueue))
      BY <2>3 DEF UseReceiver, NewSession, NewSessionRefused, GetSessionByCallId,
                  TakeRequest, stopVars
    <3>2. HasStop(m_mainqueue) => HasStop(m_mainqueue')
      BY <3>1, StopStays
    <3>3. destroying = 0
      BY <3>1 DEF StopInv
    <3> QED
      BY <3>1, <3>2, <3>3
  <2>4. CASE AssociateSessionByCallId \/ Dispatch
    <3>1. /\ UNCHANGED <<m_mainqueue, timer, stop, destroying>>
          /\ mpc # "ended"
      BY <2>4 DEF AssociateSessionByCallId, Dispatch, stopVars
    <3> QED
      BY <3>1 DEF StopInv
  <2>5. CASE ManagerEnds
    BY <2>5 DEF ManagerEnds, sessionVars, stopVars
  <2>6. ASSUME NEW s \in SessionId, Get(s) PROVE StopHeard'
    <3>1. /\ UNCHANGED <<m_mainqueue, mpc, timer, stop, destroying>>
          /\ \E label \in {"ended", "busy"} :
               thread' = [thread EXCEPT ![s] = label]
          /\ m_EventQueue' = [m_EventQueue EXCEPT ![s] = Tail(@)]
      BY <2>6 DEF Get, sessionShared, mgrVars
    <3> QED
      BY <3>1
  <2>7. ASSUME NEW s \in SessionId,
               \/ GetTimesOut(s) \/ HandleMessage(s) \/ HandlerThrows(s) \/ Detach(s)
               \/ RemoveSession(s) \/ RemoveSessionThrows(s) \/ Release(s)
        PROVE  StopHeard'
    <3>1. /\ \E label \in {"closing", "ended", "detached", "removed"} :
               thread' = [thread EXCEPT ![s] = label]
          /\ UNCHANGED m_EventQueue
      BY <2>7 DEF GetTimesOut, HandleMessage, HandlerThrows, Detach, RemoveSession,
                  EraseSession, RemoveSessionThrows, Release
    <3>2. UNCHANGED <<m_mainqueue, mpc, timer, stop, destroying>>
      BY <2>7 DEF GetTimesOut, HandleMessage, HandlerThrows, Detach, RemoveSession,
                  RemoveSessionThrows, Release, sessionShared, mgrVars
    <3> QED
      BY <3>1, <3>2
  <2>8. CASE Stop
    <3>1. /\ UNCHANGED <<destroying, mpc, thread, m_EventQueue>>
          /\ stop = "no" /\ stop' = "asked"
          /\ m_mainqueue' = Append(m_mainqueue, ManagerStop)
      BY <2>8 DEF Stop, stopShared, mgrVars
    <3>2. HasStop(m_mainqueue')
      BY <3>1, StopPut, MessageKinds
    <3> QED
      BY <3>1, <3>2
  <2>9. CASE OnDisconnect \/ EnterJoin \/ Joined \/ Stopped
    <3>1. /\ UNCHANGED <<mpc, timer, thread, m_EventQueue, m_mainqueue>>
          /\ destroying' = destroying \/ destroying' = 0
      BY <2>9 DEF OnDisconnect, EnterJoin, Joined, Stopped, stopShared, mgrVars
    <3>2. \/ stop' = stop
          \/ stop' = "clearing" /\ stop = "timer"
          \/ stop' = "done" /\ destroying' = 0
      BY <2>9 DEF OnDisconnect, EnterJoin, Joined, Stopped
    <3> QED
      BY <3>1, <3>2
  <2>10. ASSUME NEW s \in SessionId, ClearAttached(s) PROVE StopHeard'
    <3>1. /\ UNCHANGED <<mpc, thread, m_mainqueue, timer, stop>>
          /\ stop = "clearing" /\ s \in m_Sessions /\ destroying' = s
          /\ m_EventQueue' = [m_EventQueue EXCEPT ![s] = Append(@, ManagerStop)]
      BY <2>10 DEF ClearAttached, stopShared, mgrVars
    <3>2. HasStop(m_EventQueue'[s])
      BY <3>1, StopPut, MessageKinds
    <3>3. thread[s] # "none"
      BY <3>1 DEF ThreadInv
    <3> QED
      BY <3>1, <3>2, <3>3
  <2>11. CASE (\E s \in SessionId : ClearDetached(s)) \/ UNCHANGED vars
    BY <2>1, <2>11 DEF ClearDetached, stopShared, mgrVars, sessionVars, stopVars, vars
  <2>12. CASE TimerStop
    <3>1. /\ UNCHANGED <<mpc, destroying, thread, m_EventQueue, m_mainqueue>>
          /\ stop = "asked" /\ stop' = "timer"
      BY <2>12 DEF TimerStop, stopShared, mgrVars
    <3>2. timer' \in {"missed", "leaving", "ended"}
      BY <2>12 DEF TimerStop, ToldToLeave, TimerState, TypeOK
    <3> QED
      BY <3>1, <3>2
  <2>13. CASE TimerRun
    <3>1. UNCHANGED <<m_mainqueue, mpc, stop, destroying, thread, m_EventQueue>>
      BY <2>13 DEF TimerRun, TimerDispatches, TimerEnds, timerShared, mgrVars,
                   sessionVars
    <3>2. timer = "starting" \/ timer' = "ended"
      BY <2>13 DEF TimerRun, TimerDispatches, TimerEnds
    <3> QED
      BY <3>1, <3>2
  <2> QED
    BY <2>2, <2>3, <2>4, <2>5, <2>6, <2>7, <2>8, <2>9, <2>10, <2>11, <2>12, <2>13
       DEF Next, Manager, Session, Stopping, Terminated
<1>3. QED
  BY <1>1, <1>2, TypeInvCorrect, LifeCorrect, PTL DEF Steps

(* Only HandleMessage answers, and a thread comes by it once.              *)
THEOREM AnsweredOnce == Steps => []OneReply
<1> DEFINE Once == \A s \in SessionId :
                     /\ replies[s] \in {0, 1}
                     /\ replies[s] = 1 =>
                          /\ thread[s] \notin {"none", "get", "busy"}
                          /\ current[s] # NoMessage
                          /\ current[s].req.cmd \in RequestCmd
<1> USE ConstantsAssumption
<1>1. Init => Once
  BY DEF Init
<1>2. TypeInv /\ LifeInv /\ Once /\ [Next]_vars => Once'
  <2> SUFFICES ASSUME TypeOK, QueueOrder, BusyHolds, ThreadInv, Once, [Next]_vars
               PROVE  Once'
    BY DEF TypeInv, LifeInv
  <2>0. /\ DOMAIN thread = SessionId /\ DOMAIN current = SessionId
        /\ DOMAIN replies = SessionId
    BY DEF TypeOK
  <2> USE <2>0
  <2>1. CASE UNCHANGED <<thread, current, replies>>
    BY <2>1
  <2>2. CASE \/ \E r \in Input : SendMessageToMe(r)
             \/ UseReceiver \/ NewSessionRefused \/ GetSessionByCallId
             \/ AssociateSessionByCallId \/ Dispatch \/ ManagerEnds
             \/ Stop \/ Stopping \/ TimerRun \/ UNCHANGED vars
    BY <2>1, <2>2 DEF TimerRun, TimerDispatches, TimerEnds, timerShared,
       SendMessageToMe, UseReceiver, NewSessionRefused,
       GetSessionByCallId, AssociateSessionByCallId, Dispatch, ManagerEnds,
       Stop, Stopping, TimerStop, OnDisconnect, EnterJoin, Joined, Stopped, ClearAttached,
       ClearDetached, stopShared, sessionVars, vars
  <2>3. CASE NewSession
    <3>1. /\ nextId \in SessionId /\ thread[nextId] = "none"
          /\ thread' = [thread EXCEPT ![nextId] = "get"]
          /\ UNCHANGED <<current, replies>>
      BY <2>3, QueueOrderTail DEF NewSession, ThreadInv, Unborn, TypeOK
    <3> QED
      BY <3>1
  <2>4. ASSUME NEW s \in SessionId, Get(s) PROVE Once'
    <3>1. /\ thread[s] = "get" /\ UNCHANGED replies
          /\ \E label \in {"ended", "busy"} :
               thread' = [thread EXCEPT ![s] = label]
          /\ \/ current' = current
             \/ current' = [current EXCEPT ![s] = Head(m_EventQueue[s])]
      BY <2>4 DEF Get
    <3> QED
      BY <3>1
  <2>5. ASSUME NEW s \in SessionId, HandleMessage(s) PROVE Once'
    <3>1. /\ thread[s] = "busy" /\ current' = current
          /\ thread' = [thread EXCEPT ![s] = "closing"]
          /\ \/ replies' = replies
             \/ /\ replies' = [replies EXCEPT ![s] = @ + 1]
                /\ current[s].req.cmd \in RequestCmd
      BY <2>5 DEF HandleMessage
    <3>2. replies[s] = 0 /\ current[s] # NoMessage
      BY <3>1, MessageKinds DEF BusyHolds, NoMessage, IsStop
    <3> QED
      BY <3>1, <3>2
  <2>6. ASSUME NEW s \in SessionId,
               \/ GetTimesOut(s) \/ HandlerThrows(s) \/ Detach(s)
               \/ RemoveSession(s) \/ RemoveSessionThrows(s) \/ Release(s)
        PROVE  Once'
    <3>1. /\ \E label \in {"closing", "ended", "detached", "removed"} :
               thread' = [thread EXCEPT ![s] = label]
          /\ UNCHANGED <<replies, current>>
      BY <2>6 DEF GetTimesOut, HandlerThrows, Detach, RemoveSession,
                  EraseSession, RemoveSessionThrows, Release
    <3> QED
      BY <3>1
  <2> QED
    BY <2>2, <2>3, <2>4, <2>5, <2>6 DEF Next, Manager, Session, Terminated
<1>3. OpenerInv /\ Once => OneReply
  BY DEF OpenerInv, OneReply
<1>4. QED
  BY <1>1, <1>2, <1>3, TypeInvCorrect, LifeCorrect, OpenerCorrect, PTL DEF Steps

(* A call id leads to a session that was opened with it.                   *)
THEOREM CallMapCorrect == Steps => []CallMapFaithful
<1> USE ConstantsAssumption DEF CallMapFaithful
<1>1. Init => CallMapFaithful
  BY DEF Init, SessionId, Unmapped
<1>2. TypeInv /\ OpenerInv /\ CallMapFaithful /\ [Next]_vars => CallMapFaithful'
  <2> SUFFICES ASSUME TypeOK, QueueOrder, OpenerInv, CallMapFaithful, [Next]_vars
               PROVE  CallMapFaithful'
    BY DEF TypeInv
  <2>0. Unmapped \notin SessionId /\ 0 \notin SessionId
    BY DEF SessionId, Unmapped
  <2>1. ASSUME opener' = opener,
               \A c \in CallId : m_Callid2SessionMap'[c] \in
                                   {m_Callid2SessionMap[c], Unmapped}
        PROVE  CallMapFaithful'
    BY <2>0, <2>1
  <2>2. CASE UNCHANGED <<opener, m_Callid2SessionMap>>
    BY <2>1, <2>2
  <2>3. CASE NewSession
    <3>1. nextId \in SessionId /\ opener[nextId] = NoMessage
      BY <2>3, QueueOrderTail DEF NewSession, OpenerInv, Unborn, TypeOK
    <3>2. /\ opener' = [opener EXCEPT ![nextId] = Head(m_mainqueue)]
          /\ m_Callid2SessionMap' = m_Callid2SessionMap
      BY <2>3 DEF NewSession
    <3>3. \A c \in CallId : m_Callid2SessionMap[c] # nextId
      BY <3>1
    <3> QED
      BY <3>1, <3>2, <3>3 DEF TypeOK
  <2>4. CASE AssociateSessionByCallId
    <3>1. opener' = opener /\ mpc = "associate" /\ tranInfo \in Message
      BY <2>4 DEF AssociateSessionByCallId, sessionVars, TypeOK
    <3>2. tranInfo # NoMessage
      BY <3>1, MessageKinds DEF NoMessage, IsStop
    <3>3. ASSUME NEW c \in CallId, m_Callid2SessionMap'[c] # m_Callid2SessionMap[c]
          PROVE  m_Callid2SessionMap'[c] = sid /\ tranInfo.req.callid = c
      BY <2>4, <3>3 DEF AssociateSessionByCallId, TypeOK
    <3>4. sid \in SessionId => opener[sid] = tranInfo
      BY <2>0, <3>1 DEF OpenerInv
    <3> QED
      BY <3>1, <3>2, <3>3, <3>4
  <2>5. CASE \/ \E r \in Input : SendMessageToMe(r)
             \/ UseReceiver \/ NewSessionRefused \/ GetSessionByCallId
             \/ Dispatch \/ ManagerEnds \/ TimerRun \/ UNCHANGED vars
    BY <2>2, <2>5 DEF TimerRun, TimerDispatches, TimerEnds, timerShared,
       SendMessageToMe, UseReceiver, NewSessionRefused,
       GetSessionByCallId, Dispatch, ManagerEnds, sessionVars, vars
  <2>6. ASSUME NEW s \in SessionId, Session(s) \/ GetTimesOut(s)
        PROVE  CallMapFaithful'
    <3>1. opener' = opener
      BY <2>6 DEF Session, Get, GetTimesOut, HandleMessage, HandlerThrows, Detach,
         RemoveSession, RemoveSessionThrows, Release, sessionShared
    <3>2. \/ m_Callid2SessionMap' = m_Callid2SessionMap
          \/ m_Callid2SessionMap' =
               [m_Callid2SessionMap EXCEPT ![CallKey(s)] = Unmapped]
      BY <2>6 DEF Session, Get, GetTimesOut, HandleMessage, HandlerThrows, Detach,
         RemoveSession, EraseSession, RemoveSessionThrows, Release
    <3> QED
      BY <2>1, <3>1, <3>2 DEF TypeOK
  <2>7. CASE Stop \/ Stopping
    <3>1. opener' = opener
      BY <2>7 DEF Stop, Stopping, TimerStop, OnDisconnect, EnterJoin, Joined, Stopped,
         ClearAttached, ClearDetached, stopShared
    <3>2. \/ m_Callid2SessionMap' = m_Callid2SessionMap
          \/ m_Callid2SessionMap' = [c \in CallId |-> Unmapped]
      BY <2>7 DEF Stop, Stopping, TimerStop, OnDisconnect, EnterJoin, Joined, Stopped,
         ClearAttached, ClearDetached
    <3> QED
      BY <2>1, <3>1, <3>2
  <2> QED
    BY <2>3, <2>4, <2>5, <2>6, <2>7 DEF Next, Manager, Terminated
<1>3. QED
  BY <1>1, <1>2, TypeInvCorrect, OpenerCorrect, PTL DEF Steps

(* What the manager is about to dispatch is meant for the session it has   *)
(* found.                                                                  *)
AimInv ==
  mpc = "dispatch" /\ tranInfo.req.receiver = 0 /\ sid \in SessionId =>
    MeantFor(sid, tranInfo)

StrayInv == AimInv /\ NoStraying

(* A message put behind a queue in which nothing strays.                   *)
LEMMA StrayPut ==
  ASSUME TypeOK, NoStraying, UNCHANGED opener, NEW s \in SessionId,
         NEW m \in QueuedMessage,
         m_EventQueue' = [m_EventQueue EXCEPT ![s] = Append(@, m)],
         ~IsStop(m) /\ m.req.receiver = 0 => MeantFor(s, m)
  PROVE  NoStraying'
<1> SUFFICES ASSUME NEW t \in SessionId, NEW i \in 1..Len(m_EventQueue'[t]),
                    ~IsStop(m_EventQueue'[t][i]),
                    m_EventQueue'[t][i].req.receiver = 0
             PROVE  MeantFor(t, m_EventQueue'[t][i])
  BY DEF NoStraying, MeantFor, IsStop
<1>1. CASE t # s
  BY <1>1 DEF NoStraying, TypeOK
<1>2. CASE t = s
  <2>1. /\ m_EventQueue[s] \in Seq(QueuedMessage)
        /\ m_EventQueue'[s] = Append(m_EventQueue[s], m)
    BY DEF TypeOK
  <2>2. /\ Len(m_EventQueue'[s]) = Len(m_EventQueue[s]) + 1
        /\ Len(m_EventQueue[s]) \in Nat
        /\ m_EventQueue'[s][Len(m_EventQueue[s]) + 1] = m
        /\ \A j \in 1..Len(m_EventQueue[s]) :
             m_EventQueue'[s][j] = m_EventQueue[s][j]
    BY <2>1, AppendProperties, LenProperties
  <2>3. CASE i \in 1..Len(m_EventQueue[s])
    BY <1>2, <2>2, <2>3 DEF NoStraying
  <2>4. CASE i = Len(m_EventQueue[s]) + 1
    BY <1>2, <2>2, <2>4
  <2> QED
    BY <1>2, <2>2, <2>3, <2>4
<1> QED
  BY <1>1, <1>2

(* Between the lookup in the map of the call ids and the dispatch sessions *)
(* may go and call ids be erased: what was found is still meant.           *)
THEOREM NothingStrays == Steps => []NoStraying
<1> USE ConstantsAssumption
<1>1. Init => StrayInv
  BY EmptySeq DEF Init, StrayInv, AimInv, NoStraying
<1>2. /\ TypeInv /\ LifeInv /\ OpenerInv /\ CallMapFaithful /\ StrayInv
      /\ [Next]_vars
      => StrayInv'
  <2> SUFFICES ASSUME TypeOK, QueueOrder, ThreadInv, OpenerInv, CallMapFaithful,
                      AimInv, NoStraying, [Next]_vars
               PROVE  AimInv' /\ NoStraying'
    BY DEF TypeInv, LifeInv, StrayInv
  <2>0. /\ DOMAIN opener = SessionId /\ DOMAIN m_EventQueue = SessionId
        /\ 0 \notin SessionId
    BY DEF TypeOK, SessionId
  <2>1. ASSUME UNCHANGED <<opener, m_EventQueue>> PROVE NoStraying'
    BY <2>1 DEF NoStraying, MeantFor, IsStop
  <2>2. ASSUME UNCHANGED <<opener, mpc, tranInfo, sid>> PROVE AimInv'
    BY <2>2 DEF AimInv, MeantFor
  <2>3. CASE (\E r \in Input : SendMessageToMe(r)) \/ UNCHANGED vars
    BY <2>1, <2>2, <2>3 DEF SendMessageToMe, mgrVars, sessionVars, vars
  <2>4. CASE UseReceiver
    <3>1. /\ tranInfo' = Head(m_mainqueue) /\ Head(m_mainqueue).req.receiver # 0
          /\ UNCHANGED <<opener, m_EventQueue>>
      BY <2>4 DEF UseReceiver, TakeRequest, request, sessionVars
    <3> QED
      BY <2>1, <3>1 DEF AimInv
  <2>5. CASE NewSession
    <3>1. /\ nextId \in SessionId /\ m_EventQueue[nextId] = <<>>
          /\ mpc' = "associate" /\ UNCHANGED m_EventQueue
          /\ opener' = [opener EXCEPT ![nextId] = Head(m_mainqueue)]
      BY <2>5, QueueOrderTail DEF NewSession, OpenerInv, Unborn, SessionId
    <3>2. ASSUME NEW s \in SessionId, NEW i \in 1..Len(m_EventQueue[s])
          PROVE  opener'[s] = opener[s]
      BY <2>0, <3>1, <3>2, EmptySeq
    <3> QED
      BY <3>1, <3>2 DEF AimInv, NoStraying, MeantFor, IsStop
  <2>6. CASE NewSessionRefused \/ ManagerEnds
    BY <2>1, <2>6 DEF NewSessionRefused, ManagerEnds, AimInv, sessionVars
  <2>7. CASE GetSessionByCallId
    <3>1. /\ tranInfo' = Head(m_mainqueue) /\ request.cmd \notin OpeningCmd
          /\ UNCHANGED <<opener, m_EventQueue>>
          /\ sid' \in SessionId =>
               /\ request.callid \in CallId
               /\ sid' = m_Callid2SessionMap[request.callid]
      BY <2>0, <2>7 DEF GetSessionByCallId, TakeRequest, sessionVars
    <3>2. sid' \in SessionId => opener[sid'].req.callid = request.callid
      BY <3>1 DEF CallMapFaithful
    <3> QED
      BY <2>1, <3>1, <3>2 DEF AimInv, MeantFor, request
  <2>8. CASE AssociateSessionByCallId
    <3>1. UNCHANGED <<tranInfo, sid, opener, m_EventQueue>> /\ mpc = "associate"
      BY <2>8 DEF AssociateSessionByCallId, sessionVars
    <3> QED
      BY <2>0, <2>1, <3>1 DEF AimInv, MeantFor, OpenerInv
  <2>9. CASE Dispatch
    <3>1. /\ mpc = "dispatch" /\ mpc' = "get" /\ UNCHANGED opener
          /\ m_EventQueue' = IF sid \in m_Sessions
                             THEN [m_EventQueue EXCEPT ![sid] = Append(@, tranInfo)]
                             ELSE m_EventQueue
      BY <2>9 DEF Dispatch
    <3>2. CASE sid \in m_Sessions
      <4>1. /\ sid \in SessionId /\ tranInfo \in QueuedMessage
            /\ m_EventQueue' = [m_EventQueue EXCEPT ![sid] = Append(@, tranInfo)]
        BY <3>1, <3>2 DEF TypeOK, QueuedMessage
      <4>2. tranInfo.req.receiver = 0 => MeantFor(sid, tranInfo)
        BY <3>1, <4>1 DEF AimInv
      <4>3. NoStraying'
        BY <3>1, <4>1, <4>2, StrayPut
      <4> QED
        BY <3>1, <4>3 DEF AimInv
    <3>3. CASE sid \notin m_Sessions
      BY <2>1, <3>1, <3>3 DEF AimInv
    <3> QED
      BY <3>2, <3>3
  <2>10. ASSUME NEW s \in SessionId, Get(s) PROVE AimInv' /\ NoStraying'
    <3>1. /\ UNCHANGED <<opener, mpc, tranInfo, sid>> /\ m_EventQueue[s] # <<>>
          /\ m_EventQueue' = [m_EventQueue EXCEPT ![s] = Tail(@)]
      BY <2>10 DEF Get, sessionShared, mgrVars
    <3>2. ASSUME NEW t \in SessionId, NEW i \in 1..Len(m_EventQueue'[t])
          PROVE  \E j \in 1..Len(m_EventQueue[t]) :
                   m_EventQueue'[t][i] = m_EventQueue[t][j]
      <4>1. CASE t # s
        BY <2>0, <3>1, <3>2, <4>1
      <4>2. CASE t = s
        <5>1. m_EventQueue[s] \in Seq(QueuedMessage) /\ m_EventQueue'[s] = Tail(m_EventQueue[s])
          BY <2>0, <3>1 DEF TypeOK
        <5>2. /\ Len(m_EventQueue[s]) \in Nat
              /\ Len(m_EventQueue'[s]) = Len(m_EventQueue[s]) - 1
              /\ m_EventQueue'[s][i] = m_EventQueue[s][i + 1]
          BY <3>1, <3>2, <4>2, <5>1, HeadTailProperties, LenProperties
        <5>3. i + 1 \in 1..Len(m_EventQueue[s])
          BY <3>2, <4>2, <5>2
        <5> QED
          BY <4>2, <5>2, <5>3
      <4> QED
        BY <4>1, <4>2
    <3>3. NoStraying'
      BY <3>1, <3>2 DEF NoStraying, MeantFor, IsStop
    <3> QED
      BY <2>2, <3>1, <3>3
  <2>11. ASSUME NEW s \in SessionId,
                \/ GetTimesOut(s) \/ HandleMessage(s) \/ HandlerThrows(s) \/ Detach(s)
                \/ RemoveSession(s) \/ RemoveSessionThrows(s) \/ Release(s)
         PROVE  AimInv' /\ NoStraying'
    BY <2>1, <2>2, <2>11 DEF GetTimesOut, HandleMessage, HandlerThrows, Detach,
       RemoveSession, RemoveSessionThrows, Release, sessionShared, mgrVars
  <2>12. ASSUME NEW s \in SessionId, ClearAttached(s) PROVE AimInv' /\ NoStraying'
    <3>1. /\ UNCHANGED <<opener, mpc, tranInfo, sid>>
          /\ m_EventQueue' = [m_EventQueue EXCEPT ![s] = Append(@, ManagerStop)]
      BY <2>12 DEF ClearAttached, stopShared, mgrVars
    <3>2. NoStraying'
      BY <3>1, StrayPut, MessageKinds
    <3> QED
      BY <2>2, <3>1, <3>2
  <2>13. CASE \/ TimerRun \/ Stop \/ TimerStop \/ OnDisconnect \/ EnterJoin
              \/ Joined \/ Stopped \/ \E s \in SessionId : ClearDetached(s)
    BY <2>1, <2>2, <2>13 DEF TimerRun, TimerDispatches, TimerEnds, timerShared, Stop,
       TimerStop, OnDisconnect, EnterJoin, Joined, Stopped, ClearDetached,
       stopShared, mgrVars, sessionVars
  <2> QED
    BY <2>3, <2>4, <2>5, <2>6, <2>7, <2>8, <2>9, <2>10, <2>11, <2>12, <2>13
       DEF Next, Manager, Session, Stopping, Terminated
<1>3. StrayInv => NoStraying
  BY DEF StrayInv
<1> QED
  BY <1>1, <1>2, <1>3, TypeInvCorrect, LifeCorrect, OpenerCorrect, CallMapCorrect, PTL
     DEF Steps
-----------------------------------------------------------------------------
(* What is in a place of session s: its current message, or one that is    *)
(* queued for it.                                                          *)
Slots(s) == 0..Len(m_EventQueue[s])
Holds(s, k) == IF k = 0 THEN current[s].n ELSE m_EventQueue[s][k].n

(* Requests that wait are younger than the one in the manager's hand, and  *)
(* that one is younger than any the sessions have; no two of these are the *)
(* same.                                                                   *)
OnceInv ==
  /\ tranInfo.n <= arrived
  /\ \A i \in 1..Len(m_mainqueue) :
       ~IsStop(m_mainqueue[i]) => tranInfo.n < m_mainqueue[i].n
  /\ \A s \in SessionId : \A k \in Slots(s) :
       /\ Holds(s, k) <= arrived
       /\ tranInfo.n # 0 => Holds(s, k) < tranInfo.n
       /\ \A i \in 1..Len(m_mainqueue) :
            ~IsStop(m_mainqueue[i]) => Holds(s, k) < m_mainqueue[i].n
  /\ \A s, t \in SessionId : \A k \in Slots(s), l \in Slots(t) :
       Holds(s, k) = Holds(t, l) /\ Holds(s, k) # 0 => s = t /\ k = l

(* The numbers are numbers. *)
LEMMA Numbers ==
  ASSUME TypeOK
  PROVE  /\ tranInfo.n \in Nat /\ arrived \in Nat
         /\ \A s \in SessionId :
              /\ Len(m_EventQueue[s]) \in Nat
              /\ \A k \in Slots(s) : Holds(s, k) \in Nat
         /\ Len(m_mainqueue) \in Nat
         /\ \A i \in 1..Len(m_mainqueue) : m_mainqueue[i].n \in Nat
<1>1. \A m \in QueuedMessage \cup HeldMessage : m.n \in Nat
  BY ConstantsAssumption
     DEF QueuedMessage, HeldMessage, Message, ManagerStop, NoMessage
<1>2. \A i \in 1..Len(m_mainqueue) : m_mainqueue[i] \in QueuedMessage
  BY ElementOfSeq DEF TypeOK
<1>3. ASSUME NEW s \in SessionId
      PROVE  /\ Len(m_EventQueue[s]) \in Nat
             /\ \A k \in Slots(s) : Holds(s, k) \in Nat
  <2>1. m_EventQueue[s] \in Seq(QueuedMessage) /\ current[s] \in HeldMessage
    BY DEF TypeOK
  <2>2. \A k \in 1..Len(m_EventQueue[s]) : m_EventQueue[s][k] \in QueuedMessage
    BY <2>1, ElementOfSeq
  <2>3. Len(m_EventQueue[s]) \in Nat
    BY <2>1
  <2>4. \A k \in Slots(s) : k # 0 => k \in 1..Len(m_EventQueue[s])
    BY <2>3 DEF Slots
  <2> QED
    BY <1>1, <2>1, <2>2, <2>3, <2>4 DEF Holds
<1> QED
  BY <1>1, <1>2, <1>3, LenProperties, ConstantsAssumption DEF TypeOK

(* When the manager's side stands still and every place holds nothing, or  *)
(* what some place of its own held before, OnceInv is kept.                *)
LEMMA OnceMoved ==
  ASSUME TypeOK, OnceInv, UNCHANGED <<m_mainqueue, arrived, tranInfo>>,
         NEW u \in SessionId, NEW f,
         \A k \in Slots(u)' : f[k] \in Slots(u) \cup {-1},
         \A k \in Slots(u)' : f[k] = -1 => Holds(u, k)' = 0,
         \A k \in Slots(u)' : f[k] # -1 => Holds(u, k)' = Holds(u, f[k]),
         \A k, l \in Slots(u)' : f[k] = f[l] /\ f[k] # -1 => k = l,
         \A s \in SessionId \ {u} :
           Slots(s)' = Slots(s) /\ \A k \in Slots(s) : Holds(s, k)' = Holds(s, k)
  PROVE  OnceInv'
<1>1. \A s \in SessionId : \A k \in Slots(s)' :
        \/ Holds(s, k)' = 0
        \/ \E l \in Slots(s) : /\ Holds(s, k)' = Holds(s, l)
                               /\ IF s = u THEN l = f[k] ELSE l = k
  OBVIOUS
<1>2. \A s \in SessionId : \A k \in Slots(s)' :
        /\ Holds(s, k)' <= arrived
        /\ tranInfo.n # 0 => Holds(s, k)' < tranInfo.n
        /\ \A i \in 1..Len(m_mainqueue) :
             ~IsStop(m_mainqueue[i]) => Holds(s, k)' < m_mainqueue[i].n
  <2> SUFFICES ASSUME NEW s \in SessionId, NEW k \in Slots(s)'
               PROVE  /\ Holds(s, k)' <= arrived
                      /\ tranInfo.n # 0 => Holds(s, k)' < tranInfo.n
                      /\ \A i \in 1..Len(m_mainqueue) :
                           ~IsStop(m_mainqueue[i]) => Holds(s, k)' < m_mainqueue[i].n
    OBVIOUS
  <2>1. CASE Holds(s, k)' = 0
    BY <2>1, Numbers DEF IsStop
  <2>2. CASE Holds(s, k)' # 0
    <3>1. PICK l \in Slots(s) : Holds(s, k)' = Holds(s, l)
      BY <1>1, <2>2
    <3> QED
      BY <3>1 DEF OnceInv
  <2> QED
    BY <2>1, <2>2
<1>3. \A s, t \in SessionId : \A k \in Slots(s)', l \in Slots(t)' :
        Holds(s, k)' = Holds(t, l)' /\ Holds(s, k)' # 0 => s = t /\ k = l
  <2> SUFFICES ASSUME NEW s \in SessionId, NEW t \in SessionId,
                      NEW k \in Slots(s)', NEW l \in Slots(t)',
                      Holds(s, k)' = Holds(t, l)', Holds(s, k)' # 0
               PROVE  s = t /\ k = l
    OBVIOUS
  <2>1. PICK a \in Slots(s) : /\ Holds(s, k)' = Holds(s, a)
                              /\ IF s = u THEN a = f[k] ELSE a = k
    BY <1>1
  <2>2. PICK b \in Slots(t) : /\ Holds(t, l)' = Holds(t, b)
                              /\ IF t = u THEN b = f[l] ELSE b = l
    BY <1>1
  <2>3. s = t /\ a = b
    <3>1. Holds(s, a) = Holds(t, b) /\ Holds(s, a) # 0
      BY <2>1, <2>2
    <3>2. \A v, w \in SessionId : \A c \in Slots(v), d \in Slots(w) :
            Holds(v, c) = Holds(w, d) /\ Holds(v, c) # 0 => v = w /\ c = d
      BY Zenon DEF OnceInv
    <3> QED
      BY <3>1, <3>2, Zenon
  <2>4. Slots(s) \subseteq Nat
    BY DEF Slots
  <2> QED
    BY <2>1, <2>2, <2>3, <2>4
<1>5. arrived' = arrived /\ tranInfo' = tranInfo /\ m_mainqueue' = m_mainqueue
  OBVIOUS
<1> QED
  BY <1>2, <1>3, <1>5 DEF OnceInv, IsStop

(* The request the manager takes is older than those that still wait, and  *)
(* younger than any of the sessions'.                                      *)
LEMMA OnceTaken ==
  ASSUME TypeOK, QueueOrder, OnceInv, TakeRequest, arrived' = arrived,
         UNCHANGED <<m_EventQueue, current>>
  PROVE  OnceInv'
<1>1. /\ tranInfo' = m_mainqueue[1] /\ ~IsStop(m_mainqueue[1])
      /\ m_mainqueue[1].n <= arrived /\ 1 \in 1..Len(m_mainqueue)
  <2>1. m_mainqueue[1] \in Message /\ tranInfo' = m_mainqueue[1]
    BY Taken
  <2>2. ~IsStop(m_mainqueue[1]) /\ 1 \in 1..Len(m_mainqueue)
    BY <2>1, Taken, MessageKinds
  <2> QED
    BY <2>1, <2>2 DEF QueueOrder
<1>2. \A i \in 1..Len(m_mainqueue') :
        i + 1 \in 1..Len(m_mainqueue) /\ m_mainqueue'[i] = m_mainqueue[i + 1]
        /\ 1 < i + 1
  BY Taken
<1>3. \A i \in 1..Len(m_mainqueue') :
        ~IsStop(m_mainqueue'[i]) => m_mainqueue[1].n < m_mainqueue'[i].n
  BY <1>1, <1>2 DEF QueueOrder
<1>4. \A s \in SessionId :
        Slots(s)' = Slots(s) /\ \A k \in Slots(s) : Holds(s, k)' = Holds(s, k)
  BY DEF Slots, Holds
<1>5. \A s \in SessionId : \A k \in Slots(s) :
        /\ Holds(s, k) <= arrived /\ Holds(s, k) < m_mainqueue[1].n
        /\ \A i \in 1..Len(m_mainqueue') :
             ~IsStop(m_mainqueue'[i]) => Holds(s, k) < m_mainqueue'[i].n
  BY <1>1, <1>2 DEF OnceInv
<1>6. \A s, t \in SessionId : \A k \in Slots(s), l \in Slots(t) :
        Holds(s, k) = Holds(t, l) /\ Holds(s, k) # 0 => s = t /\ k = l
  BY Zenon DEF OnceInv
<1>7. \A s, t \in SessionId : \A k \in Slots(s)', l \in Slots(t)' :
        Holds(s, k)' = Holds(t, l)' /\ Holds(s, k)' # 0 => s = t /\ k = l
  BY <1>4, <1>6
<1> QED
  BY <1>1, <1>3, <1>4, <1>5, <1>7 DEF OnceInv, IsStop

(* A message that is put behind the waiting ones is younger than all.      *)
LEMMA OncePut ==
  ASSUME TypeOK, OnceInv, NEW m \in QueuedMessage,
         m_mainqueue' = Append(m_mainqueue, m),
         arrived' \in Nat, arrived <= arrived', IsStop(m) \/ m.n = arrived + 1,
         UNCHANGED <<tranInfo, m_EventQueue, current>>
  PROVE  OnceInv'
<1> DEFINE q == m_mainqueue
           k == Len(m_mainqueue)
<1>1. /\ q \in Seq(QueuedMessage) /\ k \in Nat
      /\ m_mainqueue' \in Seq(QueuedMessage) /\ Len(m_mainqueue') = k + 1
      /\ m_mainqueue'[k + 1] = m /\ \A i \in 1..k : m_mainqueue'[i] = q[i]
  BY LenProperties, AppendProperties DEF TypeOK
<1>2. \A s \in SessionId :
        Slots(s)' = Slots(s) /\ \A j \in Slots(s) : Holds(s, j)' = Holds(s, j)
  BY DEF Slots, Holds
<1>3. \A x \in Nat :
        x <= arrived /\ (\A i \in 1..k : ~IsStop(q[i]) => x < q[i].n) =>
          x <= arrived' /\ \A i \in 1..Len(m_mainqueue') :
                             ~IsStop(m_mainqueue'[i]) => x < m_mainqueue'[i].n
  <2> SUFFICES ASSUME NEW x \in Nat, x <= arrived,
                      \A i \in 1..k : ~IsStop(q[i]) => x < q[i].n
               PROVE  /\ x <= arrived'
                      /\ \A i \in 1..(k + 1) :
                           ~IsStop(m_mainqueue'[i]) => x < m_mainqueue'[i].n
    BY <1>1
  <2>1. arrived \in Nat
    BY Numbers
  <2>2. ~IsStop(m) => x < m.n
    BY <2>1
  <2>3. \A i \in 1..(k + 1) : i \in 1..k \/ i = k + 1
    BY <1>1
  <2> QED
    BY <1>1, <2>1, <2>2, <2>3
<1>4. tranInfo.n \in Nat /\ \A s \in SessionId : \A j \in Slots(s) : Holds(s, j) \in Nat
  BY Numbers
<1>5. /\ tranInfo.n <= arrived'
      /\ \A i \in 1..Len(m_mainqueue') :
           ~IsStop(m_mainqueue'[i]) => tranInfo.n < m_mainqueue'[i].n
  BY <1>3, <1>4 DEF OnceInv
<1>6. \A s \in SessionId : \A j \in Slots(s) :
        /\ Holds(s, j) <= arrived'
        /\ \A i \in 1..Len(m_mainqueue') :
             ~IsStop(m_mainqueue'[i]) => Holds(s, j) < m_mainqueue'[i].n
  BY <1>3, <1>4 DEF OnceInv
<1>7. \A s, t \in SessionId : \A j \in Slots(s), l \in Slots(t) :
        Holds(s, j) = Holds(t, l) /\ Holds(s, j) # 0 => s = t /\ j = l
  BY Zenon DEF OnceInv
<1>8. \A s, t \in SessionId : \A j \in Slots(s)', l \in Slots(t)' :
        Holds(s, j)' = Holds(t, l)' /\ Holds(s, j)' # 0 => s = t /\ j = l
  BY <1>2, <1>7
<1>9. \A s \in SessionId : \A j \in Slots(s) : tranInfo.n # 0 => Holds(s, j) < tranInfo.n
  BY DEF OnceInv
<1>10. \A s \in SessionId : \A j \in Slots(s)' :
         /\ Holds(s, j)' <= arrived'
         /\ tranInfo'.n # 0 => Holds(s, j)' < tranInfo'.n
         /\ \A i \in 1..Len(m_mainqueue') :
              ~IsStop(m_mainqueue'[i]) => Holds(s, j)' < m_mainqueue'[i].n
  BY <1>2, <1>6, <1>9
<1> QED
  BY <1>5, <1>8, <1>10 DEF OnceInv, IsStop

(* Dispatch moves the request from the manager to the end of a queue, or   *)
(* drops it.                                                               *)
LEMMA OnceDispatched ==
  ASSUME TypeOK, OnceInv, Dispatch
  PROVE  OnceInv'
<1>1. /\ tranInfo'.n = 0 /\ UNCHANGED <<m_mainqueue, arrived, current>>
      /\ tranInfo \in Message
  BY DEF Dispatch, NoMessage, TypeOK
<1>2. \A x, y \in SessionId : \A k \in Slots(x), l \in Slots(y) :
        Holds(x, k) = Holds(y, l) /\ Holds(x, k) # 0 => x = y /\ k = l
  BY Zenon DEF OnceInv
<1>3. /\ 0 <= arrived /\ tranInfo.n # 0 /\ tranInfo.n <= arrived
      /\ \A i \in 1..Len(m_mainqueue) :
           ~IsStop(m_mainqueue[i]) => 0 < m_mainqueue[i].n /\ tranInfo.n < m_mainqueue[i].n
      /\ \A x \in SessionId : \A k \in Slots(x) :
           /\ Holds(x, k) <= arrived /\ Holds(x, k) < tranInfo.n
           /\ \A i \in 1..Len(m_mainqueue) :
                ~IsStop(m_mainqueue[i]) => Holds(x, k) < m_mainqueue[i].n
  <2>1. tranInfo.n # 0 /\ tranInfo.n \in Nat
    BY <1>1, MessageKinds, Numbers DEF IsStop
  <2>2. \A i \in 1..Len(m_mainqueue) :
          ~IsStop(m_mainqueue[i]) => 0 < m_mainqueue[i].n
    BY Numbers DEF IsStop
  <2> QED
    BY <2>1, <2>2, Numbers DEF OnceInv
<1>4. CASE sid \notin m_Sessions
  <2>1. \A x \in SessionId :
          Slots(x)' = Slots(x) /\ \A k \in Slots(x) : Holds(x, k)' = Holds(x, k)
    BY <1>1, <1>4 DEF Dispatch, Slots, Holds
  <2>2. \A x, y \in SessionId : \A k \in Slots(x)', l \in Slots(y)' :
          Holds(x, k)' = Holds(y, l)' /\ Holds(x, k)' # 0 => x = y /\ k = l
    BY <1>2, <2>1
  <2> QED
    BY <1>1, <1>3, <2>1, <2>2 DEF OnceInv, IsStop
<1>5. CASE sid \in m_Sessions
  <2>1. PICK u, e : u = sid /\ e = Len(m_EventQueue[u]) + 1
    OBVIOUS
  <2>2. /\ u \in SessionId /\ m_EventQueue[u] \in Seq(QueuedMessage)
        /\ tranInfo \in QueuedMessage /\ e \in Nat /\ e # 0
    BY <1>1, <1>5, <2>1, LenProperties DEF TypeOK, QueuedMessage
  <2>3. /\ Len(m_EventQueue'[u]) = e /\ m_EventQueue'[u][e] = tranInfo
        /\ \A k \in 1..(e - 1) : m_EventQueue'[u][k] = m_EventQueue[u][k]
    <3>1. m_EventQueue'[u] = Append(m_EventQueue[u], tranInfo)
      BY <1>5, <2>1, <2>2 DEF Dispatch, TypeOK
    <3> QED
      BY <2>1, <2>2, <3>1, AppendProperties
  <2>4. /\ Slots(u)' = Slots(u) \cup {e} /\ e \notin Slots(u)
        /\ Holds(u, e)' = tranInfo.n
        /\ \A k \in Slots(u) : Holds(u, k)' = Holds(u, k)
    <3>1. Slots(u)' = 0..e /\ Slots(u) = 0..(e - 1)
      BY <2>1, <2>2, <2>3 DEF Slots
    <3> QED
      BY <1>1, <2>2, <2>3, <3>1 DEF Holds
  <2>5. \A x \in SessionId \ {u} :
          Slots(x)' = Slots(x) /\ \A k \in Slots(x) : Holds(x, k)' = Holds(x, k)
    <3>1. \A x \in SessionId \ {u} : m_EventQueue'[x] = m_EventQueue[x]
      BY <1>5, <2>1 DEF Dispatch, TypeOK
    <3> QED
      BY <1>1, <3>1 DEF Slots, Holds
  <2>6. \A x \in SessionId : \A k \in Slots(x)' :
          \/ k \in Slots(x) /\ Holds(x, k)' = Holds(x, k)
          \/ x = u /\ k = e /\ Holds(x, k)' = tranInfo.n
    BY <2>4, <2>5
  <2>7. \A x \in SessionId : \A k \in Slots(x)' :
          /\ Holds(x, k)' <= arrived
          /\ \A i \in 1..Len(m_mainqueue) :
               ~IsStop(m_mainqueue[i]) => Holds(x, k)' < m_mainqueue[i].n
    BY <1>3, <2>6
  <2>8. \A x, y \in SessionId : \A k \in Slots(x)', l \in Slots(y)' :
          Holds(x, k)' = Holds(y, l)' /\ Holds(x, k)' # 0 => x = y /\ k = l
    <3> SUFFICES ASSUME NEW x \in SessionId, NEW y \in SessionId,
                        NEW k \in Slots(x)', NEW l \in Slots(y)',
                        Holds(x, k)' = Holds(y, l)', Holds(x, k)' # 0
                 PROVE  x = y /\ k = l
      OBVIOUS
    <3>1. \A z \in SessionId : \A j \in Slots(z) : Holds(z, j) # tranInfo.n
      BY <1>3, Numbers
    <3> QED
      BY <1>2, <2>6, <3>1
  <2> QED
    BY <1>1, <1>3, <2>7, <2>8 DEF OnceInv, IsStop
<1> QED
  BY <1>4, <1>5

(* A session takes the head of its queue in hand, or the message of Stop.  *)
LEMMA OnceGot ==
  ASSUME TypeOK, OnceInv, NEW s \in SessionId, Get(s)
  PROVE  OnceInv'
<1> DEFINE q == m_EventQueue[s]
           took == IF IsStop(Head(q)) THEN 0 ELSE 1
           f == [k \in 0..(Len(q) - 1) |-> IF k = 0 THEN took ELSE k + 1]
<1>1. /\ q \in Seq(QueuedMessage) /\ q # <<>> /\ Len(q) \in Nat /\ Len(q) >= 1
      /\ m_EventQueue'[s] = Tail(q)
  BY EmptySeq, LenProperties DEF Get, TypeOK
<1>2. /\ Len(Tail(q)) = Len(q) - 1 /\ Head(q) = q[1]
      /\ \A k \in 1..Len(Tail(q)) : Tail(q)[k] = q[k + 1]
  BY <1>1, HeadTailProperties
<1>3. Slots(s)' = 0..(Len(q) - 1) /\ Slots(s) = 0..Len(q)
  BY <1>1, <1>2 DEF Slots
<1>4. IF took = 0 THEN current'[s] = current[s] ELSE current'[s] = q[1]
  BY <1>2 DEF Get, TypeOK
<1>5. \A k \in Slots(s)' : Holds(s, k)' = Holds(s, f[k])
  <2>1. Holds(s, 0)' = Holds(s, took)
    BY <1>4 DEF Holds
  <2>2. \A k \in 1..(Len(q) - 1) : Holds(s, k)' = Holds(s, k + 1)
    BY <1>1, <1>2 DEF Holds
  <2> QED
    BY <1>1, <1>3, <2>1, <2>2
<1>6. /\ \A k \in Slots(s)' : f[k] \in Slots(s)
      /\ \A k, l \in Slots(s)' : f[k] = f[l] => k = l
  BY <1>1, <1>3
<1>7. \A x \in SessionId \ {s} :
        Slots(x)' = Slots(x) /\ \A k \in Slots(x) : Holds(x, k)' = Holds(x, k)
  <2>1. \A x \in SessionId \ {s} :
          m_EventQueue'[x] = m_EventQueue[x] /\ current'[x] = current[x]
    BY DEF Get, TypeOK
  <2> QED
    BY <2>1 DEF Slots, Holds
<1>8. UNCHANGED <<m_mainqueue, arrived, tranInfo>>
  BY DEF Get, sessionShared, mgrVars
<1>9. \A k \in Slots(s)' : f[k] # -1
  BY <1>3, <1>6, <1>1
<1> HIDE DEF f
<1> QED
  BY <1>5, <1>6, <1>7, <1>8, <1>9, OnceMoved

(* The message that ends a session's thread is nobody's request.           *)
LEMMA OnceStopped ==
  ASSUME TypeOK, OnceInv, NEW s \in SessionId, ClearAttached(s)
  PROVE  OnceInv'
<1> DEFINE q == m_EventQueue[s]
           f == [k \in 0..(Len(q) + 1) |-> IF k = Len(q) + 1 THEN -1 ELSE k]
<1>1. /\ q \in Seq(QueuedMessage) /\ Len(q) \in Nat
      /\ m_EventQueue'[s] = Append(q, ManagerStop) /\ current' = current
      /\ ManagerStop \in QueuedMessage /\ ManagerStop.n = 0
  BY LenProperties, MessageKinds DEF ClearAttached, TypeOK, stopShared, IsStop
<1>2. /\ Len(m_EventQueue'[s]) = Len(q) + 1
      /\ m_EventQueue'[s][Len(q) + 1] = ManagerStop
      /\ \A k \in 1..Len(q) : m_EventQueue'[s][k] = q[k]
  BY <1>1, AppendProperties
<1>3. Slots(s)' = 0..(Len(q) + 1) /\ Slots(s) = 0..Len(q)
  BY <1>2 DEF Slots
<1>4. \A k \in Slots(s)' :
        IF k = Len(q) + 1 THEN Holds(s, k)' = 0 ELSE Holds(s, k)' = Holds(s, k)
  BY <1>1, <1>2, <1>3 DEF Holds
<1>5. /\ \A k \in Slots(s)' : f[k] \in Slots(s) \cup {-1}
      /\ \A k \in Slots(s)' : f[k] = -1 => Holds(s, k)' = 0
      /\ \A k \in Slots(s)' : f[k] # -1 => Holds(s, k)' = Holds(s, f[k])
      /\ \A k, l \in Slots(s)' : f[k] = f[l] /\ f[k] # -1 => k = l
  BY <1>1, <1>3, <1>4
<1>6. \A x \in SessionId \ {s} :
        Slots(x)' = Slots(x) /\ \A k \in Slots(x) : Holds(x, k)' = Holds(x, k)
  <2>1. \A x \in SessionId \ {s} : m_EventQueue'[x] = m_EventQueue[x]
    BY DEF ClearAttached, TypeOK
  <2> QED
    BY <1>1, <2>1 DEF Slots, Holds
<1>7. UNCHANGED <<m_mainqueue, arrived, tranInfo>>
  BY DEF ClearAttached, stopShared, mgrVars
<1> HIDE DEF f
<1> QED
  BY <1>5, <1>6, <1>7, OnceMoved

(* OnceInv holds always. *)
LEMMA OnceCorrect == Steps => []OnceInv
<1>1. Init => OnceInv
  BY EmptySeq, ConstantsAssumption DEF Init, OnceInv, Slots, Holds, NoMessage
<1>2. TypeInv /\ OnceInv /\ [Next]_vars => OnceInv'
  <2> SUFFICES ASSUME TypeOK, QueueOrder, OnceInv, [Next]_vars PROVE OnceInv'
    BY DEF TypeInv
  <2>1. ASSUME UNCHANGED <<m_mainqueue, arrived, tranInfo, m_EventQueue, current>>
        PROVE  OnceInv'
    <3>1. \A x \in SessionId :
            Slots(x)' = Slots(x) /\ \A k \in Slots(x) : Holds(x, k)' = Holds(x, k)
      BY <2>1 DEF Slots, Holds
    <3>2. \A x, y \in SessionId : \A k \in Slots(x), l \in Slots(y) :
            Holds(x, k) = Holds(y, l) /\ Holds(x, k) # 0 => x = y /\ k = l
      BY Zenon DEF OnceInv
    <3>3. \A x, y \in SessionId : \A k \in Slots(x)', l \in Slots(y)' :
            Holds(x, k)' = Holds(y, l)' /\ Holds(x, k)' # 0 => x = y /\ k = l
      BY <3>1, <3>2
    <3> QED
      BY <2>1, <3>1, <3>3 DEF OnceInv, IsStop
  <2>2. ASSUME NEW r \in Input, SendMessageToMe(r) PROVE OnceInv'
    <3>1. /\ [n |-> arrived + 1, req |-> r] \in QueuedMessage
          /\ arrived' = arrived + 1 /\ arrived \in Nat
      BY <2>2, ConstantsAssumption
         DEF SendMessageToMe, TypeOK, Message, QueuedMessage
    <3> QED
      BY <2>2, <3>1, OncePut DEF SendMessageToMe, mgrVars, sessionVars
  <2>3. CASE UseReceiver \/ NewSession \/ NewSessionRefused \/ GetSessionByCallId
    <3>1. TakeRequest /\ UNCHANGED <<arrived, m_EventQueue, current>>
      BY <2>3 DEF UseReceiver, NewSession, NewSessionRefused, GetSessionByCallId,
                  sessionVars
    <3> QED
      BY <3>1, OnceTaken
  <2>4. CASE Dispatch
    BY <2>4, OnceDispatched
  <2>5. CASE ManagerEnds
    <3>1. /\ UNCHANGED <<arrived, tranInfo, m_EventQueue, current>>
          /\ \A i \in 1..Len(m_mainqueue') :
               i + 1 \in 1..Len(m_mainqueue) /\ m_mainqueue'[i] = m_mainqueue[i + 1]
      <4>1. /\ m_mainqueue \in Seq(QueuedMessage) /\ m_mainqueue # <<>>
            /\ m_mainqueue' = Tail(m_mainqueue)
        BY <2>5 DEF ManagerEnds, TypeOK
      <4>2. /\ Len(m_mainqueue) \in Nat /\ Len(m_mainqueue') = Len(m_mainqueue) - 1
            /\ \A i \in 1..Len(m_mainqueue') : m_mainqueue'[i] = m_mainqueue[i + 1]
        BY <4>1, HeadTailProperties, LenProperties
      <4> QED
        BY <2>5, <4>2 DEF ManagerEnds, sessionVars
    <3>2. \A x \in SessionId :
            Slots(x)' = Slots(x) /\ \A k \in Slots(x) : Holds(x, k)' = Holds(x, k)
      BY <3>1 DEF Slots, Holds
    <3>3. \A x, y \in SessionId : \A k \in Slots(x), l \in Slots(y) :
            Holds(x, k) = Holds(y, l) /\ Holds(x, k) # 0 => x = y /\ k = l
      BY Zenon DEF OnceInv
    <3>4. \A x, y \in SessionId : \A k \in Slots(x)', l \in Slots(y)' :
            Holds(x, k)' = Holds(y, l)' /\ Holds(x, k)' # 0 => x = y /\ k = l
      BY <3>2, <3>3
    <3> QED
      BY <3>1, <3>2, <3>4 DEF OnceInv, IsStop
  <2>6. CASE AssociateSessionByCallId
    BY <2>1, <2>6 DEF AssociateSessionByCallId, sessionVars
  <2>7. ASSUME NEW s \in SessionId, Get(s) PROVE OnceInv'
    BY <2>7, OnceGot
  <2>8. ASSUME NEW s \in SessionId,
               \/ GetTimesOut(s) \/ HandleMessage(s) \/ HandlerThrows(s) \/ Detach(s)
               \/ RemoveSession(s) \/ RemoveSessionThrows(s) \/ Release(s)
        PROVE  OnceInv'
    BY <2>1, <2>8 DEF GetTimesOut, HandleMessage, HandlerThrows, Detach,
       RemoveSession, RemoveSessionThrows, Release, sessionShared, mgrVars
  <2>9. CASE Stop
    <3>1. ManagerStop \in QueuedMessage /\ IsStop(ManagerStop) /\ arrived \in Nat
      BY MessageKinds, Numbers
    <3>2. /\ m_mainqueue' = Append(m_mainqueue, ManagerStop)
          /\ UNCHANGED <<arrived, tranInfo, m_EventQueue, current>>
      BY <2>9 DEF Stop, stopShared, mgrVars
    <3>3. arrived' \in Nat /\ arrived <= arrived'
      BY <3>1, <3>2
    <3> QED
      BY <3>1, <3>2, <3>3, OncePut
  <2>10. CASE \/ TimerStop \/ OnDisconnect \/ EnterJoin \/ Joined \/ Stopped
              \/ \E s \in SessionId : ClearDetached(s)
    BY <2>1, <2>10 DEF TimerStop, OnDisconnect, EnterJoin, Joined, Stopped, ClearDetached,
                       stopShared, mgrVars
  <2>11. ASSUME NEW s \in SessionId, ClearAttached(s) PROVE OnceInv'
    BY <2>11, OnceStopped
  <2>12. CASE TimerRun \/ UNCHANGED vars
    BY <2>1, <2>12 DEF TimerRun, TimerDispatches, TimerEnds, timerShared,
       vars, mgrVars, sessionVars
  <2> QED
    BY <2>2, <2>3, <2>4, <2>5, <2>6, <2>7, <2>8, <2>9, <2>10, <2>11, <2>12
       DEF Next, Manager, Session, Stopping, Terminated
<1> QED
  BY <1>1, <1>2, TypeInvCorrect, PTL DEF Steps

(* A request is in one place at most, whatever the order in which the      *)
(* manager, the sessions and Stop take and put messages.                   *)
THEOREM RequestHandledOnce == Steps => []RequestOnce
<1>1. TypeInv /\ OnceInv => RequestOnce
  <2> SUFFICES ASSUME TypeOK, QueueOrder, OnceInv, NEW n \in 1..arrived,
                      NEW p \in Places(n), NEW q \in Places(n)
               PROVE  p = q
    BY DEF TypeInv, RequestOnce
  <2>0. n \in Nat /\ n # 0
    BY Numbers
  <2>1. \A r \in Places(n) :
          \/ \E i \in 1..Len(m_mainqueue) :
               r = <<"main", i>> /\ m_mainqueue[i].n = n
          \/ r = <<"manager", 0>> /\ tranInfo.n = n
          \/ \E s \in SessionId : \E i \in 1..Len(m_EventQueue[s]) :
               r = <<"queue", s, i>> /\ m_EventQueue[s][i].n = n
          \/ \E s \in SessionId : r = <<"current", s>> /\ current[s].n = n
    <3> SUFFICES ASSUME NEW r \in Places(n),
                        ~\E i \in 1..Len(m_mainqueue) :
                           r = <<"main", i>> /\ m_mainqueue[i].n = n,
                        ~(r = <<"manager", 0>> /\ tranInfo.n = n),
                        ~\E s \in SessionId : r = <<"current", s>> /\ current[s].n = n
                 PROVE  \E s \in SessionId : \E i \in 1..Len(m_EventQueue[s]) :
                          r = <<"queue", s, i>> /\ m_EventQueue[s][i].n = n
      OBVIOUS
    <3> DEFINE Waits == {<<"main", i>> : i \in InMainQueue(n)}
               InHand == IF tranInfo.n = n THEN {<<"manager", 0>>} ELSE {}
               Queued(s) == {<<"queue", s, i>> : i \in InQueue(n, s)}
               AllQueued == UNION {Queued(s) : s \in SessionId}
               Current == {<<"current", s>> : s \in {t \in SessionId : current[t].n = n}}
    <3>0. Places(n) = Waits \cup InHand \cup AllQueued \cup Current
      BY Zenon DEF Places
    <3>1. r \in AllQueued
      <4>1. r \notin Waits
        BY DEF InMainQueue
      <4>2. r \notin InHand
        OBVIOUS
      <4>3. r \notin Current
        OBVIOUS
      <4> HIDE DEF Waits, InHand, Current, AllQueued
      <4> QED
        BY <3>0, <4>1, <4>2, <4>3
    <3>2. PICK s \in SessionId : r \in Queued(s)
      BY <3>1
    <3> QED
      BY <3>2 DEF InQueue
  <2>2. \A r \in Places(n) :
          \/ \E i \in 1..Len(m_mainqueue) :
               r = <<"main", i>> /\ m_mainqueue[i].n = n
          \/ r = <<"manager", 0>> /\ tranInfo.n = n
          \/ \E s \in SessionId : \E k \in Slots(s) :
               /\ Holds(s, k) = n
               /\ r = IF k = 0 THEN <<"current", s>> ELSE <<"queue", s, k>>
    <3>1. ASSUME NEW s \in SessionId
          PROVE  /\ 0 \in Slots(s) /\ Holds(s, 0) = current[s].n
                 /\ \A k \in 1..Len(m_EventQueue[s]) :
                      k # 0 /\ k \in Slots(s) /\ Holds(s, k) = m_EventQueue[s][k].n
      BY Numbers DEF Slots, Holds
    <3> QED
      BY <2>1, <3>1
  <2>3. ASSUME NEW i \in 1..Len(m_mainqueue), m_mainqueue[i].n = n
        PROVE  ~IsStop(m_mainqueue[i])
    BY <2>0, <2>3 DEF IsStop
  <2>4. \A i, j \in 1..Len(m_mainqueue) :
          m_mainqueue[i].n = n /\ m_mainqueue[j].n = n => i = j
    <3>1. ASSUME NEW i \in 1..Len(m_mainqueue), NEW j \in 1..Len(m_mainqueue),
                 m_mainqueue[i].n = n, m_mainqueue[j].n = n
          PROVE  ~(i < j) /\ ~(j < i)
      <4>1. ~IsStop(m_mainqueue[i]) /\ ~IsStop(m_mainqueue[j])
        BY <2>3, <3>1
      <4> QED
        BY <2>0, <3>1, <4>1 DEF QueueOrder
    <3> QED
      BY <3>1, Numbers
  <2>5. \A i \in 1..Len(m_mainqueue) :
          m_mainqueue[i].n = n =>
            /\ tranInfo.n # n
            /\ \A s \in SessionId : \A k \in Slots(s) : Holds(s, k) # n
    BY <2>0, <2>3, Numbers DEF OnceInv
  <2>6. tranInfo.n = n =>
          \A s \in SessionId : \A k \in Slots(s) : Holds(s, k) # n
    BY <2>0, Numbers DEF OnceInv
  <2>7. \A s, t \in SessionId : \A k \in Slots(s), l \in Slots(t) :
          Holds(s, k) = Holds(t, l) /\ Holds(s, k) # 0 => s = t /\ k = l
    BY Zenon DEF OnceInv
  <2>8. CASE \E i \in 1..Len(m_mainqueue) : m_mainqueue[i].n = n
    BY <2>2, <2>4, <2>5, <2>8
  <2>9. CASE tranInfo.n = n
    BY <2>2, <2>5, <2>6, <2>9
  <2>10. CASE /\ ~\E i \in 1..Len(m_mainqueue) : m_mainqueue[i].n = n
              /\ tranInfo.n # n
    <3>1. PICK s \in SessionId : \E k \in Slots(s) :
            /\ Holds(s, k) = n
            /\ p = IF k = 0 THEN <<"current", s>> ELSE <<"queue", s, k>>
      BY <2>2, <2>10
    <3>2. PICK t \in SessionId : \E l \in Slots(t) :
            /\ Holds(t, l) = n
            /\ q = IF l = 0 THEN <<"current", t>> ELSE <<"queue", t, l>>
      BY <2>2, <2>10
    <3>3. PICK k \in Slots(s) :
            /\ Holds(s, k) = n
            /\ p = IF k = 0 THEN <<"current", s>> ELSE <<"queue", s, k>>
      BY <3>1
    <3>4. PICK l \in Slots(t) :
            /\ Holds(t, l) = n
            /\ q = IF l = 0 THEN <<"current", t>> ELSE <<"queue", t, l>>
      BY <3>2
    <3>5. s = t /\ k = l
      BY <2>0, <2>7, <3>3, <3>4
    <3> QED
      BY <3>3, <3>4, <3>5
  <2> QED
    BY <2>8, <2>9, <2>10
<1> QED
  BY <1>1, TypeInvCorrect, OnceCorrect, PTL
-----------------------------------------------------------------------------
(* The sessions are opened in the order of the requests: what waits for    *)
(* the manager came after all that sessions were opened for.               *)
OpenedFirst ==
  \A s \in SessionId :
    /\ opener[s].n <= arrived
    /\ \A i \in 1..Len(m_mainqueue) :
         ~IsStop(m_mainqueue[i]) => opener[s].n < m_mainqueue[i].n

LEMMA OpenedCorrect == Steps => []OpenedFirst
<1> USE ConstantsAssumption
<1>1. Init => OpenedFirst
  BY DEF Init, OpenedFirst, NoMessage
<1>2. TypeInv /\ OpenedFirst /\ [Next]_vars => OpenedFirst'
  <2> SUFFICES ASSUME TypeOK, QueueOrder, OpenedFirst, [Next]_vars
               PROVE  OpenedFirst'
    BY DEF TypeInv
  <2>0. /\ \A s \in SessionId : opener[s].n \in Nat
        /\ DOMAIN opener = SessionId /\ arrived \in Nat
    BY MessageKinds DEF TypeOK, HeldMessage, NoMessage
  <2>1. ASSUME UNCHANGED <<m_mainqueue, arrived, opener>> PROVE OpenedFirst'
    BY <2>1 DEF OpenedFirst, IsStop
  <2>2. ASSUME NEW m \in QueuedMessage, m_mainqueue' = Append(m_mainqueue, m),
               opener' = opener, arrived' \in Nat, arrived <= arrived',
               IsStop(m) \/ m.n = arrived + 1
        PROVE  OpenedFirst'
    <3>1. /\ Len(m_mainqueue') = Len(m_mainqueue) + 1 /\ Len(m_mainqueue) \in Nat
          /\ m_mainqueue'[Len(m_mainqueue) + 1] = m
          /\ \A i \in 1..Len(m_mainqueue) : m_mainqueue'[i] = m_mainqueue[i]
      BY <2>2, AppendProperties, LenProperties DEF TypeOK
    <3> SUFFICES ASSUME NEW s \in SessionId
                 PROVE  /\ opener[s].n <= arrived'
                        /\ \A i \in 1..Len(m_mainqueue') :
                             ~IsStop(m_mainqueue'[i]) =>
                               opener[s].n < m_mainqueue'[i].n
      BY <2>2 DEF OpenedFirst, IsStop
    <3>2. opener[s].n <= arrived /\ opener[s].n \in Nat
      BY <2>0 DEF OpenedFirst
    <3>3. ASSUME NEW i \in 1..Len(m_mainqueue'), ~IsStop(m_mainqueue'[i])
          PROVE  opener[s].n < m_mainqueue'[i].n
      <4>1. CASE i \in 1..Len(m_mainqueue)
        BY <3>1, <3>3, <4>1 DEF OpenedFirst
      <4>2. CASE i = Len(m_mainqueue) + 1
        BY <2>0, <2>2, <3>1, <3>2, <3>3, <4>2
      <4> QED
        BY <3>1, <4>1, <4>2
    <3> QED
      BY <2>0, <2>2, <3>2, <3>3
  <2>3. ASSUME NEW r \in Input, SendMessageToMe(r) PROVE OpenedFirst'
    <3>1. /\ m_mainqueue' = Append(m_mainqueue, [n |-> arrived + 1, req |-> r])
          /\ arrived' = arrived + 1 /\ opener' = opener
          /\ arrived + 1 \in 1..NumMsgs
      BY <2>0, <2>3 DEF SendMessageToMe, sessionVars
    <3>2. [n |-> arrived + 1, req |-> r] \in QueuedMessage
      BY <3>1 DEF QueuedMessage, Message
    <3> QED
      BY <2>0, <2>2, <3>1, <3>2
  <2>4. CASE UseReceiver \/ NewSession \/ NewSessionRefused \/ GetSessionByCallId
    <3>1. TakeRequest /\ arrived' = arrived
      BY <2>4 DEF UseReceiver, NewSession, NewSessionRefused, GetSessionByCallId
    <3>2. /\ Head(m_mainqueue) = m_mainqueue[1] /\ ~IsStop(m_mainqueue[1])
          /\ 1 \in 1..Len(m_mainqueue) /\ m_mainqueue[1].n \in Nat
          /\ \A i \in 1..Len(m_mainqueue') :
               /\ i + 1 \in 1..Len(m_mainqueue) /\ 1 < i + 1
               /\ m_mainqueue'[i] = m_mainqueue[i + 1]
      <4>1. Head(m_mainqueue) \in Message
        BY <3>1, Taken
      <4> QED
        BY <3>1, <4>1, Taken, MessageKinds
    <3>3. m_mainqueue[1].n <= arrived
      BY <3>2 DEF QueueOrder
    <3>4. \A i \in 1..Len(m_mainqueue') :
            ~IsStop(m_mainqueue'[i]) => m_mainqueue[1].n < m_mainqueue'[i].n
      BY <3>2 DEF QueueOrder
    <3>5. \A s \in SessionId : opener'[s] = opener[s] \/ opener'[s] = m_mainqueue[1]
      BY <2>0, <2>4, <3>2 DEF UseReceiver, NewSession, NewSessionRefused,
         GetSessionByCallId, sessionVars
    <3>6. \A s \in SessionId : \A i \in 1..Len(m_mainqueue') :
            ~IsStop(m_mainqueue'[i]) => opener[s].n < m_mainqueue'[i].n
      BY <3>2 DEF OpenedFirst
    <3>7. \A s \in SessionId :
            /\ opener'[s].n <= arrived
            /\ \A i \in 1..Len(m_mainqueue') :
                 ~IsStop(m_mainqueue'[i]) => opener'[s].n < m_mainqueue'[i].n
      BY <3>3, <3>4, <3>5, <3>6 DEF OpenedFirst
    <3> QED
      BY <3>1, <3>7 DEF OpenedFirst, IsStop
  <2>5. CASE ManagerEnds
    <3>1. /\ UNCHANGED <<arrived, opener>>
          /\ m_mainqueue \in Seq(QueuedMessage) /\ m_mainqueue # <<>>
          /\ m_mainqueue' = Tail(m_mainqueue)
      BY <2>5 DEF ManagerEnds, sessionVars, TypeOK
    <3>2. \A i \in 1..Len(m_mainqueue') :
            i + 1 \in 1..Len(m_mainqueue) /\ m_mainqueue'[i] = m_mainqueue[i + 1]
      <4>1. /\ Len(m_mainqueue) \in Nat /\ Len(m_mainqueue') = Len(m_mainqueue) - 1
            /\ \A i \in 1..Len(m_mainqueue') : m_mainqueue'[i] = m_mainqueue[i + 1]
        BY <3>1, HeadTailProperties, LenProperties
      <4> QED
        BY <4>1
    <3> QED
      BY <3>1, <3>2 DEF OpenedFirst, IsStop
  <2>6. CASE Stop
    <3>1. /\ UNCHANGED <<arrived, opener>>
          /\ m_mainqueue' = Append(m_mainqueue, ManagerStop)
      BY <2>6 DEF Stop, stopShared
    <3> QED
      BY <2>0, <2>2, <3>1, MessageKinds
  <2>7. CASE AssociateSessionByCallId \/ Dispatch \/ Stopping \/ TimerRun \/ UNCHANGED vars
    BY <2>1, <2>7 DEF TimerRun, TimerDispatches, TimerEnds, timerShared,
       AssociateSessionByCallId, Dispatch, Stopping, TimerStop, OnDisconnect,
       EnterJoin, Joined, Stopped, ClearAttached, ClearDetached, stopShared,
       sessionVars, vars
  <2>8. ASSUME NEW s \in SessionId, Session(s) \/ GetTimesOut(s) PROVE OpenedFirst'
    BY <2>1, <2>8 DEF Session, Get, GetTimesOut, HandleMessage, HandlerThrows, Detach,
       RemoveSession, RemoveSessionThrows, Release, sessionShared
  <2> QED
    BY <2>3, <2>4, <2>5, <2>6, <2>7, <2>8 DEF Next, Manager, Terminated
<1>3. QED
  BY <1>1, <1>2, TypeInvCorrect, PTL DEF Steps

(* What SessionPool sees of the requests sessions were opened for and have *)
(* handled.                                                                *)
Opened  == [s \in SessionId |-> opener[s].n]
Handled == [s \in SessionId |-> current[s].n]
poolView == <<arrived, Opened, Handled, Phase, replies, m_Sessions>>

LEMMA PoolView == poolView = Pool!vars
  BY DEF poolView, Pool!vars, Opened, Handled

(* One session's thread moves on.                                          *)
LEMMA PhaseStep ==
  ASSUME TypeOK, NEW s \in SessionId, NEW label,
         thread' = [thread EXCEPT ![s] = label]
  PROVE  /\ thread[s] = "none" => Phase[s] = "none"
         /\ thread[s] = "get" => Phase[s] = "waiting"
         /\ thread[s] = "busy" => Phase[s] = "working"
         /\ thread[s] \in {"closing", "detached", "removed", "ended"} =>
              Phase[s] = "through"
         /\ label = "get" => Phase' = [Phase EXCEPT ![s] = "waiting"]
         /\ label = "busy" => Phase' = [Phase EXCEPT ![s] = "working"]
         /\ label \in {"closing", "detached", "removed", "ended"} =>
              Phase' = [Phase EXCEPT ![s] = "through"]
<1>1. \A t \in SessionId : thread'[t] = IF t = s THEN label ELSE thread[t]
  BY DEF TypeOK
<1> QED
  BY <1>1 DEF Phase

(* A session that leaves is through, whoever takes it out of the map.      *)
LEMMA PoolLeaves ==
  ASSUME NEW s \in SessionId, Phase[s] = "through", m_Sessions' = m_Sessions \ {s},
         UNCHANGED <<arrived, opener, current, Phase, replies>>
  PROVE  Pool!Next
<1>1. Pool!Leave(s)
  BY DEF Pool!Leave
<1> QED
  BY <1>1 DEF Pool!Next

(* A session is opened for a request later than those of all the others.   *)
LEMMA PoolOpens ==
  ASSUME NEW s \in SessionId, NEW n \in 1..arrived,
         Phase[s] = "none", Phase' = [Phase EXCEPT ![s] = "waiting"],
         Cardinality(m_Sessions) < m_max_session_num,
         m_Sessions' = m_Sessions \cup {s},
         \A t \in SessionId : Opened[t] < n, Opened' = [Opened EXCEPT ![s] = n],
         UNCHANGED <<arrived, current, replies>>
  PROVE  Pool!Next
<1>1. \A t \in SessionId : [u \in SessionId |-> opener[u].n][t] < n
  BY DEF Opened
<1>2. [t \in SessionId |-> opener[t].n]'
        = [[t \in SessionId |-> opener[t].n] EXCEPT ![s] = n]
  BY DEF Opened
<1>3. UNCHANGED [t \in SessionId |-> current[t].n]
  OBVIOUS
<1>4. Pool!Cardinality(m_Sessions) = Cardinality(m_Sessions)
  BY DEF Pool!Cardinality, Cardinality
<1>5. Pool!Open(s, n)
  BY <1>1, <1>2, <1>3, <1>4 DEF Pool!Open
<1> QED
  BY <1>5 DEF Pool!Next

(* Each step of a session's thread, as SessionPool sees it.                *)
LEMMA PoolOfThread ==
  ASSUME TypeOK, ThreadInv, OpenerInv, NEW s \in SessionId,
         Session(s) \/ GetTimesOut(s)
  PROVE  Pool!Next \/ UNCHANGED poolView
<1>0. /\ DOMAIN current = SessionId /\ DOMAIN replies = SessionId
      /\ Phase = [Phase EXCEPT ![s] = Phase[s]]
  BY DEF TypeOK, Phase
<1>1. CASE Get(s)
  <2>1. /\ UNCHANGED <<arrived, opener, replies, m_Sessions>>
        /\ thread[s] = "get" /\ m_EventQueue[s] # <<>>
    BY <1>1 DEF Get, sessionShared
  <2>2. CASE IsStop(Head(m_EventQueue[s]))
    <3>1. thread' = [thread EXCEPT ![s] = "ended"] /\ current' = current
      BY <1>1, <2>2 DEF Get
    <3>2. Pool!GiveUp(s)
      BY <2>1, <3>1, PhaseStep DEF Pool!GiveUp
    <3> QED
      BY <3>2 DEF Pool!Next
  <2>3. CASE ~IsStop(Head(m_EventQueue[s]))
    <3>1. /\ thread' = [thread EXCEPT ![s] = "busy"]
          /\ current' = [current EXCEPT ![s] = opener[s]] /\ s \in m_Sessions
      BY <1>1, <2>1, <2>3 DEF Get, OpenerInv, ThreadInv
    <3>2. Handled' = [Handled EXCEPT ![s] = Opened[s]]
      BY <1>0, <3>1 DEF Handled, Opened
    <3>3. Pool!Work(s)
      BY <2>1, <3>1, <3>2, PhaseStep DEF Pool!Work, Handled, Opened
    <3> QED
      BY <3>3 DEF Pool!Next
  <2> QED
    BY <2>2, <2>3
<1>2. CASE GetTimesOut(s)
  <2>1. /\ UNCHANGED <<arrived, opener, replies, m_Sessions, current>>
        /\ thread[s] = "get" /\ thread' = [thread EXCEPT ![s] = "closing"]
    BY <1>2 DEF GetTimesOut, sessionShared
  <2>2. Pool!GiveUp(s)
    BY <2>1, PhaseStep DEF Pool!GiveUp
  <2> QED
    BY <2>2 DEF Pool!Next
<1>3. CASE HandleMessage(s) \/ HandlerThrows(s)
  <2>1. /\ UNCHANGED <<arrived, opener, m_Sessions, current>> /\ thread[s] = "busy"
        /\ \E label \in {"closing", "ended"} :
             thread' = [thread EXCEPT ![s] = label]
        /\ replies' = replies \/ replies' = [replies EXCEPT ![s] = @ + 1]
    BY <1>3 DEF HandleMessage, HandlerThrows, sessionShared
  <2>2. /\ Phase[s] = "working" /\ Phase' = [Phase EXCEPT ![s] = "through"]
    BY <2>1, PhaseStep
  <2>3. Pool!Finish(s)
    BY <2>1, <2>2 DEF Pool!Finish
  <2> QED
    BY <2>3 DEF Pool!Next
<1>4. CASE Detach(s) \/ RemoveSessionThrows(s) \/ Release(s)
  <2>1. /\ UNCHANGED <<arrived, opener, replies, m_Sessions, current>>
        /\ thread[s] \in {"closing", "detached", "removed"}
        /\ \E label \in {"detached", "ended"} :
             thread' = [thread EXCEPT ![s] = label]
    BY <1>4 DEF Detach, RemoveSessionThrows, Release, sessionShared
  <2>2. Phase[s] = "through" /\ Phase' = [Phase EXCEPT ![s] = "through"]
    BY <2>1, PhaseStep
  <2> QED
    BY <1>0, <2>1, <2>2 DEF poolView, Opened, Handled
<1>5. CASE RemoveSession(s)
  <2>1. /\ UNCHANGED <<arrived, opener, replies, current>>
        /\ thread[s] = "detached"
        /\ m_Sessions' = m_Sessions \ {s} \/ m_Sessions' = m_Sessions
        /\ \E label \in {"removed", "ended"} :
             thread' = [thread EXCEPT ![s] = label]
    BY <1>5 DEF RemoveSession, EraseSession, sessionShared
  <2>2. Phase[s] = "through" /\ Phase' = [Phase EXCEPT ![s] = "through"]
    BY <2>1, PhaseStep
  <2>3. Phase' = Phase
    BY <1>0, <2>2
  <2>4. CASE m_Sessions' = m_Sessions \ {s}
    BY <2>1, <2>2, <2>3, <2>4, PoolLeaves
  <2>5. CASE m_Sessions' = m_Sessions
    BY <2>1, <2>3, <2>5 DEF poolView, Opened, Handled
  <2> QED
    BY <2>1, <2>4, <2>5
<1> QED
  BY <1>1, <1>2, <1>3, <1>4, <1>5 DEF Session

(* Each step of the manager's thread.                                      *)
LEMMA PoolOfManager ==
  ASSUME TypeOK, QueueOrder, ThreadInv, OpenedFirst, Manager
  PROVE  Pool!Next \/ UNCHANGED poolView
<1>1. CASE NewSession
  <2>1. /\ nextId \in SessionId /\ thread[nextId] = "none"
    BY <1>1, QueueOrderTail DEF NewSession, ThreadInv, Unborn, TypeOK, SessionId
  <2>2. /\ m_mainqueue[1] \in Message /\ Head(m_mainqueue) = m_mainqueue[1]
        /\ 1 \in 1..Len(m_mainqueue) /\ ~IsStop(m_mainqueue[1])
        /\ m_mainqueue[1].n \in 1..NumMsgs
    BY <1>1, Taken, MessageKinds DEF NewSession
  <2>3. /\ Cardinality(m_Sessions) < m_max_session_num
        /\ m_Sessions' = m_Sessions \cup {nextId}
        /\ thread' = [thread EXCEPT ![nextId] = "get"]
        /\ opener' = [opener EXCEPT ![nextId] = m_mainqueue[1]]
        /\ UNCHANGED <<arrived, current, replies>>
    BY <1>1, <2>2 DEF NewSession
  <2>4. m_mainqueue[1].n \in 1..arrived
    BY <2>2 DEF QueueOrder, TypeOK
  <2>5. \A t \in SessionId : Opened[t] < m_mainqueue[1].n
    BY <2>2 DEF OpenedFirst, Opened
  <2>6. Opened' = [Opened EXCEPT ![nextId] = m_mainqueue[1].n]
    BY <2>3 DEF Opened, TypeOK
  <2>7. Phase[nextId] = "none" /\ Phase' = [Phase EXCEPT ![nextId] = "waiting"]
    BY <2>1, <2>3, PhaseStep
  <2> QED
    BY <2>1, <2>3, <2>4, <2>5, <2>6, <2>7, PoolOpens
<1>2. CASE ~NewSession
  BY <1>2 DEF Manager, UseReceiver, NewSessionRefused, GetSessionByCallId,
     AssociateSessionByCallId, Dispatch, ManagerEnds, sessionVars, poolView,
     Opened, Handled, Phase
<1> QED
  BY <1>1, <1>2

(* Each step of Stop.                                                      *)
LEMMA PoolOfStop ==
  ASSUME TypeOK, ThreadInv, Stop \/ Stopping
  PROVE  Pool!Next \/ UNCHANGED poolView
<1>1. UNCHANGED <<arrived, opener, current, Phase, replies>>
  BY DEF Stop, Stopping, TimerStop, OnDisconnect, EnterJoin, Joined, Stopped, ClearAttached,
     ClearDetached, stopShared, Phase
<1>2. CASE Joined
  <2>1. /\ destroying \in SessionId /\ thread[destroying] = "ended"
        /\ m_Sessions' = m_Sessions \ {destroying}
    BY <1>2 DEF Joined, TypeOK
  <2>2. Phase[destroying] = "through"
    BY <2>1 DEF Phase
  <2> QED
    BY <1>1, <2>1, <2>2, PoolLeaves
<1>3. ASSUME NEW s \in SessionId, ClearDetached(s) PROVE Pool!Next
  <2>1. s \in m_Sessions /\ s \notin attached /\ m_Sessions' = m_Sessions \ {s}
    BY <1>3 DEF ClearDetached
  <2>2. Phase[s] = "through"
    BY <2>1 DEF ThreadInv, Phase, TypeOK
  <2> QED
    BY <1>1, <2>1, <2>2, PoolLeaves
<1>4. CASE m_Sessions' = m_Sessions
  BY <1>1, <1>4 DEF poolView, Opened, Handled
<1> QED
  BY <1>2, <1>3, <1>4 DEF Stop, Stopping, TimerStop, OnDisconnect, EnterJoin, Stopped,
     ClearAttached

(* TSiaManager keeps the promise of SessionPool: each step of the TCP      *)
(* server's thread, the manager's, the sessions' and Stop is a step of the *)
(* pool or leaves it alone.                                                *)
THEOREM PoolImplemented == Steps => ImplementsPool
<1>1. Init => Pool!Init
  BY DEF Init, Pool!Init, Phase, NoMessage
<1>2. TypeInv /\ LifeInv /\ OpenerInv /\ OpenedFirst /\ [Next]_vars
        => [Pool!Next]_(Pool!vars)
  <2> SUFFICES ASSUME TypeOK, QueueOrder, ThreadInv, OpenerInv, OpenedFirst,
                      [Next]_vars
               PROVE  Pool!Next \/ UNCHANGED poolView
    BY PoolView DEF TypeInv, LifeInv, poolView, Pool!vars, Opened, Handled
  <2>1. ASSUME NEW r \in Input, SendMessageToMe(r) PROVE Pool!Next
    <3>1. Pool!Ask
      BY <2>1 DEF SendMessageToMe, sessionVars, Pool!Ask, Phase
    <3> QED
      BY <3>1 DEF Pool!Next
  <2>2. CASE TimerRun \/ UNCHANGED vars
    BY <2>2 DEF TimerRun, TimerDispatches, TimerEnds, timerShared,
       vars, sessionVars, poolView, Opened, Handled, Phase
  <2> QED
    BY <2>1, <2>2, PoolOfThread, PoolOfManager, PoolOfStop DEF Next, Terminated
<1>3. Steps => Pool!Spec
  BY <1>1, <1>2, TypeInvCorrect, LifeCorrect, OpenerCorrect, OpenedCorrect, PTL
     DEF Steps, Pool!Spec
<1> QED
  BY <1>3 DEF ImplementsPool
=============================================================================
