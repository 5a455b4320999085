----------------------------- MODULE TimerProofs ------------------------------
(***************************************************************************)
(* Proofs about Timer, for any number of sessions and timers.              *)
(*                                                                         *)
(* The argument: a timer's element is handed on, from the session that has *)
(* its number to the queue, to the loop's thread and libevent's heap, to   *)
(* the memory manager, and is never in two hands.  Once it is Out of the   *)
(* callers' hands it does not come back to them; so whatever is known of a *)
(* timer that is in the map, cleared, told of or freed stays true.         *)
(***************************************************************************)
EXTENDS Timer, SequenceTheorems, TLAPS

Queued == {m_AddTimerMap[i] : i \in 1..Len(m_AddTimerMap)}
Told   == {timeouts[i] : i \in 1..Len(timeouts)}

(* The timers the callers and the queue have let go of. *)
Out == {id \in Timer : /\ id < m_timerId
                       /\ \A s \in Session : setting[s] # id
                       /\ id \notin Queued}

(* No two callers and no two places of the queue have the same element. *)
Callers ==
  /\ \A s \in Session : setting[s] < m_timerId /\ m_TimerOutId[s] < m_timerId
  /\ \A s, t \in Session : setting[s] = setting[t] => s = t \/ setting[s] = 0
  /\ \A i \in 1..Len(m_AddTimerMap) :
       /\ m_AddTimerMap[i] < m_timerId
       /\ \A s \in Session : setting[s] # m_AddTimerMap[i]
  /\ \A i, j \in 1..Len(m_AddTimerMap) :
       m_AddTimerMap[i] = m_AddTimerMap[j] => i = j

(* What the loop's thread, libevent and the map have is Out, and none of   *)
(* it has been freed.                                                      *)
Hand    == e # 0 => e \in Out /\ (damaged \/ e \notin deleted)
Pending == /\ pending \subseteq Out
           /\ pending \cap Told = {} /\ pending \cap deleted = {}
           /\ e \in pending => loop = "added"
InMap   == /\ m_TimerMap \subseteq Out
           /\ m_TimerMap \cap Told = {} /\ m_TimerMap \cap cleared = {}
           /\ e \in m_TimerMap => loop = "called"
Cleared == /\ cleared \subseteq Out
           /\ cleared \cap Told = {}
           /\ e \in cleared => loop \in {"called", "deleting"}
Fired   == /\ Told \subseteq Out
           /\ e \in Told => loop = "deleting"
Freed   == deleted \subseteq Out

(* Where Stop is. *)
Swept ==
  /\ sweep \subseteq m_TimerMap
  /\ stop # "sweeping" => sweep = {}
Life ==
  /\ stop = "joined" => loop = "ended"
  /\ m_Base <=> loop \notin {"starting", "ended"}

(* Until Stop is called, what is Out is on its way to be told of, or was   *)
(* cleared, and its element is freed only then.                            *)
Kept ==
  stop = "no" =>
    /\ loop # "ended" /\ ~event_break
    /\ \A id \in Out : \/ id = e
                       \/ id \in pending /\ id \in m_TimerMap \cup cleared
                       \/ id \in deleted /\ id \in cleared \cup Told
    /\ loop = "added" => e \in pending
    /\ loop = "called" => e \in m_TimerMap \cup cleared
    /\ loop = "deleting" => e \in cleared \cup Told

IInv == /\ TypeOK /\ Callers /\ Hand /\ Pending /\ InMap /\ Cleared /\ Fired
        /\ Freed /\ Swept /\ Life /\ FiredOnce /\ SafeUntilSwept
        /\ Kept /\ StopReachesLoop
-----------------------------------------------------------------------------
(* A sequence one longer, or without its head.                             *)
LEMMA Appended ==
  ASSUME NEW S, NEW q \in Seq(S), NEW x \in S
  PROVE  /\ Append(q, x) \in Seq(S)
         /\ Len(Append(q, x)) = Len(q) + 1
         /\ \A i \in 1..Len(q) : Append(q, x)[i] = q[i]
         /\ Append(q, x)[Len(q) + 1] = x
  OBVIOUS

LEMMA Shortened ==
  ASSUME NEW S, NEW q \in Seq(S), q # <<>>
  PROVE  /\ Tail(q) \in Seq(S)
         /\ Head(q) \in S /\ Head(q) = q[1]
         /\ Len(q) > 0 /\ Len(Tail(q)) = Len(q) - 1
         /\ \A i \in 1..Len(Tail(q)) : Tail(q)[i] = q[i + 1]
  OBVIOUS

(* What the race on m_TimerMap can make of the process. *)
LEMMA TouchKeeps ==
  ASSUME Touch
  PROVE  /\ damaged' \in BOOLEAN
         /\ damaged' => stop = "sweeping"
  BY DEF Touch

(* What AddToMap and timerClear leave of the elements to delete. *)
LEMMA SweepOfAdd ==
  ASSUME AddToMap
  PROVE  /\ sweep' = sweep \/ sweep' = sweep \cup {e}
         /\ stop # "sweeping" => sweep' = sweep
  BY DEF AddToMap

LEMMA ClearedSet ==
  ASSUME NEW s \in Session, timerClear(s)
  PROVE  /\ cleared' = cleared \/ (cleared' = cleared \cup {m_TimerOutId[s]}
                                     /\ m_TimerOutId[s] \in m_TimerMap)
         /\ m_TimerMap' = m_TimerMap \ {m_TimerOutId[s]}
         /\ sweep' = sweep \ {m_TimerOutId[s]}
  BY DEF timerClear

(* TypeOK is inductive by itself.                                          *)
LEMMA TypeNext ==
  ASSUME TypeOK, [Next]_vars
  PROVE  TypeOK'
<1>. USE NumTimersAssumption
<1>1. ASSUME NEW s \in Session, TakeId(s) PROVE TypeOK'
  BY <1>1 DEF TakeId, thread, TypeOK, Timer
<1>2. ASSUME NEW s \in Session, timerSet(s) PROVE TypeOK'
  BY <1>2, Appended DEF timerSet, thread, TypeOK, Timer
<1>3. ASSUME NEW s \in Session, timerClear(s) PROVE TypeOK'
  <2>1. damaged' \in BOOLEAN /\ cleared' \subseteq Timer
    BY <1>3, TouchKeeps, ClearedSet DEF timerClear, TypeOK
  <2>2. m_TimerOutId' \in [Session -> {0} \cup Timer]
    BY <1>3 DEF timerClear, TypeOK
  <2>. QED
    BY <1>3, <2>1, <2>2 DEF timerClear, thread, TypeOK
<1>4. CASE Prepare
  BY <1>4 DEF Prepare, outside, callers, TypeOK, Timer
<1>5. CASE Dispatch
  BY <1>5 DEF Dispatch, outside, callers, TypeOK, Timer
<1>6. CASE addTimer
  BY <1>6 DEF addTimer, outside, callers, TypeOK, Timer
<1>7. CASE AddEvent
  <2>1. /\ Head(m_AddTimerMap) \in Timer
        /\ Tail(m_AddTimerMap) \in Seq(Timer)
    BY <1>7, Shortened DEF AddEvent, TypeOK
  <2>2. /\ e' \in Timer /\ m_AddTimerMap' \in Seq(Timer)
        /\ pending' \subseteq Timer /\ loop' = "added"
    BY <1>7, <2>1 DEF AddEvent, TypeOK
  <2>3. UNCHANGED <<outside, m_TimerMap, m_Base, event_break, sweep, deleted,
                    timeouts, damaged>>
    BY <1>7 DEF AddEvent
  <2>. QED
    BY <2>2, <2>3 DEF outside, callers, TypeOK, Timer
<1>8. CASE AddToMap
  <2>1. damaged' \in BOOLEAN /\ sweep' \subseteq Timer
    BY <1>8, TouchKeeps, SweepOfAdd DEF AddToMap, TypeOK
  <2>. QED
    BY <1>8, <2>1 DEF AddToMap, outside, callers, TypeOK, Timer
<1>9. CASE AddedAll
  BY <1>9 DEF AddedAll, outside, callers, TypeOK, Timer
<1>10. ASSUME NEW id \in Timer, processTimer(id) PROVE TypeOK'
  BY <1>10 DEF processTimer, outside, callers, TypeOK, Timer
<1>11. CASE Erase
  <2>1. damaged' \in BOOLEAN
    BY <1>11, TouchKeeps DEF Erase
  <2>. QED
    BY <1>11, <2>1 DEF Erase, outside, callers, TypeOK, Timer
<1>12. CASE SendMessage
  BY <1>12, Appended DEF SendMessage, outside, callers, TypeOK, Timer
<1>13. CASE Delete
  BY <1>13 DEF Delete, outside, callers, TypeOK, Timer
<1>14. CASE LoopEnds
  BY <1>14 DEF LoopEnds, outside, callers, TypeOK, Timer
<1>15. CASE Stop
  BY <1>15 DEF Stop, inside, callers, thread, TypeOK, Timer
<1>16. ASSUME NEW id \in Timer, StopDelete(id) PROVE TypeOK'
  BY <1>16 DEF StopDelete, inside, callers, thread, TypeOK, Timer
<1>17. CASE StopClear
  BY <1>17 DEF StopClear, inside, callers, thread, TypeOK, Timer
<1>18. CASE StopBreak
  BY <1>18 DEF StopBreak, inside, callers, thread, TypeOK, Timer
<1>19. CASE Joined
  BY <1>19 DEF Joined, inside, callers, thread, TypeOK, Timer
<1>20. CASE UNCHANGED vars
  BY <1>20 DEF vars, callers, thread, TypeOK, Timer
<1>. QED
  BY <1>1, <1>2, <1>3, <1>4, <1>5, <1>6, <1>7, <1>8, <1>9, <1>10, <1>11,
    <1>12, <1>13, <1>14, <1>15, <1>16, <1>17, <1>18, <1>19, <1>20 DEF Next,
    Loop, Stopping, Terminated

(* Who touches the numbers, the queue, the messages.                       *)
LEMMA WhoMoves ==
  ASSUME [Next]_vars
  PROVE  /\ \/ \E s \in Session : TakeId(s) \/ timerSet(s)
            \/ AddEvent
            \/ UNCHANGED <<m_timerId, setting, m_AddTimerMap>>
         /\ SendMessage \/ UNCHANGED timeouts
  BY DEF Next, Loop, Stopping, Terminated, vars, callers, thread,
     outside, inside, TakeId, timerSet, timerClear, Prepare, Dispatch,
     addTimer, AddEvent, AddToMap, AddedAll, processTimer, Erase, SendMessage,
     Delete, LoopEnds, Stop, StopDelete, StopClear, StopBreak, Joined

(* The steps that touch what the invariant speaks of, and the others.      *)
Quiet == /\ UNCHANGED <<m_TimerMap, pending, e, sweep, deleted, timeouts,
                         cleared, damaged>>
         /\ loop' = loop \/ e = 0
         /\ (stop = "sweeping" <=> stop' = "sweeping")
         /\ damaged => m_timerId' = m_timerId

LEMMA Frame ==
  ASSUME TypeOK, [Next]_vars
  PROVE  \/ \E s \in Session : timerClear(s)
         \/ AddEvent \/ AddToMap
         \/ \E id \in Timer : processTimer(id)
         \/ Erase \/ SendMessage \/ Delete
         \/ \E id \in Timer : StopDelete(id)
         \/ LoopEnds \/ Stop \/ StopClear
         \/ Quiet
<1>1. ASSUME NEW s \in Session, TakeId(s) \/ timerSet(s) PROVE Quiet
  BY <1>1 DEF TakeId, timerSet, thread, Quiet
<1>2. CASE Prepare \/ Dispatch \/ addTimer \/ AddedAll
  BY <1>2 DEF Prepare, Dispatch, addTimer, AddedAll, outside, callers,
    TypeOK, Quiet
<1>3. CASE StopBreak \/ Joined
  BY <1>3 DEF StopBreak, Joined, inside, callers, thread, Quiet
<1>4. CASE UNCHANGED vars
  BY <1>4 DEF vars, callers, thread, Quiet
<1>. QED
  BY <1>1, <1>2, <1>3, <1>4 DEF Next, Loop, Stopping, Terminated

(* The queue with one element more, and without its head.                  *)
LEMMA QueueGrows ==
  ASSUME TypeOK, NEW s \in Session, timerSet(s)
  PROVE  Queued' = Queued \cup {setting[s]}
<1>. DEFINE q == m_AddTimerMap  x == setting[s]
<1>1. q \in Seq(Timer) /\ x \in Timer
  BY DEF timerSet, TypeOK
<1>2. /\ Len(Append(q, x)) = Len(q) + 1 /\ Len(q) \in Nat
      /\ \A i \in 1..Len(q) : Append(q, x)[i] = q[i]
      /\ Append(q, x)[Len(q) + 1] = x
  BY <1>1, Appended
<1>3. \A i : i \in 1..(Len(q) + 1) <=> i \in 1..Len(q) \/ i = Len(q) + 1
  BY <1>2
<1>. QED
  BY <1>2, <1>3 DEF timerSet, Queued

LEMMA QueueShrinks ==
  ASSUME TypeOK, Callers, AddEvent
  PROVE  /\ Queued' = Queued \ {e'} /\ e' \in Queued /\ e' \in Timer
         /\ e' = m_AddTimerMap[1] /\ 1 \in 1..Len(m_AddTimerMap)
<1>. DEFINE q == m_AddTimerMap
<1>1. /\ Head(q) \in Timer /\ Head(q) = q[1] /\ Len(q) > 0 /\ Len(q) \in Nat
      /\ Len(Tail(q)) = Len(q) - 1
      /\ \A i \in 1..Len(Tail(q)) : Tail(q)[i] = q[i + 1]
  BY Shortened DEF AddEvent, TypeOK
<1>2. \A i \in 1..Len(q) : i = 1 \/ (i - 1 \in 1..Len(Tail(q)) /\ i = (i - 1) + 1)
  BY <1>1
<1>3. \A i \in 1..Len(Tail(q)) : i + 1 \in 1..Len(q) /\ i + 1 # 1
  BY <1>1
<1>4. 1 \in 1..Len(q)
  BY <1>1
<1>5. \A i, j \in 1..Len(q) : q[i] = q[j] => i = j
  BY DEF Callers
<1>6. e' = q[1] /\ m_AddTimerMap' = Tail(q)
  BY <1>1 DEF AddEvent
<1>7. Queued' \subseteq Queued \ {e'}
  BY <1>1, <1>3, <1>4, <1>5, <1>6 DEF Queued
<1>8. Queued \ {e'} \subseteq Queued'
  BY <1>1, <1>2, <1>6 DEF Queued
<1>. QED
  BY <1>1, <1>4, <1>6, <1>7, <1>8 DEF Queued

(* Once out of the callers' hands, always out of them.                     *)
LEMMA OutKept ==
  ASSUME TypeOK, Callers, [Next]_vars
  PROVE  Out \subseteq Out'
<1>1. ASSUME NEW s \in Session, TakeId(s) PROVE Out \subseteq Out'
  <2>1. /\ m_timerId \in Nat /\ m_timerId' = m_timerId + 1
        /\ \A t \in Session : setting'[t] \in {setting[t], m_timerId}
        /\ Queued' = Queued
    BY <1>1 DEF TakeId, TypeOK, Queued
  <2>. QED
    BY <2>1 DEF Out, Timer
<1>2. ASSUME NEW s \in Session, timerSet(s) PROVE Out \subseteq Out'
  <2>1. /\ m_timerId' = m_timerId
        /\ \A t \in Session : setting'[t] \in {setting[t], 0}
    BY <1>2 DEF timerSet, TypeOK
  <2>. QED
    BY <2>1, <1>2, QueueGrows DEF Out, Timer
<1>3. CASE AddEvent
  <2>1. UNCHANGED callers
    BY <1>3 DEF AddEvent, outside
  <2>. QED
    BY <1>3, <2>1, QueueShrinks DEF callers, Out
<1>4. CASE UNCHANGED <<m_timerId, setting, m_AddTimerMap>>
  BY <1>4 DEF Out, Queued
<1>. QED
  BY <1>1, <1>2, <1>3, <1>4, WhoMoves

(* The head of the queue is in nobody else's hands, and is Out as soon as  *)
(* it is taken.                                                            *)
LEMMA HeadOut ==
  ASSUME TypeOK, Callers, AddEvent
  PROVE  e' \in Out' /\ e' \notin Out /\ e' \in Timer
<1>1. UNCHANGED callers
  BY DEF AddEvent, outside
<1>2. e' < m_timerId /\ \A s \in Session : setting[s] # e'
  BY QueueShrinks DEF Callers
<1>. QED
  BY <1>1, <1>2, QueueShrinks DEF callers, Out

(* Only SendMessage tells, and only of the element in hand.                *)
LEMMA ToldGrows ==
  ASSUME TypeOK, [Next]_vars
  PROVE  Told' = Told \/ (SendMessage /\ Told' = Told \cup {e})
<1>1. CASE SendMessage
  <2>. DEFINE q == timeouts
  <2>1. q \in Seq(Timer) /\ e \in Timer /\ timeouts' = Append(q, e)
    BY <1>1 DEF SendMessage, TypeOK
  <2>2. /\ Len(Append(q, e)) = Len(q) + 1 /\ Len(q) \in Nat
        /\ \A i \in 1..Len(q) : Append(q, e)[i] = q[i]
        /\ Append(q, e)[Len(q) + 1] = e
    BY <2>1, Appended
  <2>3. \A i : i \in 1..(Len(q) + 1) <=> i \in 1..Len(q) \/ i = Len(q) + 1
    BY <2>2
  <2>. QED
    BY <1>1, <2>1, <2>2, <2>3 DEF Told
<1>2. CASE UNCHANGED timeouts
  BY <1>2 DEF Told
<1>. QED
  BY <1>1, <1>2, WhoMoves

LEMMA CallersNext ==
  ASSUME TypeOK, Callers, [Next]_vars
  PROVE  Callers'
<1>. USE NumTimersAssumption
<1>1. ASSUME NEW s \in Session, TakeId(s) PROVE Callers'
  <2>1. /\ m_timerId \in Nat /\ m_timerId' = m_timerId + 1 /\ m_timerId > 0
        /\ \A t \in Session : setting'[t] = IF t = s THEN m_timerId ELSE setting[t]
        /\ UNCHANGED <<m_TimerOutId, m_AddTimerMap>>
    BY <1>1 DEF TakeId, TypeOK
  <2>2. /\ \A t \in Session : setting[t] \in Nat /\ m_TimerOutId[t] \in Nat
        /\ \A i \in 1..Len(m_AddTimerMap) : m_AddTimerMap[i] \in Nat
    BY DEF TypeOK, Timer
  <2>3. \A t \in Session : setting'[t] < m_timerId' /\ m_TimerOutId'[t] < m_timerId'
    BY <2>1, <2>2 DEF Callers
  <2>4. \A t, u \in Session : setting'[t] = setting'[u] => t = u \/ setting'[t] = 0
    BY <2>1, <2>2 DEF Callers
  <2>5. \A i \in 1..Len(m_AddTimerMap) :
          /\ m_AddTimerMap[i] < m_timerId'
          /\ \A t \in Session : setting'[t] # m_AddTimerMap[i]
    BY <2>1, <2>2 DEF Callers
  <2>. QED
    BY <2>1, <2>3, <2>4, <2>5 DEF Callers
<1>2. ASSUME NEW s \in Session, timerSet(s) PROVE Callers'
  <2>1. setting[s] \in Timer /\ m_AddTimerMap \in Seq(Timer)
    BY <1>2 DEF timerSet, TypeOK
  <2>2. /\ Len(m_AddTimerMap') = Len(m_AddTimerMap) + 1
        /\ \A i \in 1..Len(m_AddTimerMap) : m_AddTimerMap'[i] = m_AddTimerMap[i]
        /\ m_AddTimerMap'[Len(m_AddTimerMap) + 1] = setting[s]
        /\ Len(m_AddTimerMap) \in Nat
    BY <1>2, <2>1, Appended DEF timerSet
  <2>3. /\ \A t \in Session : setting'[t] = IF t = s THEN 0 ELSE setting[t]
        /\ \A t \in Session : m_TimerOutId'[t] \in {m_TimerOutId[t], setting[s]}
        /\ m_timerId' = m_timerId /\ setting[s] # 0
    BY <1>2 DEF timerSet, TypeOK
  <2>4. \A i \in 1..Len(m_AddTimerMap') :
          i \in 1..Len(m_AddTimerMap) \/ i = Len(m_AddTimerMap) + 1
    BY <2>2
  <2>5. \A t \in Session : setting'[t] < m_timerId' /\ m_TimerOutId'[t] < m_timerId'
    <3>1. setting[s] < m_timerId /\ 0 < m_timerId
      BY DEF Callers, TypeOK
    <3>2. \A t \in Session : m_TimerOutId[t] < m_timerId /\ setting[t] < m_timerId
      BY DEF Callers
    <3>. QED
      BY <3>1, <3>2, <2>3
  <2>6. \A t, u \in Session : setting'[t] = setting'[u] => t = u \/ setting'[t] = 0
    BY <2>3 DEF Callers
  <2>7. \A i \in 1..Len(m_AddTimerMap') :
          /\ m_AddTimerMap'[i] < m_timerId'
          /\ \A t \in Session : setting'[t] # m_AddTimerMap'[i]
    <3>1. ASSUME NEW i \in 1..Len(m_AddTimerMap), NEW t \in Session
          PROVE  setting'[t] # m_AddTimerMap[i]
      BY <2>3 DEF Callers, TypeOK, Timer
    <3>2. ASSUME NEW t \in Session PROVE setting'[t] # setting[s]
      BY <2>3 DEF Callers
    <3>. QED
      BY <3>1, <3>2, <2>2, <2>3, <2>4 DEF Callers
  <2>8. \A i, j \in 1..Len(m_AddTimerMap') :
          m_AddTimerMap'[i] = m_AddTimerMap'[j] => i = j
    BY <2>2, <2>4 DEF Callers
  <2>. QED
    BY <2>5, <2>6, <2>7, <2>8 DEF Callers
<1>3. CASE AddEvent
  <2>1. /\ Len(m_AddTimerMap') = Len(m_AddTimerMap) - 1
        /\ Len(m_AddTimerMap) \in Nat
        /\ \A i \in 1..Len(m_AddTimerMap') :
             m_AddTimerMap'[i] = m_AddTimerMap[i + 1]
    BY <1>3, Shortened DEF AddEvent, TypeOK
  <2>2. \A i \in 1..Len(m_AddTimerMap') : i + 1 \in 1..Len(m_AddTimerMap)
    BY <2>1
  <2>3. UNCHANGED callers
    BY <1>3 DEF AddEvent, outside
  <2>4. \A i, j \in 1..Len(m_AddTimerMap') :
          m_AddTimerMap'[i] = m_AddTimerMap'[j] => i = j
    BY <2>1, <2>2 DEF Callers
  <2>. QED
    BY <2>1, <2>2, <2>3, <2>4 DEF Callers, callers
<1>4. ASSUME NEW s \in Session, timerClear(s) PROVE Callers'
  <2>1. UNCHANGED <<m_timerId, setting, m_AddTimerMap>>
    BY <1>4 DEF timerClear
  <2>2. \A t \in Session : m_TimerOutId'[t] \in {m_TimerOutId[t], 0}
    BY <1>4 DEF timerClear, TypeOK
  <2>3. 0 < m_timerId
    BY DEF TypeOK
  <2>. QED
    BY <2>1, <2>2, <2>3 DEF Callers
<1>5. CASE UNCHANGED <<callers, m_AddTimerMap>>
  BY <1>5 DEF Callers, callers
<1>. QED
  BY <1>1, <1>2, <1>3, <1>4, <1>5 DEF Next, Loop, Stopping, Terminated, vars,
    Prepare, Dispatch, LoopEnds, addTimer, AddToMap, AddedAll, Erase,
    SendMessage, Delete, processTimer, Stop, StopDelete, StopClear, StopBreak,
    Joined, outside, inside

(* The element in hand.                                                    *)
LEMMA HandNext ==
  ASSUME TypeOK, Callers, Hand, Pending, InMap, Cleared, Fired, Freed,
    Swept, SafeUntilSwept, [Next]_vars
  PROVE  Hand'
<1>a. Out \subseteq Out'
  BY OutKept
<1>b. Told' = Told \/ (SendMessage /\ Told' = Told \cup {e})
  BY ToldGrows
<1>c. /\ 0 \notin pending /\ 0 \notin m_TimerMap /\ 0 \notin cleared
      /\ 0 \notin Out
      /\ (loop \in {"added", "called", "found", "deleting"} <=> e # 0)
  BY DEF TypeOK, Timer, Out
<1>1. ASSUME NEW s \in Session, timerClear(s) PROVE Hand'
  BY <1>1, <1>a, <1>b, <1>c DEF timerClear, thread, Touch, Hand, Pending,
    SendMessage
<1>2. CASE AddEvent
  BY <1>2, <1>a, <1>b, <1>c, HeadOut DEF AddEvent, outside, SendMessage,
    Freed, Fired, Hand
<1>3. CASE AddToMap
  BY <1>3, <1>a, <1>b, <1>c DEF AddToMap, outside, callers, Touch, Hand,
    Pending, SendMessage
<1>4. ASSUME NEW id \in Timer, processTimer(id) PROVE Hand'
  BY <1>4, <1>a, <1>b, <1>c DEF processTimer, outside, callers, Hand,
    Pending, SendMessage
<1>5. CASE Erase
  BY <1>5, <1>a, <1>b, <1>c DEF Erase, outside, callers, Touch, Hand,
    Pending, SendMessage
<1>6. CASE SendMessage
  BY <1>6, <1>a, <1>b, <1>c DEF SendMessage, outside, callers, Hand, Pending
<1>7. CASE Delete
  BY <1>7, <1>a, <1>b, <1>c DEF Delete, outside, callers, Hand, Pending,
    SendMessage
<1>8. ASSUME NEW id \in Timer, StopDelete(id) PROVE Hand'
  BY <1>8, <1>a, <1>b, <1>c DEF StopDelete, inside, callers, thread, Hand,
    Pending, SendMessage
<1>9. CASE LoopEnds \/ Stop \/ StopClear
  BY <1>9, <1>a, <1>b, <1>c DEF LoopEnds, outside, callers, Stop, inside,
    thread, StopClear, Hand, Pending, SendMessage
<1>10. CASE Quiet
  BY <1>10, <1>a, <1>b, <1>c DEF Quiet, Hand, Pending, SendMessage
<1>. QED
  BY <1>1, <1>2, <1>3, <1>4, <1>5, <1>6, <1>7, <1>8, <1>9, <1>10, Frame

(* The timers in libevent's heap.                                          *)
LEMMA PendingNext ==
  ASSUME TypeOK, Callers, Hand, Pending, InMap, Cleared, Fired, Freed,
    Swept, SafeUntilSwept, [Next]_vars
  PROVE  Pending'
<1>a. Out \subseteq Out'
  BY OutKept
<1>b. Told' = Told \/ (SendMessage /\ Told' = Told \cup {e})
  BY ToldGrows
<1>c. /\ 0 \notin pending /\ 0 \notin m_TimerMap /\ 0 \notin cleared
      /\ 0 \notin Out
      /\ (loop \in {"added", "called", "found", "deleting"} <=> e # 0)
  BY DEF TypeOK, Timer, Out
<1>1. ASSUME NEW s \in Session, timerClear(s) PROVE Pending'
  BY <1>1, <1>a, <1>b, <1>c DEF timerClear, thread, Touch, Pending,
    SendMessage
<1>2. CASE AddEvent
  BY <1>2, <1>a, <1>b, <1>c, HeadOut DEF AddEvent, outside, SendMessage,
    Freed, Fired, Pending
<1>3. CASE AddToMap
  BY <1>3, <1>a, <1>b, <1>c DEF AddToMap, outside, callers, Touch, Pending,
    SendMessage
<1>4. ASSUME NEW id \in Timer, processTimer(id) PROVE Pending'
  BY <1>4, <1>a, <1>b, <1>c DEF processTimer, outside, callers, Pending,
    SendMessage
<1>5. CASE Erase
  BY <1>5, <1>a, <1>b, <1>c DEF Erase, outside, callers, Touch, Pending,
    SendMessage
<1>6. CASE SendMessage
  BY <1>6, <1>a, <1>b, <1>c DEF SendMessage, outside, callers, Pending
<1>7. CASE Delete
  BY <1>7, <1>a, <1>b, <1>c DEF Delete, outside, callers, Pending,
    SendMessage
<1>8. ASSUME NEW id \in Timer, StopDelete(id) PROVE Pending'
  BY <1>8, <1>a, <1>b, <1>c DEF StopDelete, inside, callers, thread,
    Pending, SendMessage
<1>9. CASE LoopEnds \/ Stop \/ StopClear
  BY <1>9, <1>a, <1>b, <1>c DEF LoopEnds, outside, callers, Stop, inside,
    thread, StopClear, Pending, SendMessage
<1>10. CASE Quiet
  BY <1>10, <1>a, <1>b, <1>c DEF Quiet, Pending, SendMessage
<1>. QED
  BY <1>1, <1>2, <1>3, <1>4, <1>5, <1>6, <1>7, <1>8, <1>9, <1>10, Frame

(* The entries of the map.                                                 *)
LEMMA InMapNext ==
  ASSUME TypeOK, Callers, Hand, Pending, InMap, Cleared, Fired, Freed,
    Swept, SafeUntilSwept, [Next]_vars
  PROVE  InMap'
<1>a. Out \subseteq Out'
  BY OutKept
<1>b. Told' = Told \/ (SendMessage /\ Told' = Told \cup {e})
  BY ToldGrows
<1>c. /\ 0 \notin pending /\ 0 \notin m_TimerMap /\ 0 \notin cleared
      /\ 0 \notin Out
      /\ (loop \in {"added", "called", "found", "deleting"} <=> e # 0)
  BY DEF TypeOK, Timer, Out
<1>1. ASSUME NEW s \in Session, timerClear(s) PROVE InMap'
  BY <1>1, <1>a, <1>b, <1>c DEF timerClear, thread, Touch, InMap, Hand,
    Fired, Cleared, SendMessage
<1>2. CASE AddEvent
  BY <1>2, <1>a, <1>b, <1>c, HeadOut DEF AddEvent, outside, SendMessage,
    Freed, Fired, InMap
<1>3. CASE AddToMap
  BY <1>3, <1>a, <1>b, <1>c DEF AddToMap, outside, callers, Touch, InMap,
    Hand, Fired, Cleared, SendMessage
<1>4. ASSUME NEW id \in Timer, processTimer(id) PROVE InMap'
  BY <1>4, <1>a, <1>b, <1>c DEF processTimer, outside, callers, InMap, Hand,
    Fired, Cleared, SendMessage
<1>5. CASE Erase
  BY <1>5, <1>a, <1>b, <1>c DEF Erase, outside, callers, Touch, InMap, Hand,
    Fired, Cleared, SendMessage
<1>6. CASE SendMessage
  BY <1>6, <1>a, <1>b, <1>c DEF SendMessage, outside, callers, InMap, Hand,
    Fired, Cleared
<1>7. CASE Delete
  BY <1>7, <1>a, <1>b, <1>c DEF Delete, outside, callers, InMap, Hand,
    Fired, Cleared, SendMessage
<1>8. ASSUME NEW id \in Timer, StopDelete(id) PROVE InMap'
  BY <1>8, <1>a, <1>b, <1>c DEF StopDelete, inside, callers, thread, InMap,
    Hand, Fired, Cleared, SendMessage
<1>9. CASE LoopEnds \/ Stop \/ StopClear
  BY <1>9, <1>a, <1>b, <1>c DEF LoopEnds, outside, callers, Stop, inside,
    thread, StopClear, InMap, Hand, Fired, Cleared, SendMessage
<1>10. CASE Quiet
  BY <1>10, <1>a, <1>b, <1>c DEF Quiet, InMap, Hand, Fired, Cleared,
    SendMessage
<1>. QED
  BY <1>1, <1>2, <1>3, <1>4, <1>5, <1>6, <1>7, <1>8, <1>9, <1>10, Frame

(* The timers that were cleared in the map.                                *)
LEMMA ClearedNext ==
  ASSUME TypeOK, Callers, Hand, Pending, InMap, Cleared, Fired, Freed,
    Swept, SafeUntilSwept, [Next]_vars
  PROVE  Cleared'
<1>a. Out \subseteq Out'
  BY OutKept
<1>b. Told' = Told \/ (SendMessage /\ Told' = Told \cup {e})
  BY ToldGrows
<1>c. /\ 0 \notin pending /\ 0 \notin m_TimerMap /\ 0 \notin cleared
      /\ 0 \notin Out
      /\ (loop \in {"added", "called", "found", "deleting"} <=> e # 0)
  BY DEF TypeOK, Timer, Out
<1>1. ASSUME NEW s \in Session, timerClear(s) PROVE Cleared'
  BY <1>1, <1>a, <1>b, <1>c, ClearedSet DEF timerClear, thread, InMap, Cleared, SendMessage
<1>2. CASE AddEvent
  BY <1>2, <1>a, <1>b, <1>c, HeadOut DEF AddEvent, outside, SendMessage,
    Freed, Fired, Cleared
<1>3. CASE AddToMap
  BY <1>3, <1>a, <1>b, <1>c DEF AddToMap, outside, callers, Touch, Cleared,
    InMap, SendMessage
<1>4. ASSUME NEW id \in Timer, processTimer(id) PROVE Cleared'
  BY <1>4, <1>a, <1>b, <1>c DEF processTimer, outside, callers, Cleared,
    InMap, SendMessage
<1>5. CASE Erase
  BY <1>5, <1>a, <1>b, <1>c DEF Erase, outside, callers, Touch, Cleared,
    InMap, SendMessage
<1>6. CASE SendMessage
  BY <1>6, <1>a, <1>b, <1>c DEF SendMessage, outside, callers, Cleared,
    InMap
<1>7. CASE Delete
  BY <1>7, <1>a, <1>b, <1>c DEF Delete, outside, callers, Cleared, InMap,
    SendMessage
<1>8. ASSUME NEW id \in Timer, StopDelete(id) PROVE Cleared'
  BY <1>8, <1>a, <1>b, <1>c DEF StopDelete, inside, callers, thread,
    Cleared, InMap, SendMessage
<1>9. CASE LoopEnds \/ Stop \/ StopClear
  BY <1>9, <1>a, <1>b, <1>c DEF LoopEnds, outside, callers, Stop, inside,
    thread, StopClear, Cleared, InMap, SendMessage
<1>10. CASE Quiet
  BY <1>10, <1>a, <1>b, <1>c DEF Quiet, Cleared, InMap, SendMessage
<1>. QED
  BY <1>1, <1>2, <1>3, <1>4, <1>5, <1>6, <1>7, <1>8, <1>9, <1>10, Frame

(* The timers the manager was told of.                                     *)
LEMMA FiredNext ==
  ASSUME TypeOK, Callers, Hand, Pending, InMap, Cleared, Fired, Freed,
    Swept, SafeUntilSwept, [Next]_vars
  PROVE  Fired'
<1>a. Out \subseteq Out'
  BY OutKept
<1>b. Told' = Told \/ (SendMessage /\ Told' = Told \cup {e})
  BY ToldGrows
<1>c. /\ 0 \notin pending /\ 0 \notin m_TimerMap /\ 0 \notin cleared
      /\ 0 \notin Out
      /\ (loop \in {"added", "called", "found", "deleting"} <=> e # 0)
  BY DEF TypeOK, Timer, Out
<1>1. ASSUME NEW s \in Session, timerClear(s) PROVE Fired'
  BY <1>1, <1>a, <1>b, <1>c DEF timerClear, thread, Touch, Fired, Hand,
    Pending, SendMessage
<1>2. CASE AddEvent
  BY <1>2, <1>a, <1>b, <1>c, HeadOut DEF AddEvent, outside, SendMessage,
    Freed, Fired, Fired
<1>3. CASE AddToMap
  BY <1>3, <1>a, <1>b, <1>c DEF AddToMap, outside, callers, Touch, Fired,
    Hand, Pending, SendMessage
<1>4. ASSUME NEW id \in Timer, processTimer(id) PROVE Fired'
  BY <1>4, <1>a, <1>b, <1>c DEF processTimer, outside, callers, Fired, Hand,
    Pending, SendMessage
<1>5. CASE Erase
  BY <1>5, <1>a, <1>b, <1>c DEF Erase, outside, callers, Touch, Fired, Hand,
    Pending, SendMessage
<1>6. CASE SendMessage
  BY <1>6, <1>a, <1>b, <1>c DEF SendMessage, outside, callers, Fired, Hand,
    Pending
<1>7. CASE Delete
  BY <1>7, <1>a, <1>b, <1>c DEF Delete, outside, callers, Fired, Hand,
    Pending, SendMessage
<1>8. ASSUME NEW id \in Timer, StopDelete(id) PROVE Fired'
  BY <1>8, <1>a, <1>b, <1>c DEF StopDelete, inside, callers, thread, Fired,
    Hand, Pending, SendMessage
<1>9. CASE LoopEnds \/ Stop \/ StopClear
  BY <1>9, <1>a, <1>b, <1>c DEF LoopEnds, outside, callers, Stop, inside,
    thread, StopClear, Fired, Hand, Pending, SendMessage
<1>10. CASE Quiet
  BY <1>10, <1>a, <1>b, <1>c DEF Quiet, Fired, Hand, Pending, SendMessage
<1>. QED
  BY <1>1, <1>2, <1>3, <1>4, <1>5, <1>6, <1>7, <1>8, <1>9, <1>10, Frame

(* The elements that were freed.                                           *)
LEMMA FreedNext ==
  ASSUME TypeOK, Callers, Hand, Pending, InMap, Cleared, Fired, Freed,
    Swept, SafeUntilSwept, [Next]_vars
  PROVE  Freed'
<1>a. Out \subseteq Out'
  BY OutKept
<1>b. Told' = Told \/ (SendMessage /\ Told' = Told \cup {e})
  BY ToldGrows
<1>c. /\ 0 \notin pending /\ 0 \notin m_TimerMap /\ 0 \notin cleared
      /\ 0 \notin Out
      /\ (loop \in {"added", "called", "found", "deleting"} <=> e # 0)
  BY DEF TypeOK, Timer, Out
<1>1. ASSUME NEW s \in Session, timerClear(s) PROVE Freed'
  BY <1>1, <1>a, <1>b, <1>c DEF timerClear, thread, Touch, Freed, Hand,
    InMap, Swept, SendMessage
<1>2. CASE AddEvent
  BY <1>2, <1>a, <1>b, <1>c DEF AddEvent, outside, callers, Freed, Hand,
    InMap, Swept, SendMessage
<1>3. CASE AddToMap
  BY <1>3, <1>a, <1>b, <1>c DEF AddToMap, outside, callers, Touch, Freed,
    Hand, InMap, Swept, SendMessage
<1>4. ASSUME NEW id \in Timer, processTimer(id) PROVE Freed'
  BY <1>4, <1>a, <1>b, <1>c DEF processTimer, outside, callers, Freed, Hand,
    InMap, Swept, SendMessage
<1>5. CASE Erase
  BY <1>5, <1>a, <1>b, <1>c DEF Erase, outside, callers, Touch, Freed, Hand,
    InMap, Swept, SendMessage
<1>6. CASE SendMessage
  BY <1>6, <1>a, <1>b, <1>c DEF SendMessage, outside, callers, Freed, Hand,
    InMap, Swept
<1>7. CASE Delete
  BY <1>7, <1>a, <1>b, <1>c DEF Delete, outside, callers, Freed, Hand,
    InMap, Swept, SendMessage
<1>8. ASSUME NEW id \in Timer, StopDelete(id) PROVE Freed'
  BY <1>8, <1>a, <1>b, <1>c DEF StopDelete, inside, callers, thread, Freed,
    Hand, InMap, Swept, SendMessage
<1>9. CASE LoopEnds \/ Stop \/ StopClear
  BY <1>9, <1>a, <1>b, <1>c DEF LoopEnds, outside, callers, Stop, inside,
    thread, StopClear, Freed, Hand, InMap, Swept, SendMessage
<1>10. CASE Quiet
  BY <1>10, <1>a, <1>b, <1>c DEF Quiet, Freed, Hand, InMap, Swept,
    SendMessage
<1>. QED
  BY <1>1, <1>2, <1>3, <1>4, <1>5, <1>6, <1>7, <1>8, <1>9, <1>10, Frame

(* What Stop has still to free.                                            *)
LEMMA SweptNext ==
  ASSUME TypeOK, Callers, Hand, Pending, InMap, Cleared, Fired, Freed,
    Swept, SafeUntilSwept, [Next]_vars
  PROVE  Swept'
<1>a. Out \subseteq Out'
  BY OutKept
<1>b. Told' = Told \/ (SendMessage /\ Told' = Told \cup {e})
  BY ToldGrows
<1>c. /\ 0 \notin pending /\ 0 \notin m_TimerMap /\ 0 \notin cleared
      /\ 0 \notin Out
      /\ (loop \in {"added", "called", "found", "deleting"} <=> e # 0)
  BY DEF TypeOK, Timer, Out
<1>1. ASSUME NEW s \in Session, timerClear(s) PROVE Swept'
  BY <1>1, <1>c, ClearedSet DEF timerClear, thread, Swept
<1>2. CASE AddEvent
  BY <1>2, <1>a, <1>b, <1>c DEF AddEvent, outside, callers, Swept,
    SendMessage
<1>3. CASE AddToMap
  BY <1>3, <1>c, SweepOfAdd DEF AddToMap, outside, callers, Swept
<1>4. ASSUME NEW id \in Timer, processTimer(id) PROVE Swept'
  BY <1>4, <1>a, <1>b, <1>c DEF processTimer, outside, callers, Swept,
    SendMessage
<1>5. CASE Erase
  BY <1>5, <1>a, <1>b, <1>c DEF Erase, outside, callers, Touch, Swept,
    SendMessage
<1>6. CASE SendMessage
  BY <1>6, <1>a, <1>b, <1>c DEF SendMessage, outside, callers, Swept
<1>7. CASE Delete
  BY <1>7, <1>a, <1>b, <1>c DEF Delete, outside, callers, Swept, SendMessage
<1>8. ASSUME NEW id \in Timer, StopDelete(id) PROVE Swept'
  BY <1>8, <1>a, <1>b, <1>c DEF StopDelete, inside, callers, thread, Swept,
    SendMessage
<1>9. CASE LoopEnds \/ Stop \/ StopClear
  BY <1>9, <1>a, <1>b, <1>c DEF LoopEnds, outside, callers, Stop, inside,
    thread, StopClear, Swept, SendMessage
<1>10. CASE Quiet
  BY <1>10, <1>a, <1>b, <1>c DEF Quiet, Swept, SendMessage
<1>. QED
  BY <1>1, <1>2, <1>3, <1>4, <1>5, <1>6, <1>7, <1>8, <1>9, <1>10, Frame

(* The thread, its base and Stop.                                          *)
LEMMA LifeNext ==
  ASSUME TypeOK, Life, [Next]_vars
  PROVE  Life'
<1>1. ASSUME NEW s \in Session, TakeId(s) PROVE Life'
  BY <1>1 DEF TakeId, thread, Life, TypeOK
<1>2. ASSUME NEW s \in Session, timerSet(s) PROVE Life'
  BY <1>2 DEF timerSet, thread, Life, TypeOK
<1>3. ASSUME NEW s \in Session, timerClear(s) PROVE Life'
  BY <1>3 DEF timerClear, thread, Touch, Life, TypeOK
<1>4. CASE Prepare
  BY <1>4 DEF Prepare, outside, callers, Life, TypeOK
<1>5. CASE Dispatch
  BY <1>5 DEF Dispatch, outside, callers, Life, TypeOK
<1>6. CASE addTimer
  BY <1>6 DEF addTimer, outside, callers, Life, TypeOK
<1>7. CASE AddEvent
  BY <1>7 DEF AddEvent, outside, callers, Life, TypeOK
<1>8. CASE AddToMap
  BY <1>8 DEF AddToMap, outside, callers, Touch, Life, TypeOK
<1>9. CASE AddedAll
  BY <1>9 DEF AddedAll, outside, callers, Life, TypeOK
<1>10. ASSUME NEW id \in Timer, processTimer(id) PROVE Life'
  BY <1>10 DEF processTimer, outside, callers, Life, TypeOK
<1>11. CASE Erase
  BY <1>11 DEF Erase, outside, callers, Touch, Life, TypeOK
<1>12. CASE SendMessage
  BY <1>12 DEF SendMessage, outside, callers, Life, TypeOK
<1>13. CASE Delete
  BY <1>13 DEF Delete, outside, callers, Life, TypeOK
<1>14. CASE LoopEnds
  BY <1>14 DEF LoopEnds, outside, callers, Life, TypeOK
<1>15. CASE Stop
  BY <1>15 DEF Stop, inside, callers, thread, Life, TypeOK
<1>16. ASSUME NEW id \in Timer, StopDelete(id) PROVE Life'
  BY <1>16 DEF StopDelete, inside, callers, thread, Life, TypeOK
<1>17. CASE StopClear
  BY <1>17 DEF StopClear, inside, callers, thread, Life, TypeOK
<1>18. CASE StopBreak
  BY <1>18 DEF StopBreak, inside, callers, thread, Life, TypeOK
<1>19. CASE Joined
  BY <1>19 DEF Joined, inside, callers, thread, Life, TypeOK
<1>20. CASE UNCHANGED vars
  BY <1>20 DEF vars, callers, thread, Life, TypeOK
<1>. QED
  BY <1>1, <1>2, <1>3, <1>4, <1>5, <1>6, <1>7, <1>8, <1>9, <1>10, <1>11,
    <1>12, <1>13, <1>14, <1>15, <1>16, <1>17, <1>18, <1>19, <1>20 DEF Next,
    Loop, Stopping, Terminated

(* Nothing is damaged but by the sweep, and only with a timer in the map.  *)
LEMMA SafeNext ==
  ASSUME TypeOK, Callers, Hand, Pending, InMap, Cleared, Fired, Freed,
    Swept, SafeUntilSwept, [Next]_vars
  PROVE  SafeUntilSwept'
<1>. USE NumTimersAssumption
<1>1. ASSUME NEW s \in Session, timerClear(s) PROVE SafeUntilSwept'
  <2>1. m_timerId' = m_timerId /\ stop' = stop /\ Touch
    BY <1>1 DEF timerClear
  <2>2. m_timerId > 1
    BY <1>1 DEF timerClear, TypeOK, Callers, Timer
  <2>. QED
    BY <2>1, <2>2, TouchKeeps DEF SafeUntilSwept
<1>2. CASE AddEvent
  BY <1>2 DEF AddEvent, outside, callers, SafeUntilSwept
<1>3. CASE AddToMap
  <2>1. m_timerId' = m_timerId /\ stop' = stop /\ Touch
    BY <1>3 DEF AddToMap, outside, callers
  <2>2. e \in Out
    BY <1>3 DEF AddToMap, Hand, TypeOK
  <2>3. m_timerId > 1
    BY <2>2 DEF Out, Timer, TypeOK
  <2>. QED
    BY <2>1, <2>3, TouchKeeps DEF SafeUntilSwept
<1>4. ASSUME NEW id \in Timer, processTimer(id) PROVE SafeUntilSwept'
  BY <1>4 DEF processTimer, outside, callers, SafeUntilSwept
<1>5. CASE Erase
  <2>1. m_timerId' = m_timerId /\ stop' = stop /\ Touch
    BY <1>5 DEF Erase, outside, callers
  <2>2. e \in Out
    BY <1>5 DEF Erase, Hand, TypeOK
  <2>3. m_timerId > 1
    BY <2>2 DEF Out, Timer, TypeOK
  <2>. QED
    BY <2>1, <2>3, TouchKeeps DEF SafeUntilSwept
<1>6. CASE SendMessage
  BY <1>6 DEF SendMessage, outside, callers, SafeUntilSwept
<1>7. CASE Delete
  BY <1>7 DEF Delete, Hand, TypeOK, SafeUntilSwept
<1>8. ASSUME NEW id \in Timer, StopDelete(id) PROVE SafeUntilSwept'
  <2>1. id \in Out
    BY <1>8 DEF StopDelete, Swept, InMap
  <2>2. m_timerId > 1
    BY <2>1 DEF Out, Timer, TypeOK
  <2>. QED
    BY <1>8, <2>2 DEF StopDelete, inside, callers, thread, SafeUntilSwept
<1>9. CASE LoopEnds \/ Stop \/ StopClear
  BY <1>9 DEF LoopEnds, outside, callers, Stop, inside, thread, StopClear,
    SafeUntilSwept
<1>10. CASE Quiet
  BY <1>10 DEF Quiet, SafeUntilSwept
<1>. QED
  BY <1>1, <1>2, <1>3, <1>4, <1>5, <1>6, <1>7, <1>8, <1>9, <1>10, Frame

(* SendMessage tells of a timer nobody was told of.                        *)
LEMMA FiredOnceNext ==
  ASSUME TypeOK, Fired, FiredOnce, [Next]_vars
  PROVE  FiredOnce'
<1>1. CASE SendMessage
  <2>. DEFINE q == timeouts
  <2>1. q \in Seq(Timer) /\ e \in Timer /\ timeouts' = Append(q, e) /\ e \notin Told
    BY <1>1 DEF SendMessage, TypeOK, Fired
  <2>2. /\ Len(Append(q, e)) = Len(q) + 1 /\ Len(q) \in Nat
        /\ \A i \in 1..Len(q) : Append(q, e)[i] = q[i]
        /\ Append(q, e)[Len(q) + 1] = e
    BY <2>1, Appended
  <2>3. \A i \in 1..(Len(q) + 1) : i \in 1..Len(q) \/ i = Len(q) + 1
    BY <2>2
  <2>4. \A i \in 1..Len(q) : q[i] # e
    BY <2>1 DEF Told
  <2>. QED
    BY <2>1, <2>2, <2>3, <2>4 DEF FiredOnce
<1>2. CASE UNCHANGED timeouts
  BY <1>2 DEF FiredOnce
<1>. QED
  BY <1>1, <1>2, WhoMoves

(* Only AddEvent brings a timer Out.                                       *)
LEMMA OutGrows ==
  ASSUME TypeOK, Callers, [Next]_vars
  PROVE  Out' \subseteq Out \/ (AddEvent /\ Out' \subseteq Out \cup {e'})
<1>1. ASSUME NEW s \in Session, TakeId(s) PROVE Out' \subseteq Out
  <2>1. /\ m_timerId \in Nat /\ m_timerId' = m_timerId + 1 /\ m_timerId # 0
        /\ \A t \in Session : setting'[t] = IF t = s THEN m_timerId ELSE setting[t]
        /\ Queued' = Queued /\ setting[s] = 0
    BY <1>1 DEF TakeId, TypeOK, Queued
  <2>. SUFFICES ASSUME NEW id \in Timer, id \in Out' PROVE id \in Out
    BY DEF Out
  <2>2. id # m_timerId /\ id < m_timerId + 1 /\ id \in Nat /\ id # 0
    BY <2>1 DEF Out, Timer
  <2>3. \A t \in Session : setting[t] # id
    BY <2>1, <2>2 DEF Out
  <2>. QED
    BY <2>1, <2>2, <2>3 DEF Out
<1>2. ASSUME NEW s \in Session, timerSet(s) PROVE Out' \subseteq Out
  <2>1. /\ m_timerId' = m_timerId
        /\ \A t \in Session : setting'[t] = IF t = s THEN 0 ELSE setting[t]
        /\ Queued' = Queued \cup {setting[s]}
    BY <1>2, QueueGrows DEF timerSet, TypeOK
  <2>. QED
    BY <2>1 DEF Out
<1>3. CASE AddEvent
  <2>1. UNCHANGED callers
    BY <1>3 DEF AddEvent, outside
  <2>. QED
    BY <1>3, <2>1, QueueShrinks DEF callers, Out
<1>4. CASE UNCHANGED <<m_timerId, setting, m_AddTimerMap>>
  BY <1>4 DEF Out, Queued
<1>. QED
  BY <1>1, <1>2, <1>3, <1>4, WhoMoves

(* No timer is lost on its way.                                            *)
LEMMA KeptNext ==
  ASSUME TypeOK, Callers, Hand, Pending, InMap, Life, Kept, [Next]_vars
  PROVE  Kept'
<1>. SUFFICES ASSUME stop' = "no" PROVE Kept'
  BY DEF Kept
<1>a. stop = "no" /\ missed' = missed
  BY DEF Next, Loop, Stopping, Terminated, vars, callers, thread,
     outside, inside, TakeId, timerSet, timerClear, Prepare, Dispatch,
     addTimer, AddEvent, AddToMap, AddedAll, processTimer, Erase, SendMessage,
     Delete, LoopEnds, Stop, StopDelete, StopClear, StopBreak, Joined
<1>b. Out' \subseteq Out \/ (AddEvent /\ Out' \subseteq Out \cup {e'})
  BY OutGrows
<1>c. Told' = Told \/ (SendMessage /\ Told' = Told \cup {e})
  BY ToldGrows
<1>d. /\ 0 \notin Out
      /\ (loop \in {"added", "called", "found", "deleting"} <=> e # 0)
  BY DEF TypeOK, Timer, Out
<1>1. ASSUME NEW s \in Session, TakeId(s) \/ timerSet(s) PROVE Kept'
  BY <1>1, <1>a, <1>b, <1>c DEF TakeId, timerSet, thread, AddEvent,
    SendMessage, Kept
<1>2. ASSUME NEW s \in Session, timerClear(s) PROVE Kept'
  BY <1>2, <1>a, <1>b, <1>c DEF timerClear, thread, AddEvent, SendMessage,
    Kept
<1>3. CASE Prepare \/ Dispatch \/ addTimer \/ AddedAll
  BY <1>3, <1>a, <1>b, <1>c, <1>d DEF Prepare, Dispatch, addTimer, AddedAll,
    outside, callers, AddEvent, SendMessage, Kept
<1>4. CASE AddEvent
  BY <1>4, <1>a, <1>b, <1>c, <1>d DEF AddEvent, outside, callers, SendMessage,
    Kept
<1>5. CASE AddToMap
  BY <1>5, <1>a, <1>b, <1>c, <1>d DEF AddToMap, outside, callers, AddEvent,
    SendMessage, Kept
<1>6. ASSUME NEW id \in Timer, processTimer(id) PROVE Kept'
  <2>1. id \in Out /\ id # e /\ id \notin deleted
    BY <1>6, <1>d DEF processTimer, Pending
  <2>. QED
    BY <1>6, <2>1, <1>a, <1>b, <1>c, <1>d DEF processTimer, outside, callers,
      AddEvent, SendMessage, Kept
<1>7. CASE Erase
  BY <1>7, <1>a, <1>b, <1>c, <1>d DEF Erase, outside, callers, AddEvent,
    SendMessage, Kept, Hand, Pending, InMap
<1>8. CASE SendMessage
  <2>1. /\ loop = "found" /\ loop' = "deleting" /\ e' = e
        /\ UNCHANGED <<m_TimerMap, pending, cleared, deleted, event_break>>
    BY <1>8 DEF SendMessage, outside
  <2>2. Told' = Told \cup {e} /\ Out' \subseteq Out
    <3>1. ~AddEvent
      BY <2>1 DEF AddEvent
    <3>2. timeouts \in Seq(Timer) /\ e \in Timer
      BY <2>1 DEF TypeOK
    <3>. QED
      BY <3>1, <3>2, <1>8, <1>b, <1>c, Appended DEF SendMessage, Told
  <2>. QED
    BY <1>a, <2>1, <2>2 DEF Kept
<1>9. CASE Delete
  <2>1. /\ loop = "deleting" /\ loop' = "waiting" /\ e' = 0
        /\ deleted' = deleted \cup {e}
        /\ UNCHANGED <<m_TimerMap, pending, cleared, event_break>>
    BY <1>9 DEF Delete, outside
  <2>2. Told' = Told /\ Out' \subseteq Out
    BY <2>1, <1>b, <1>c DEF AddEvent, SendMessage
  <2>3. e \in cleared \cup Told
    BY <1>a, <2>1 DEF Kept
  <2>4. ASSUME NEW id \in Out
        PROVE  \/ id \in pending /\ id \in m_TimerMap \cup cleared
               \/ id \in deleted' /\ id \in cleared \cup Told
    BY <1>a, <2>1, <2>3 DEF Kept
  <2>5. loop # "ended" /\ ~event_break
    BY <1>a DEF Kept
  <2>. QED
    BY <2>1, <2>2, <2>4, <2>5 DEF Kept
<1>10. CASE UNCHANGED vars
  BY <1>10, <1>a, <1>b, <1>c DEF vars, callers, thread, AddEvent, SendMessage,
    Kept
<1>. QED
  BY <1>1, <1>2, <1>3, <1>4, <1>5, <1>6, <1>7, <1>8, <1>9, <1>10, <1>a DEF
    Next, Loop, Stopping, Terminated, LoopEnds, Stop, StopDelete, StopClear,
    StopBreak, Joined, Kept

(* The request to leave the loop stays set once the loop runs.             *)
LEMMA ReachNext ==
  ASSUME TypeOK, Life, StopReachesLoop, [Next]_vars
  PROVE  StopReachesLoop'
<1>1. CASE StopBreak
  BY <1>1 DEF StopBreak, inside, thread, Life, TypeOK, StopReachesLoop
<1>2. CASE stop' # "asked"
  BY <1>2 DEF StopReachesLoop
<1>3. CASE /\ stop' = stop /\ missed' = missed
           /\ event_break' = event_break \/ loop = "prepared"
           /\ loop' \notin {"starting", "prepared"} \/ loop' = loop
                \/ loop = "starting"
           /\ loop = "ended" => loop' = "ended"
  BY <1>3 DEF StopReachesLoop
<1>. QED
  BY <1>1, <1>2, <1>3
     DEF Next, Loop, Stopping, Terminated, vars, callers, thread,
     outside, inside, TakeId, timerSet, timerClear, Prepare, Dispatch,
     addTimer, AddEvent, AddToMap, AddedAll, processTimer, Erase, SendMessage,
     Delete, LoopEnds, Stop, StopDelete, StopClear, Joined

(* The invariant holds in the beginning.                                   *)
LEMMA IInvInit == Init => IInv
<1>. SUFFICES ASSUME Init PROVE IInv
  OBVIOUS
<1>1. TypeOK
  <2>1. m_AddTimerMap \in Seq(Timer) /\ timeouts \in Seq(Timer)
    BY DEF Init
  <2>2. 1 \in 1..(NumTimers + 1)
    BY NumTimersAssumption
  <2>. QED
    BY <2>1, <2>2 DEF Init, TypeOK
<1>2. Queued = {} /\ Told = {}
  BY DEF Init, Queued, Told
<1>3. Callers
  BY DEF Init, Callers
<1>. QED
  BY <1>1, <1>2, <1>3 DEF Init, IInv, Hand, Pending, InMap, Cleared, Fired,
    Freed, Swept, Life, FiredOnce, SafeUntilSwept, Kept, Out, StopReachesLoop,
    Timer

LEMMA IInvNext == IInv /\ [Next]_vars => IInv'
  BY TypeNext, CallersNext, HandNext, PendingNext, InMapNext, ClearedNext,
     FiredNext, FreedNext, SweptNext, LifeNext, FiredOnceNext, SafeNext,
     KeptNext, ReachNext DEF IInv

THEOREM Invariance == Spec => []IInv
  BY IInvInit, IInvNext, PTL DEF Spec

(* Every variable keeps its type, and the thread has an element in hand    *)
(* exactly while it is adding or processing one.                           *)
THEOREM TypeCorrect == Spec => []TypeOK
<1>1. IInv => TypeOK
  BY DEF IInv
<1>. QED
  BY <1>1, Invariance, PTL

(* The manager is told of each timer once at most: SendMessage in          *)
(* CSIATimer::ProcessTimer.                                                *)
THEOREM ToldOnce == Spec => []FiredOnce
<1>1. IInv => FiredOnce
  BY DEF IInv
<1>. QED
  BY <1>1, Invariance, PTL

(* A timer that timerClear found in m_TimerMap is never told of.           *)
THEOREM ClearHolds == Spec => []ClearIsFinal
<1>1. IInv => ClearIsFinal
  <2>. SUFFICES ASSUME IInv, NEW id \in cleared
                PROVE  /\ \A i \in 1..Len(timeouts) : timeouts[i] # id
                       /\ ~(loop = "found" /\ e = id)
    BY DEF ClearIsFinal
  <2>1. id \notin Told
    BY DEF IInv, Cleared
  <2>2. ~(loop = "found" /\ e = id)
    BY DEF IInv, Cleared
  <2>. QED
    BY <2>1, <2>2 DEF Told
<1>. QED
  BY <1>1, Invariance, PTL

(* Memory and map are sound unless Stop is going through the map of a      *)
(* process that sets timers: CSIATimer::Stop without m_mtx.                *)
THEOREM SafeOutsideStop == Spec => []SafeUntilSwept
<1>1. IInv => SafeUntilSwept
  BY DEF IInv
<1>. QED
  BY <1>1, Invariance, PTL

(* The assertion of ~CSIATimer.                                            *)
THEOREM DestructorAssert == Spec => []BaseClosed
<1>1. IInv => BaseClosed
  BY DEF IInv, Life, BaseClosed
<1>. QED
  BY <1>1, Invariance, PTL

(* No timer is lost between settimer and the manager, and no element is    *)
(* kept or freed too soon, as long as nobody calls Stop: the hand-over     *)
(* from AddTimer to ProcessTimer, against timerClear.                      *)
THEOREM NothingForgotten == Spec => []NoneForgotten
<1>1. IInv => NoneForgotten
  <2>. SUFFICES ASSUME IInv, stop = "no", NEW id \in 1..(m_timerId - 1),
                       \A s \in Session : setting[s] # id, id \notin Queued
                PROVE  \/ id = e
                       \/ id \in pending /\ id \in m_TimerMap \cup cleared
                       \/ id \in deleted /\ id \in cleared \cup Told
    BY DEF NoneForgotten, Queued, Told
  <2>1. id \in Out
    BY NumTimersAssumption DEF IInv, TypeOK, Out, Timer
  <2>. QED
    BY <2>1 DEF IInv, Kept
<1>. QED
  BY <1>1, Invariance, PTL

(* CSIATimer::Stop waits for a loop that has got its request, unless the   *)
(* request came before event_base_dispatch.                                *)
THEOREM StopGetsThrough == Spec => []StopReachesLoop
<1>1. IInv => StopReachesLoop
  BY DEF IInv
<1>. QED
  BY <1>1, Invariance, PTL
-----------------------------------------------------------------------------
(* The timers that have been put, as TimerService knows them.              *)
Put == {id \in 1..(m_timerId - 1) : \A s \in Session : setting[s] # id}

LEMMA OutIsPut ==
  ASSUME TypeOK
  PROVE  Out = Put \ Queued
  BY NumTimersAssumption DEF TypeOK, Out, Put, Timer

(* Only timerSet changes what has been put.                                *)
LEMMA PutGrows ==
  ASSUME TypeOK, Callers, [Next]_vars
  PROVE  \/ Put' = Put
         \/ \E s \in Session : /\ timerSet(s) /\ setting[s] \in Timer
                              /\ setting[s] \notin Put
                              /\ Put' = Put \cup {setting[s]}
<1>1. ASSUME NEW s \in Session, TakeId(s) PROVE Put' = Put
  <2>1. /\ m_timerId \in Nat /\ m_timerId' = m_timerId + 1 /\ m_timerId # 0
        /\ \A t \in Session : setting'[t] = IF t = s THEN m_timerId ELSE setting[t]
        /\ setting[s] = 0
    BY <1>1, NumTimersAssumption DEF TakeId, TypeOK
  <2>2. \A id : id \in 1..((m_timerId + 1) - 1)
                <=> id \in 1..(m_timerId - 1) \/ id = m_timerId
    BY <2>1
  <2>3. \A id \in 1..(m_timerId - 1) : id # m_timerId /\ id # 0
    BY <2>1
  <2>. QED
    BY <2>1, <2>2, <2>3 DEF Put
<1>2. ASSUME NEW s \in Session, timerSet(s)
      PROVE  /\ setting[s] \in Timer /\ setting[s] \notin Put
             /\ Put' = Put \cup {setting[s]}
  <2>1. /\ m_timerId' = m_timerId /\ setting[s] \in Timer
        /\ \A t \in Session : setting'[t] = IF t = s THEN 0 ELSE setting[t]
    BY <1>2 DEF timerSet, TypeOK
  <2>2. setting[s] \in 1..(m_timerId - 1)
    BY <2>1, NumTimersAssumption DEF Callers, TypeOK, Timer
  <2>3. \A t \in Session : setting[t] = setting[s] => t = s
    BY <2>1 DEF Callers, Timer
  <2>4. \A id \in 1..(m_timerId - 1) : id # 0
    OBVIOUS
  <2>. QED
    BY <2>1, <2>2, <2>3, <2>4 DEF Put
<1>3. CASE AddEvent
  BY <1>3 DEF AddEvent, outside, callers, Put
<1>4. CASE UNCHANGED <<m_timerId, setting, m_AddTimerMap>>
  BY <1>4 DEF Put
<1>. QED
  BY <1>1, <1>2, <1>3, <1>4, WhoMoves

(* Each step of the timer is one of the service, or none of its business.  *)
LEMMA ServiceStep ==
  ASSUME IInv, [Next]_vars
  PROVE  [Service!Next]_(Service!vars)
<1>. DEFINE Same == UNCHANGED <<Put, timeouts, cleared, deleted>>
            Closing == stop # "no"
<1>a. TypeOK /\ Callers /\ Hand /\ InMap /\ Cleared /\ Fired /\ Swept /\ Kept
      /\ damaged \in BOOLEAN
  BY DEF IInv, TypeOK
<1>b. Out \subseteq Put /\ Out \subseteq Timer /\ 0 \notin Timer
  BY <1>a, OutIsPut DEF Out, Timer
<1>c. \A id : Service!ToldOf(id) <=> id \in Told
  BY DEF Service!ToldOf, Told
<1>d. Put = {id \in 1..(m_timerId - 1) : \A s \in Session : setting[s] # id}
  BY DEF Put
<1>e. \/ Put' = Put
      \/ \E s \in Session : /\ timerSet(s) /\ setting[s] \in Timer
                           /\ setting[s] \notin Put
                           /\ Put' = Put \cup {setting[s]}
  BY <1>a, PutGrows
<1>f. ASSUME Same, UNCHANGED <<stop, damaged>> PROVE UNCHANGED Service!vars
  BY <1>d, <1>f DEF Service!vars, Put
<1>g. ASSUME Same, stop' = stop, ~damaged, damaged' \in BOOLEAN,
             damaged' => Closing
      PROVE  Service!Next
  BY <1>d, <1>g DEF Service!Next, Service!Break, Put
<1>1. ASSUME NEW s \in Session, timerSet(s) PROVE [Service!Next]_(Service!vars)
  <2>1. /\ UNCHANGED <<timeouts, cleared, deleted, stop, damaged>> /\ ~damaged
    BY <1>1 DEF timerSet
  <2>2. CASE Put' = Put
    BY <2>1, <2>2, <1>f
  <2>3. ASSUME NEW id \in Timer, id \notin Put, Put' = Put \cup {id}
        PROVE  Service!Next
    <3>1. Service!Set(id)
      BY <2>1, <2>3, <1>d DEF Service!Set, Put
    <3>. QED
      BY <2>1, <3>1, <1>a DEF Service!Next
  <2>. QED
    BY <2>2, <2>3, <1>e
<1>2. ASSUME NEW s \in Session, timerClear(s) PROVE Service!Next
  <2>. DEFINE id == m_TimerOutId[s]
  <2>1. /\ UNCHANGED <<timeouts, deleted, stop>> /\ Put' = Put /\ ~damaged
        /\ damaged' \in BOOLEAN /\ (damaged' => Closing)
    BY <1>2, TouchKeeps DEF timerClear, Put
  <2>2. CASE cleared' = cleared
    BY <2>1, <2>2, <1>g
  <2>3. CASE cleared' = cleared \cup {id} /\ id \in m_TimerMap
    <3>1. id \in Put /\ id \in Timer /\ id \notin Told
      BY <2>3, <1>a, <1>b DEF InMap
    <3>2. Service!Cancel(id)
      BY <2>1, <2>3, <3>1, <1>c, <1>d DEF Service!Cancel, Put
    <3>. QED
      BY <2>1, <3>1, <3>2 DEF Service!Next
  <2>. QED
    BY <1>2, <2>2, <2>3, ClearedSet
<1>3. CASE AddToMap \/ Erase
  <2>1. /\ Same /\ stop' = stop /\ ~damaged
        /\ damaged' \in BOOLEAN /\ (damaged' => Closing)
    BY <1>3, TouchKeeps DEF AddToMap, Erase, outside, callers, Put
  <2>. QED
    BY <2>1, <1>g
<1>4. CASE SendMessage
  <2>1. /\ UNCHANGED <<Put, cleared, deleted, stop, damaged>> /\ ~damaged
        /\ timeouts' = Append(timeouts, e)
    BY <1>4 DEF SendMessage, outside, callers, Put
  <2>2. /\ e \in Put /\ e \in Timer
        /\ e \notin cleared /\ e \notin deleted /\ e \notin Told
    BY <1>4, <1>a, <1>b DEF SendMessage, TypeOK, Hand, Cleared, Fired
  <2>3. Service!Tell(e)
    BY <2>1, <2>2, <1>c, <1>d DEF Service!Tell, Put
  <2>. QED
    BY <2>1, <2>2, <2>3, <1>a DEF Service!Next
<1>5. CASE Delete
  <2>1. /\ UNCHANGED <<Put, timeouts, cleared, stop>> /\ ~damaged
        /\ deleted' = deleted \cup {e} /\ damaged' = (e \in deleted)
    BY <1>5 DEF Delete, outside, callers, Put
  <2>2. e \in Put /\ e \in Timer /\ e \notin deleted
    BY <1>5, <1>a, <1>b DEF Delete, TypeOK, Hand
  <2>3. e \in Told \/ e \in cleared \/ Closing
    BY <1>5, <1>a DEF Delete, Kept
  <2>4. Service!Free(e)
    BY <2>1, <2>2, <2>3, <1>c, <1>d DEF Service!Free, Put
  <2>. QED
    BY <2>1, <2>2, <2>4, <1>a DEF Service!Next
<1>6. ASSUME NEW id \in Timer, StopDelete(id) PROVE Service!Next
  <2>1. /\ UNCHANGED <<Put, timeouts, cleared, stop>> /\ ~damaged
        /\ deleted' = deleted \cup {id} /\ Closing /\ id \in sweep
        /\ damaged' \in BOOLEAN
    BY <1>6 DEF StopDelete, inside, callers, Put
  <2>2. id \in Put
    BY <2>1, <1>a, <1>b DEF Swept, InMap
  <2>3. CASE id \in deleted
    BY <2>1, <2>3, <1>g
  <2>4. CASE id \notin deleted
    <3>1. Service!Free(id)
      BY <2>1, <2>2, <2>4, <1>d DEF Service!Free, Put
    <3>. QED
      BY <2>1, <3>1 DEF Service!Next
  <2>. QED
    BY <2>3, <2>4
<1>7. CASE Stop
  <2>1. Same /\ ~damaged /\ damaged' = damaged /\ stop' = "sweeping"
    BY <1>7 DEF Stop, inside, callers, Put
  <2>2. Service!Close
    BY <2>1, <1>d DEF Service!Close, Put
  <2>. QED
    BY <2>1, <2>2, <1>a DEF Service!Next
<1>8. CASE \/ \E s \in Session : TakeId(s)
           \/ Prepare \/ Dispatch \/ addTimer \/ AddEvent \/ AddedAll
           \/ LoopEnds \/ \E id \in Timer : processTimer(id)
           \/ UNCHANGED vars
  <2>1. UNCHANGED <<timeouts, cleared, deleted, stop, damaged>>
    BY <1>8 DEF TakeId, Prepare, Dispatch, addTimer, AddEvent, AddedAll,
      LoopEnds, processTimer, outside, vars
  <2>2. Put' = Put
    BY <1>8, <1>e DEF TakeId, Prepare, Dispatch, addTimer, AddEvent, AddedAll,
      LoopEnds, processTimer, outside, vars, callers, timerSet, TypeOK, Put
  <2>. QED
    BY <2>1, <2>2, <1>f
<1>9. CASE StopClear \/ StopBreak \/ Joined
  <2>1. /\ Same /\ damaged' = damaged
        /\ (stop # "no") /\ (stop' # "no")
    BY <1>9 DEF StopClear, StopBreak, Joined, inside, callers, Put
  <2>. QED
    BY <2>1, <1>d DEF Service!vars, Put
<1>. QED
  BY <1>1, <1>2, <1>3, <1>4, <1>5, <1>6, <1>7, <1>8, <1>9 DEF Next, Loop,
    Stopping, Terminated

(* CSIATimer keeps the promise of TimerService: every step of settimer,    *)
(* cleartimer, the timer's thread and Stop is one of the service or leaves *)
(* it alone.                                                               *)
THEOREM ServiceImplemented == Spec => ImplementsService
<1>1. Init => Service!Init
  <2>. SUFFICES ASSUME Init PROVE Service!Init
    OBVIOUS
  <2>1. {id \in 1..(m_timerId - 1) : \A s \in Session : setting[s] # id} = {}
    BY DEF Init
  <2>. QED
    BY <2>1 DEF Init, Service!Init
<1>2. IInv /\ [Next]_vars => [Service!Next]_(Service!vars)
  BY ServiceStep
<1>3. Spec => Service!Spec
  BY <1>1, <1>2, Invariance, PTL DEF Spec, Service!Spec
<1>. QED
  BY <1>3 DEF ImplementsService
=============================================================================
