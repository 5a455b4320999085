-------------------------------- MODULE Timer ---------------------------------
(***************************************************************************)
(* CSIATimer (SiaManager.h, SiaManager.cpp), the timers that               *)
(* TSessionLua::settimer and cleartimer offer a session.                   *)
(*                                                                         *)
(* A session's thread puts a new element into m_AddTimerMap.  The timer's  *)
(* own thread runs libevent's loop: every 50 ms it takes the elements over *)
(* into m_TimerMap, each with an event of its own, and when an event comes *)
(* it takes the element out of the map again, tells the manager and frees  *)
(* it.  timerClear only takes the element out of the map.  Stop, on main's *)
(* thread, frees what is in the map, WITHOUT m_mtx, and ends the loop.     *)
(*                                                                         *)
(* An access to m_TimerMap while Stop goes through it is a data race: the  *)
(* process may survive it as if the access came before or after, or not    *)
(* (damaged, where the model ends).  An element freed twice damages it in  *)
(* any case.  Elements are known by the number m_timerId gave them.        *)
(***************************************************************************)
EXTENDS Sequences, FiniteSets, Integers

CONSTANTS Session,    \* the threads that set and clear timers
          NumTimers   \* bound on the timers that are set

ASSUME NumTimersAssumption == NumTimers \in Nat

Timer == 1..NumTimers

VARIABLES
  m_timerId,      \* the next number
  setting,        \* the number a session has taken and not yet put, 0 if none
  m_TimerOutId,   \* each session's last timer
  m_AddTimerMap,  \* the queue of the elements to take over
  m_TimerMap,     \* the keys of the map
  pending,        \* the timers whose event is in libevent's heap
  loop,           \* the timer's thread, see TypeOK
  e,              \* the element it has in hand, 0 if none
  m_Base,         \* the event base exists
  event_break,    \* libevent's request to leave the loop
  stop,           \* Stop: "no", "sweeping", "swept", "asked", "joined"
  sweep,          \* the elements it has still to delete
  deleted,        \* the elements that have been freed
  timeouts,       \* the messages the manager has been given, in order
  cleared,        \* history: the timers timerClear found in the map
  missed,         \* history: Stop did not reach the running loop
  damaged         \* the process is not what it was

callers == <<m_timerId, setting, m_TimerOutId>>
thread  == <<loop, e, m_Base>>
vars == <<callers, m_AddTimerMap, m_TimerMap, pending, thread, event_break,
          stop, sweep, deleted, timeouts, cleared, missed, damaged>>

Init ==
  /\ m_timerId = 1
  /\ setting = [s \in Session |-> 0]
  /\ m_TimerOutId = [s \in Session |-> 0]
  /\ m_AddTimerMap = <<>> /\ m_TimerMap = {} /\ pending = {}
  /\ loop = "starting" /\ e = 0 /\ m_Base = FALSE /\ event_break = FALSE
  /\ stop = "no" /\ sweep = {} /\ deleted = {} /\ timeouts = <<>>
  /\ cleared = {} /\ missed = FALSE /\ damaged = FALSE

(* What an access to m_TimerMap does to the process. *)
Touch == damaged' \in (IF stop = "sweeping" THEN BOOLEAN ELSE {FALSE})
-----------------------------------------------------------------------------
(* A session's thread: settimer, timerSet.  The number is taken first ...  *)
TakeId(s) ==
  /\ ~damaged
  /\ setting[s] = 0 /\ m_timerId \in Timer
  /\ setting' = [setting EXCEPT ![s] = m_timerId]
  /\ m_timerId' = m_timerId + 1
  /\ UNCHANGED <<m_TimerOutId, m_AddTimerMap, m_TimerMap, pending, thread,
                 event_break, stop, sweep, deleted, timeouts, cleared, missed,
                 damaged>>

(* ... then the element is put.  An older timer of the session is forgotten. *)
timerSet(s) ==
  /\ ~damaged
  /\ setting[s] # 0
  /\ m_AddTimerMap' = Append(m_AddTimerMap, setting[s])
  /\ m_TimerOutId' = [m_TimerOutId EXCEPT ![s] = setting[s]]
  /\ setting' = [setting EXCEPT ![s] = 0]
  /\ UNCHANGED <<m_timerId, m_TimerMap, pending, thread, event_break, stop,
                 sweep, deleted, timeouts, cleared, missed, damaged>>

(* Mutant: timerClear frees the element, as one would expect of it. *)
timerClearFrees(s) ==
  LET id == m_TimerOutId[s] IN
  /\ ~damaged
  /\ setting[s] = 0 /\ id # 0
  /\ m_TimerMap' = m_TimerMap \ {id}
  /\ cleared' = IF id \in m_TimerMap THEN cleared \cup {id} ELSE cleared
  /\ deleted' = IF id \in m_TimerMap THEN deleted \cup {id} ELSE deleted
  /\ pending' = pending \ {id}
  /\ sweep' = sweep \ {id}
  /\ m_TimerOutId' = [m_TimerOutId EXCEPT ![s] = 0]
  /\ Touch
  /\ UNCHANGED <<m_timerId, setting, m_AddTimerMap, thread, event_break,
                 stop, timeouts, missed>>

(* Mutant: timerClear deletes the event and leaves the element. *)
timerClearDisarms(s) ==
  LET id == m_TimerOutId[s] IN
  /\ ~damaged
  /\ setting[s] = 0 /\ id # 0
  /\ m_TimerMap' = m_TimerMap \ {id}
  /\ cleared' = IF id \in m_TimerMap THEN cleared \cup {id} ELSE cleared
  /\ pending' = pending \ {id}
  /\ sweep' = sweep \ {id}
  /\ m_TimerOutId' = [m_TimerOutId EXCEPT ![s] = 0]
  /\ Touch
  /\ UNCHANGED <<m_timerId, setting, m_AddTimerMap, thread, event_break,
                 stop, deleted, timeouts, missed>>

(* cleartimer, timerClear: the element leaves the map, if it has got there *)
(* and is there still; its event and its memory stay.                      *)
timerClear(s) ==
  LET id == m_TimerOutId[s] IN
  /\ ~damaged
  /\ setting[s] = 0 /\ id # 0
  /\ m_TimerMap' = m_TimerMap \ {id}
  /\ cleared' = IF id \in m_TimerMap THEN cleared \cup {id} ELSE cleared
  /\ sweep' = sweep \ {id}
  /\ m_TimerOutId' = [m_TimerOutId EXCEPT ![s] = 0]
  /\ Touch
  /\ UNCHANGED <<m_timerId, setting, m_AddTimerMap, pending, thread,
                 event_break, stop, deleted, timeouts, missed>>
-----------------------------------------------------------------------------
(* The timer's thread: run.  The base is created with the 50 ms event.     *)
outside == <<callers, stop, cleared, missed>>

Prepare ==
  /\ ~damaged /\ loop = "starting"
  /\ loop' = "prepared" /\ m_Base' = TRUE
  /\ UNCHANGED <<outside, m_AddTimerMap, m_TimerMap, pending, e, event_break,
                 sweep, deleted, timeouts, damaged>>

(* event_base_dispatch first forgets a request to leave it. *)
Dispatch ==
  /\ ~damaged /\ loop = "prepared"
  /\ loop' = "waiting" /\ event_break' = FALSE
  /\ UNCHANGED <<outside, m_AddTimerMap, m_TimerMap, pending, e, m_Base,
                 sweep, deleted, timeouts, damaged>>

(* The 50 ms event. *)
addTimer ==
  /\ ~damaged /\ loop = "waiting" /\ ~event_break
  /\ loop' = "adding"
  /\ UNCHANGED <<outside, m_AddTimerMap, m_TimerMap, pending, e, m_Base,
                 event_break, sweep, deleted, timeouts, damaged>>

(* AddTimer: Get, evtimer_new and evtimer_add ... *)
AddEvent ==
  /\ ~damaged /\ loop = "adding" /\ m_AddTimerMap # <<>>
  /\ e' = Head(m_AddTimerMap)
  /\ m_AddTimerMap' = Tail(m_AddTimerMap)
  /\ pending' = pending \cup {e'}
  /\ loop' = "added"
  /\ UNCHANGED <<outside, m_TimerMap, m_Base, event_break, sweep, deleted,
                 timeouts, damaged>>

(* Mutant: the loop goes on with the element it has just entered. *)
AddToMapKeepsHand ==
  /\ ~damaged /\ loop = "added"
  /\ m_TimerMap' = m_TimerMap \cup {e}
  /\ sweep' \in (IF stop = "sweeping" THEN {sweep, sweep \cup {e}} ELSE {sweep})
  /\ loop' = "adding"
  /\ Touch
  /\ UNCHANGED <<outside, m_AddTimerMap, pending, e, m_Base, event_break,
                 deleted, timeouts>>

(* ... then the entry in the map, which Stop's loop may or may not see. *)
AddToMap ==
  /\ ~damaged /\ loop = "added"
  /\ m_TimerMap' = m_TimerMap \cup {e}
  /\ sweep' \in (IF stop = "sweeping" THEN {sweep, sweep \cup {e}} ELSE {sweep})
  /\ loop' = "adding" /\ e' = 0
  /\ Touch
  /\ UNCHANGED <<outside, m_AddTimerMap, pending, m_Base, event_break,
                 deleted, timeouts>>

AddedAll ==
  /\ ~damaged /\ loop = "adding" /\ m_AddTimerMap = <<>>
  /\ loop' = "waiting"
  /\ UNCHANGED <<outside, m_AddTimerMap, m_TimerMap, pending, e, m_Base,
                 event_break, sweep, deleted, timeouts, damaged>>

(* The time of timer id is over: libevent calls processTimer. *)
processTimer(id) ==
  /\ ~damaged /\ loop = "waiting" /\ ~event_break
  /\ id \in pending
  /\ pending' = pending \ {id}
  /\ loop' = "called" /\ e' = id
  /\ UNCHANGED <<outside, m_AddTimerMap, m_TimerMap, m_Base, event_break,
                 sweep, deleted, timeouts, damaged>>

(* Mutant: every timer is told of, cleared or not. *)
EraseUnasked ==
  /\ ~damaged /\ loop = "called"
  /\ m_TimerMap' = m_TimerMap \ {e}
  /\ loop' = "found"
  /\ sweep' = sweep \ {e}
  /\ Touch
  /\ UNCHANGED <<outside, m_AddTimerMap, pending, e, m_Base, event_break,
                 deleted, timeouts>>

(* ProcessTimer: the element leaves the map, under the lock ... *)
Erase ==
  /\ ~damaged /\ loop = "called"
  /\ m_TimerMap' = m_TimerMap \ {e}
  /\ loop' = IF e \in m_TimerMap THEN "found" ELSE "deleting"
  /\ sweep' = sweep \ {e}
  /\ Touch
  /\ UNCHANGED <<outside, m_AddTimerMap, pending, e, m_Base, event_break,
                 deleted, timeouts>>

(* Mutant: the manager is told once more, as if it had not heard. *)
SendMessageRetries ==
  /\ ~damaged /\ loop = "found"
  /\ timeouts' = Append(timeouts, e)
  /\ loop' \in {"found", "deleting"}
  /\ UNCHANGED <<outside, m_AddTimerMap, m_TimerMap, pending, e, m_Base,
                 event_break, sweep, deleted, damaged>>

(* ... the manager is told, if it was there ... *)
SendMessage ==
  /\ ~damaged /\ loop = "found"
  /\ timeouts' = Append(timeouts, e)
  /\ loop' = "deleting"
  /\ UNCHANGED <<outside, m_AddTimerMap, m_TimerMap, pending, e, m_Base,
                 event_break, sweep, deleted, damaged>>

(* ... and the element is freed. *)
Delete ==
  /\ ~damaged /\ loop = "deleting"
  /\ deleted' = deleted \cup {e}
  /\ damaged' = (e \in deleted)
  /\ loop' = "waiting" /\ e' = 0
  /\ UNCHANGED <<outside, m_AddTimerMap, m_TimerMap, pending, m_Base,
                 event_break, sweep, timeouts>>

(* The loop is left and the base freed, with the events that are in it. *)
LoopEnds ==
  /\ ~damaged /\ loop = "waiting" /\ event_break
  /\ loop' = "ended" /\ m_Base' = FALSE /\ pending' = {}
  /\ UNCHANGED <<outside, m_AddTimerMap, m_TimerMap, e, event_break, sweep,
                 deleted, timeouts, damaged>>

Loop == \/ Prepare \/ Dispatch \/ LoopEnds
        \/ addTimer \/ AddEvent \/ AddToMap \/ AddedAll
        \/ Erase \/ SendMessage \/ Delete
-----------------------------------------------------------------------------
(* main's thread: Stop goes through the map ... *)
inside == <<callers, m_AddTimerMap, thread, timeouts, cleared>>

Stop ==
  /\ ~damaged /\ stop = "no"
  /\ stop' = "sweeping" /\ sweep' = m_TimerMap
  /\ UNCHANGED <<inside, m_TimerMap, pending, event_break, deleted, missed,
                 damaged>>

(* ... and frees each element.  One whose event is being processed waits   *)
(* in event_free for the end of the callback, which frees it, too.         *)
StopDelete(id) ==
  /\ ~damaged /\ stop = "sweeping"
  /\ id \in sweep /\ \A other \in sweep : id <= other
  /\ sweep' = sweep \ {id}
  /\ pending' = pending \ {id}
  /\ deleted' = deleted \cup {id}
  /\ damaged' = (id = e \/ id \in deleted)
  /\ UNCHANGED <<inside, m_TimerMap, event_break, stop, missed>>

StopClear ==
  /\ ~damaged /\ stop = "sweeping" /\ sweep = {}
  /\ m_TimerMap' = {} /\ stop' = "swept"
  /\ UNCHANGED <<inside, pending, event_break, sweep, deleted, missed,
                 damaged>>

(* Mutant: nobody tells the loop. *)
StopBreakForgets ==
  /\ ~damaged /\ stop = "swept"
  /\ stop' = "asked"
  /\ UNCHANGED <<inside, m_TimerMap, pending, event_break, sweep, deleted,
                 missed, damaged>>

(* event_base_loopbreak: without a base it does nothing. *)
StopBreak ==
  /\ ~damaged /\ stop = "swept"
  /\ stop' = "asked"
  /\ event_break' = (event_break \/ m_Base)
  /\ missed' = (loop \in {"starting", "prepared"})
  /\ UNCHANGED <<inside, m_TimerMap, pending, sweep, deleted, damaged>>

Joined ==
  /\ ~damaged /\ stop = "asked" /\ loop = "ended"
  /\ stop' = "joined"
  /\ UNCHANGED <<inside, m_TimerMap, pending, event_break, sweep, deleted,
                 missed, damaged>>

Stopping == \/ \E id \in Timer : StopDelete(id)
            \/ StopClear \/ StopBreak \/ Joined

(* Stop has returned, or there is nothing to say any more. *)
Terminated == (damaged \/ stop = "joined") /\ UNCHANGED vars

Next ==
  \/ \E s \in Session : TakeId(s) \/ timerSet(s) \/ timerClear(s)
  \/ Loop
  \/ \E id \in Timer : processTimer(id)
  \/ Stop \/ Stopping
  \/ Terminated

(* The timer's thread runs; libevent's heap of timeouts passes no timer    *)
(* over for ever, however many other events it serves; main's thread runs  *)
(* once it is in Stop.  Nothing forces a session to set, to put or to      *)
(* clear a timer, nor main to call Stop.                                   *)
Fairness == /\ WF_vars(Loop)
            /\ \A id \in Timer : SF_vars(processTimer(id))
            /\ WF_vars(Stopping)

Spec == Init /\ [][Next]_vars /\ Fairness
-----------------------------------------------------------------------------
TypeOK ==
  /\ m_timerId \in 1..(NumTimers + 1)
  /\ setting \in [Session -> {0} \cup Timer]
  /\ m_TimerOutId \in [Session -> {0} \cup Timer]
  /\ m_AddTimerMap \in Seq(Timer)
  /\ m_TimerMap \subseteq Timer /\ pending \subseteq Timer
  /\ loop \in {"starting", "prepared", "waiting", "adding", "added",
               "called", "found", "deleting", "ended"}
  /\ e \in {0} \cup Timer
  /\ loop \in {"added", "called", "found", "deleting"} <=> e # 0
  /\ m_Base \in BOOLEAN /\ event_break \in BOOLEAN
  /\ stop \in {"no", "sweeping", "swept", "asked", "joined"}
  /\ sweep \subseteq Timer /\ deleted \subseteq Timer
  /\ timeouts \in Seq(Timer)
  /\ cleared \subseteq Timer
  /\ missed \in BOOLEAN /\ damaged \in BOOLEAN

(* ProcessTimer: however settimer, cleartimer, the 50 ms event, the        *)
(* timers' own events and Stop interleave, the manager is told of a timer  *)
(* once at most.                                                           *)
FiredOnce ==
  \A i, j \in 1..Len(timeouts) : timeouts[i] = timeouts[j] => i = j

(* A timer that timerClear has found in the map is never told of: the      *)
(* erase under m_mtx decides between timerClear and ProcessTimer.  (A      *)
(* timer that is cleared before the 50 ms event has taken it over, or      *)
(* after ProcessTimer has taken it out, is told of all the same.)          *)
ClearIsFinal ==
  \A id \in cleared : /\ \A i \in 1..Len(timeouts) : timeouts[i] # id
                      /\ ~(loop = "found" /\ e = id)

(* No element is freed twice or used after it was freed, and the map is    *)
(* not torn, but while Stop goes through the map without m_mtx, and then   *)
(* only in a process that has set a timer.                                 *)
SafeUntilSwept == damaged => stop = "sweeping" /\ m_timerId > 1

(* assert(m_Base == NULL) in ~CSIATimer, which runs when Stop has returned. *)
BaseClosed == stop = "joined" => ~m_Base

(* No timer is forgotten: until Stop is called, each timer is with the      *)
(* session that sets it, in the queue, in the hand of the timer's thread,  *)
(* or in libevent's heap, where it is still in the map or was cleared; or  *)
(* its element is freed, and then the timer was cleared or told of.        *)
NoneForgotten ==
  stop = "no" =>
    \A id \in 1..(m_timerId - 1) :
      \/ \E s \in Session : setting[s] = id
      \/ \E i \in 1..Len(m_AddTimerMap) : m_AddTimerMap[i] = id
      \/ id = e
      \/ id \in pending /\ id \in m_TimerMap \cup cleared
      \/ /\ id \in deleted
         /\ id \in cleared \/ \E i \in 1..Len(timeouts) : timeouts[i] = id

(* Stop waits for a loop that it has missed, that is over, or that is      *)
(* running with the request to leave it set.                               *)
StopReachesLoop ==
  stop = "asked" => \/ missed \/ loop = "ended"
                    \/ event_break /\ loop \notin {"starting", "prepared"}

(* CSIATimer offers the service that sessions and manager rely on. *)
Service == INSTANCE TimerService
             WITH set <- {id \in 1..(m_timerId - 1) :
                            \A s \in Session : setting[s] # id},
                  told <- timeouts, cancelled <- cleared, freed <- deleted,
                  closing <- stop # "no", broken <- damaged
ImplementsService == Service!Spec

(* A timer that has been put is told of, unless it was cleared in the map, *)
(* and its element is freed in either case, unless Stop was called: it     *)
(* passes the queue, libevent's heap and the map, of which timerClear      *)
(* changes only the last.                                                  *)
TimersFire ==
  \A id \in Timer :
    (\E i \in 1..Len(m_AddTimerMap) : m_AddTimerMap[i] = id)
      ~> \/ /\ id \in deleted
            /\ id \in cleared \/ \E i \in 1..Len(timeouts) : timeouts[i] = id
         \/ stop # "no"

(* Stop returns when it has reached the running loop: a request to leave   *)
(* it that comes before event_base_dispatch is forgotten.                  *)
StopReturns == stop # "no" ~> (stop = "joined" \/ missed \/ damaged)
=============================================================================
