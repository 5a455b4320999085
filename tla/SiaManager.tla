----------------------------- MODULE SiaManager ------------------------------
(***************************************************************************)
(* TSiaManager and its TSessionLua objects (SiaManager.cpp,                *)
(* SiaSession.cpp): the core of the server.                                *)
(*                                                                         *)
(* The TCP server thread puts every request on m_mainqueue.  The manager   *)
(* thread takes them one by one; a request of an opening kind gets a new   *)
(* session, with a thread of its own, and is dispatched to the session's   *)
(* queue; any other is dispatched to the session its invokeID or its call  *)
(* id names.  The session's thread handles one message, answers it,        *)
(* detaches itself and takes the session out of m_Sessions.  Stop ends the *)
(* manager thread and the timer's, and destroys the sessions that are      *)
(* left.  Nothing in the manager or a session sets a timer any more: of    *)
(* CSIATimer only its thread is here, the rest is in module Timer.         *)
(*                                                                         *)
(* Each section under m_sessionMtx is one action, and so is each operation *)
(* on a queue (module EventBuffer).  What a handler does with the gateway  *)
(* data is in module GatewayManager; here it answers, stays silent or      *)
(* throws.  A message is reduced to what the dispatching looks at.         *)
(***************************************************************************)
EXTENDS Sequences, FiniteSets, Integers

CONSTANTS CallId,      \* the call ids, strings of the requests
          EmptyId,     \* the empty string among them
          Absent,      \* the member is missing
          Bad,         \* a "connection" that is not an object
          FirstId,     \* the first session id (10000 in the code)
          m_max_session_num,
          NumMsgs,     \* bound on the requests that arrive
          Input        \* the requests that may arrive

SessionId == FirstId .. (FirstId + NumMsgs - 1)

(* HandleMessage opens a session for these, in the order of its tests. *)
OpeningCmd == {"Received", "acdRoute", "acdRouteEx", "acdReRoute",
               "acdRouteUsed", "acdRouteEnd", "HeartBeat"}

(* HandleUserMsg has a handler for these, and each handler answers. *)
RequestCmd == {"acdRoute", "acdRouteEx", "acdReRoute", "acdRouteUsed",
               "acdRouteEnd"}

(* The handlers among them that call the GatewayManager, and may throw. *)
GatewayCmd == RequestCmd \ {"acdReRoute"}

Cmd == OpeningCmd \cup {"CallCleared", "other"}

(* callid is param["callid"], conn the callID of param["connection"]. *)
Request == [cmd : Cmd, receiver : {0} \cup SessionId,
            callid : CallId \cup {Absent}, conn : CallId \cup {Absent, Bad}]

(* A message is a request with the number of its arrival. *)
Message == [n : 1..NumMsgs, req : Request]

(* The message of Stop() carries no request. *)
ManagerStop == [n |-> 0, req |-> "SiaManagerStop"]
IsStop(m) == m.n = 0

ASSUME ConstantsAssumption ==
  /\ EmptyId \in CallId
  /\ Absent \notin CallId /\ Bad \notin CallId /\ Absent # Bad
  /\ NumMsgs \in Nat
  /\ FirstId \in Nat \ {0}
  /\ m_max_session_num \in Nat \ {0}
  /\ Input \subseteq Request

VARIABLES
  m_mainqueue,   \* the manager's queue
  arrived,       \* how many requests have arrived
  mpc,           \* the manager thread: "get", "associate", "dispatch", "ended"
  tranInfo,      \* the message it has in hand
  sid,           \* the session id it has found for it, 0 if none
  nextId,        \* the static counter of GenerationSessionId
  m_Sessions,    \* the keys of the map of sessions
  m_Callid2SessionMap,
  m_EventQueue,  \* each session's queue
  thread,        \* each session's thread
  current,       \* the message it has taken from the queue
  attached,      \* the sessions whose m_thread is joinable
  m_connection,  \* each session's copy of the connection
  replies,       \* how many responses each session has sent
  freed,         \* the sessions whose object is destroyed
  opener,        \* history: the message each session was created for
  timer,         \* the thread of m_Timer
  stop,          \* Stop(): "no", "asked", "timer", "clearing", "done"
  destroying,    \* what m_Sessions.clear() is at: a session id, or 0
  joining,       \* ... and whether it has entered m_thread.join()
  crashed        \* the process has been terminated

mgrVars     == <<mpc, tranInfo, sid>>
sessionVars == <<m_EventQueue, thread, current, attached, m_connection,
                 replies, freed, opener>>
stopVars    == <<timer, stop, destroying, joining, crashed>>
vars == <<m_mainqueue, arrived, mgrVars, nextId, m_Sessions,
          m_Callid2SessionMap, sessionVars, stopVars>>

Unmapped == -1
NoMessage == [n |-> 0, req |-> "none"]

Init ==
  /\ m_mainqueue = <<>> /\ arrived = 0
  /\ mpc = "get" /\ tranInfo = NoMessage /\ sid = 0
  /\ nextId = FirstId
  /\ m_Sessions = {}
  /\ m_Callid2SessionMap = [c \in CallId |-> Unmapped]
  /\ m_EventQueue = [s \in SessionId |-> <<>>]
  /\ thread = [s \in SessionId |-> "none"]
  /\ current = [s \in SessionId |-> NoMessage]
  /\ attached = {}
  /\ m_connection = [s \in SessionId |-> Absent]
  /\ replies = [s \in SessionId |-> 0]
  /\ freed = {}
  /\ opener = [s \in SessionId |-> NoMessage]
  /\ timer = "starting"
  /\ stop = "no" /\ destroying = 0 /\ joining = FALSE /\ crashed = FALSE
-----------------------------------------------------------------------------
(* The TCP server thread: SiaTcpClient::onReceived, SendMessageToMe.  It   *)
(* runs until OnDisconnect has stopped it, which comes last of all.        *)
SendMessageToMe(r) ==
  /\ ~crashed
  /\ arrived < NumMsgs
  /\ arrived' = arrived + 1
  /\ m_mainqueue' = Append(m_mainqueue, [n |-> arrived + 1, req |-> r])
  /\ UNCHANGED <<mgrVars, nextId, m_Sessions, m_Callid2SessionMap,
                 sessionVars, stopVars>>
-----------------------------------------------------------------------------
(* Mutant: the message stays at the front of the queue. *)
TakeRequestKeeps ==
  /\ ~crashed
  /\ mpc = "get" /\ m_mainqueue # <<>> /\ ~IsStop(Head(m_mainqueue))
  /\ tranInfo' = Head(m_mainqueue)
  /\ UNCHANGED m_mainqueue

(* The manager thread: run() takes the head of the queue. *)
TakeRequest ==
  /\ ~crashed
  /\ mpc = "get" /\ m_mainqueue # <<>> /\ ~IsStop(Head(m_mainqueue))
  /\ m_mainqueue' = Tail(m_mainqueue)
  /\ tranInfo' = Head(m_mainqueue)

request == Head(m_mainqueue).req

(* A receiver in the message: dispatch to it, whatever the command. *)
UseReceiver ==
  /\ TakeRequest
  /\ request.receiver # 0
  /\ sid' = request.receiver
  /\ mpc' = "dispatch"
  /\ UNCHANGED <<arrived, nextId, m_Sessions, m_Callid2SessionMap,
                 sessionVars, stopVars>>

(* An opening command below the limit: NewSession creates the session,     *)
(* whose constructor starts its thread, and puts it in the map.            *)
NewSession ==
  /\ TakeRequest
  /\ request.receiver = 0 /\ request.cmd \in OpeningCmd
  /\ Cardinality(m_Sessions) < m_max_session_num
  /\ sid' = nextId
  /\ nextId' = nextId + 1
  /\ m_Sessions' = m_Sessions \cup {nextId}
  /\ thread' = [thread EXCEPT ![nextId] = "get"]
  /\ attached' = attached \cup {nextId}
  /\ opener' = [opener EXCEPT ![nextId] = Head(m_mainqueue)]
  /\ mpc' = "associate"
  /\ UNCHANGED <<arrived, m_Callid2SessionMap, m_EventQueue, current,
                 m_connection, replies, freed, stopVars>>

(* Mutant: at the limit NewSession returns the last id it has given. *)
NewSessionReturnsLast ==
  /\ TakeRequest
  /\ request.receiver = 0 /\ request.cmd \in OpeningCmd
  /\ Cardinality(m_Sessions) >= m_max_session_num
  /\ sid' = nextId - 1
  /\ mpc' = "associate"
  /\ UNCHANGED <<arrived, nextId, m_Sessions, m_Callid2SessionMap,
                 sessionVars, stopVars>>

(* The limit is reached: NewSession returns 0. *)
NewSessionRefused ==
  /\ TakeRequest
  /\ request.receiver = 0 /\ request.cmd \in OpeningCmd
  /\ Cardinality(m_Sessions) >= m_max_session_num
  /\ sid' = 0
  /\ mpc' = "associate"
  /\ UNCHANGED <<arrived, nextId, m_Sessions, m_Callid2SessionMap,
                 sessionVars, stopVars>>

(* Mutant: a call id that is not in the map is not noticed. *)
GetSessionUnchecked ==
  /\ TakeRequest
  /\ request.receiver = 0 /\ request.cmd \notin OpeningCmd
  /\ LET c == request.callid IN
     sid' = IF c \in CallId THEN m_Callid2SessionMap[c] ELSE 0
  /\ mpc' = "dispatch"
  /\ UNCHANGED <<arrived, nextId, m_Sessions, m_Callid2SessionMap,
                 sessionVars, stopVars>>

(* Any other command: GetSessionByCallId. *)
GetSessionByCallId ==
  /\ TakeRequest
  /\ request.receiver = 0 /\ request.cmd \notin OpeningCmd
  /\ LET c == request.callid IN
     sid' = IF c \in CallId /\ m_Callid2SessionMap[c] # Unmapped
            THEN m_Callid2SessionMap[c] ELSE 0
  /\ mpc' = "dispatch"
  /\ UNCHANGED <<arrived, nextId, m_Sessions, m_Callid2SessionMap,
                 sessionVars, stopVars>>

(* Mutant: the session is associated under the callID of the connection. *)
AssociateByConnection ==
  /\ ~crashed
  /\ mpc = "associate"
  /\ LET c == tranInfo.req.conn IN
     m_Callid2SessionMap' =
       IF c \in CallId /\ m_Callid2SessionMap[c] = Unmapped
       THEN [m_Callid2SessionMap EXCEPT ![c] = sid]
       ELSE m_Callid2SessionMap
  /\ mpc' = "dispatch"
  /\ UNCHANGED <<m_mainqueue, arrived, tranInfo, sid, nextId, m_Sessions,
                 sessionVars, stopVars>>

(* AssociateSessionByCallId: the first session keeps the call id, and the  *)
(* 0 of a refused session is stored like any other.                        *)
AssociateSessionByCallId ==
  /\ ~crashed
  /\ mpc = "associate"
  /\ LET c == tranInfo.req.callid IN
     m_Callid2SessionMap' =
       IF c \in CallId /\ m_Callid2SessionMap[c] = Unmapped
       THEN [m_Callid2SessionMap EXCEPT ![c] = sid]
       ELSE m_Callid2SessionMap
  /\ mpc' = "dispatch"
  /\ UNCHANGED <<m_mainqueue, arrived, tranInfo, sid, nextId, m_Sessions,
                 sessionVars, stopVars>>

(* The end of HandleMessage: without a session id, or when the session is  *)
(* no longer in the map (DispatchThreadMessage), the message is dropped.   *)
Dispatch ==
  /\ ~crashed
  /\ mpc = "dispatch"
  /\ m_EventQueue' =
       IF sid \in m_Sessions
       THEN [m_EventQueue EXCEPT ![sid] = Append(@, tranInfo)]
       ELSE m_EventQueue
  /\ mpc' = "get" /\ tranInfo' = NoMessage /\ sid' = 0
  /\ UNCHANGED <<m_mainqueue, arrived, nextId, m_Sessions,
                 m_Callid2SessionMap, thread, current, attached,
                 m_connection, replies, freed, opener, stopVars>>

(* The message of Stop ends run(); what is queued behind it stays there. *)
ManagerEnds ==
  /\ ~crashed
  /\ mpc = "get" /\ m_mainqueue # <<>> /\ IsStop(Head(m_mainqueue))
  /\ m_mainqueue' = Tail(m_mainqueue)
  /\ mpc' = "ended"
  /\ UNCHANGED <<arrived, tranInfo, sid, nextId, m_Sessions,
                 m_Callid2SessionMap, sessionVars, stopVars>>

Manager == \/ UseReceiver \/ NewSession \/ NewSessionRefused
           \/ GetSessionByCallId \/ AssociateSessionByCallId
           \/ Dispatch \/ ManagerEnds
-----------------------------------------------------------------------------
(* The thread of session s: TSessionLua::run. *)
sessionShared == <<m_mainqueue, arrived, mgrVars, nextId, timer, stop,
                   destroying, joining, opener>>

(* m_EventQueue.Get returns a message. *)
Get(s) ==
  /\ ~crashed
  /\ thread[s] = "get" /\ m_EventQueue[s] # <<>>
  /\ m_EventQueue' = [m_EventQueue EXCEPT ![s] = Tail(@)]
  /\ IF IsStop(Head(m_EventQueue[s]))
     THEN /\ thread' = [thread EXCEPT ![s] = "ended"]
          /\ UNCHANGED current
     ELSE /\ thread' = [thread EXCEPT ![s] = "busy"]
          /\ current' = [current EXCEPT ![s] = Head(m_EventQueue[s])]
  /\ UNCHANGED <<sessionShared, m_Sessions, m_Callid2SessionMap, attached,
                 m_connection, replies, freed, crashed>>

(* Mutant: the way out after a timeout forgets to detach the thread. *)
TimeOutWithoutDetach(s) ==
  /\ ~crashed
  /\ thread[s] = "get" /\ m_EventQueue[s] = <<>>
  /\ thread' = [thread EXCEPT ![s] = "detached"]
  /\ UNCHANGED <<sessionShared, m_Sessions, m_Callid2SessionMap,
                 m_EventQueue, current, attached, m_connection, replies,
                 freed, crashed>>

(* An hour without a message: Get returns false. *)
GetTimesOut(s) ==
  /\ ~crashed
  /\ thread[s] = "get" /\ m_EventQueue[s] = <<>>
  /\ thread' = [thread EXCEPT ![s] = "closing"]
  /\ UNCHANGED <<sessionShared, m_Sessions, m_Callid2SessionMap,
                 m_EventQueue, current, attached, m_connection, replies,
                 freed, crashed>>

(* What m_connection is once HandleMessage has looked at the message. *)
NewConnection(s) ==
  LET r == current[s].req IN
  IF r.cmd = "CallCleared" \/ r.conn = Absent THEN m_connection[s] ELSE r.conn

(* Mutant: the session waits for the next message instead of closing. *)
HandleMessageStays(s) ==
  /\ ~crashed
  /\ thread[s] = "busy"
  /\ m_connection' = [m_connection EXCEPT ![s] = NewConnection(s)]
  /\ thread' = [thread EXCEPT ![s] = "get"]
  /\ UNCHANGED <<sessionShared, m_Sessions, m_Callid2SessionMap,
                 m_EventQueue, current, attached, replies, freed, crashed>>

(* TSessionLua::HandleMessage and HandleUserMsg: a handler answers if the  *)
(* request came with a connection.  IsClose is true afterwards, because    *)
(* nothing subscribes to events any more, so one message is all a session  *)
(* ever handles.                                                           *)
HandleMessage(s) ==
  /\ ~crashed
  /\ thread[s] = "busy"
  /\ m_connection' = [m_connection EXCEPT ![s] = NewConnection(s)]
  /\ replies' =
       IF current[s].req.cmd \in RequestCmd /\ NewConnection(s) # Absent
       THEN [replies EXCEPT ![s] = @ + 1] ELSE replies
  /\ thread' = [thread EXCEPT ![s] = "closing"]
  /\ UNCHANGED <<sessionShared, m_Sessions, m_Callid2SessionMap,
                 m_EventQueue, current, attached, freed, crashed>>

(* A handler throws (a route_id that is no int, a rule longer than the     *)
(* number): run() logs it and ends, the session stays in the map.          *)
HandlerThrows(s) ==
  /\ ~crashed
  /\ thread[s] = "busy"
  /\ current[s].req.cmd \in GatewayCmd /\ NewConnection(s) # Absent
  /\ m_connection' = [m_connection EXCEPT ![s] = NewConnection(s)]
  /\ thread' = [thread EXCEPT ![s] = "ended"]
  /\ UNCHANGED <<sessionShared, m_Sessions, m_Callid2SessionMap,
                 m_EventQueue, current, attached, replies, freed, crashed>>

(* m_thread.detach(): from here nobody can wait for the thread. *)
Detach(s) ==
  /\ ~crashed
  /\ thread[s] = "closing"
  /\ thread' = [thread EXCEPT ![s] = "detached"]
  /\ attached' = attached \ {s}
  /\ UNCHANGED <<sessionShared, m_Sessions, m_Callid2SessionMap,
                 m_EventQueue, current, m_connection, replies, freed, crashed>>

(* The key RemoveSession erases: connection["callID"], not the call id the *)
(* session was associated with.                                            *)
CallKey(s) == IF m_connection[s] \in CallId THEN m_connection[s] ELSE EmptyId

(* Mutant: the session to erase is found by the call id. *)
EraseByCallId(s) ==
  /\ m_Sessions' = m_Sessions \ {m_Callid2SessionMap[CallKey(s)]}
  /\ m_Callid2SessionMap' = [m_Callid2SessionMap EXCEPT ![CallKey(s)] = Unmapped]
  /\ thread' = [thread EXCEPT ![s] = "removed"]

EraseSession(s) ==
  /\ m_Callid2SessionMap' = [m_Callid2SessionMap EXCEPT ![CallKey(s)] = Unmapped]
  /\ m_Sessions' = m_Sessions \ {s}
  /\ thread' = [thread EXCEPT ![s] = "removed"]

(* RemoveSession: the caller keeps the last reference to the session.      *)
(* clear() of OnDisconnect runs without the lock: together they are a data *)
(* race, and so is a call on an object clear() has destroyed already; the  *)
(* process may survive it or not.                                          *)
RemoveSession(s) ==
  /\ ~crashed
  /\ thread[s] = "detached" /\ m_connection[s] # Bad
  /\ IF s \in m_Sessions
     THEN EraseSession(s)
     ELSE /\ thread' = [thread EXCEPT ![s] = "ended"]
          /\ UNCHANGED <<m_Callid2SessionMap, m_Sessions>>
  /\ IF stop \in {"clearing", "done"}
     THEN crashed' \in BOOLEAN ELSE UNCHANGED crashed
  /\ UNCHANGED <<sessionShared, m_EventQueue, current, attached,
                 m_connection, replies, freed>>

(* A connection that is not an object has no ["callID"]: the exception     *)
(* leaves run() with the session still in the map.                         *)
RemoveSessionThrows(s) ==
  /\ ~crashed
  /\ thread[s] = "detached" /\ m_connection[s] = Bad
  /\ thread' = [thread EXCEPT ![s] = "ended"]
  /\ UNCHANGED <<sessionShared, m_Sessions, m_Callid2SessionMap,
                 m_EventQueue, current, attached, m_connection, replies,
                 freed, crashed>>

(* run() returns: its shared_ptr was the last one, ~TSessionLua runs here. *)
Release(s) ==
  /\ ~crashed
  /\ thread[s] = "removed"
  /\ thread' = [thread EXCEPT ![s] = "ended"]
  /\ freed' = freed \cup {s}
  /\ UNCHANGED <<sessionShared, m_Sessions, m_Callid2SessionMap,
                 m_EventQueue, current, attached, m_connection, replies,
                 crashed>>

Session(s) == \/ Get(s) \/ HandleMessage(s) \/ HandlerThrows(s)
              \/ Detach(s) \/ RemoveSession(s) \/ RemoveSessionThrows(s)
              \/ Release(s)
-----------------------------------------------------------------------------
(* The thread of m_Timer: CSIATimer::run.  event_base_dispatch first       *)
(* forgets a request to leave it.                                          *)
timerShared == <<m_mainqueue, arrived, mgrVars, nextId, m_Sessions,
                 m_Callid2SessionMap, sessionVars, stop, destroying, joining,
                 crashed>>

TimerDispatches ==
  /\ ~crashed /\ timer = "starting"
  /\ timer' = "dispatching"
  /\ UNCHANGED timerShared

TimerEnds ==
  /\ ~crashed /\ timer = "leaving"
  /\ timer' = "ended"
  /\ UNCHANGED timerShared

TimerRun == TimerDispatches \/ TimerEnds
-----------------------------------------------------------------------------
(* main() calls Stop: the message that ends the manager thread. *)
stopShared == <<arrived, mgrVars, nextId, current, m_connection, replies,
                opener, thread>>

Stop ==
  /\ ~crashed /\ stop = "no"
  /\ stop' = "asked"
  /\ m_mainqueue' = Append(m_mainqueue, ManagerStop)
  /\ UNCHANGED <<stopShared, m_Sessions, m_Callid2SessionMap, m_EventQueue,
                 attached, freed, timer, destroying, joining, crashed>>

(* What event_base_loopbreak does to the timer's thread: one whose loop    *)
(* has not been dispatched yet forgets it, and turns for ever.             *)
ToldToLeave == CASE timer = "dispatching" -> "leaving"
                 [] timer = "starting"    -> "missed"
                 [] OTHER                 -> timer

(* Mutant: Stop does not wait for the end of the manager thread. *)
TimerStopWithoutJoin ==
  /\ ~crashed /\ stop = "asked"
  /\ stop' = "timer"
  /\ timer' = ToldToLeave
  /\ UNCHANGED <<stopShared, m_mainqueue, m_Sessions, m_Callid2SessionMap,
                 m_EventQueue, attached, freed, destroying, joining, crashed>>

(* m_MainThread.join() returns; m_Timer.Stop() finds no timer in its map,  *)
(* tells the loop to leave ...                                             *)
TimerStop ==
  /\ ~crashed /\ stop = "asked" /\ mpc = "ended"
  /\ stop' = "timer"
  /\ timer' = ToldToLeave
  /\ UNCHANGED <<stopShared, m_mainqueue, m_Sessions, m_Callid2SessionMap,
                 m_EventQueue, attached, freed, destroying, joining, crashed>>

(* ... and joins the thread; OnDisconnect starts m_Sessions.clear(). *)
OnDisconnect ==
  /\ ~crashed /\ stop = "timer" /\ timer = "ended"
  /\ stop' = "clearing" /\ UNCHANGED timer
  /\ UNCHANGED <<stopShared, m_mainqueue, m_Sessions, m_Callid2SessionMap,
                 m_EventQueue, attached, freed, destroying, joining, crashed>>

(* clear() comes to session s, whose destructor calls TSessionLua::Stop:   *)
(* with a joinable thread it first puts the message that ends it ...       *)
ClearAttached(s) ==
  /\ ~crashed /\ stop = "clearing" /\ destroying = 0
  /\ s \in m_Sessions /\ s \in attached
  /\ destroying' = s /\ joining' = FALSE
  /\ m_EventQueue' = [m_EventQueue EXCEPT ![s] = Append(@, ManagerStop)]
  /\ UNCHANGED <<stopShared, m_mainqueue, m_Sessions, m_Callid2SessionMap,
                 attached, freed, timer, stop, crashed>>

(* ... then calls join(), which throws out of the destructor when the      *)
(* thread has detached itself in between ...                               *)
EnterJoin ==
  /\ ~crashed /\ destroying # 0 /\ ~joining
  /\ IF destroying \in attached
     THEN joining' = TRUE /\ UNCHANGED crashed
     ELSE crashed' = TRUE /\ UNCHANGED joining
  /\ UNCHANGED <<stopShared, m_mainqueue, m_Sessions, m_Callid2SessionMap,
                 m_EventQueue, attached, freed, timer, stop, destroying>>

(* ... and waits for the end of the thread. *)
Joined ==
  /\ ~crashed /\ destroying # 0 /\ joining
  /\ thread[destroying] = "ended"
  /\ m_Sessions' = m_Sessions \ {destroying}
  /\ attached' = attached \ {destroying}
  /\ freed' = freed \cup {destroying}
  /\ destroying' = 0 /\ joining' = FALSE
  /\ UNCHANGED <<stopShared, m_mainqueue, m_Callid2SessionMap, m_EventQueue,
                 timer, stop, crashed>>

(* Mutant: the destructor does not wait for the thread. *)
ClearWithoutJoin(s) ==
  /\ ~crashed /\ stop = "clearing" /\ destroying = 0
  /\ s \in m_Sessions
  /\ m_Sessions' = m_Sessions \ {s}
  /\ freed' = freed \cup {s}
  /\ UNCHANGED <<stopShared, m_mainqueue, m_Callid2SessionMap, m_EventQueue,
                 attached, timer, stop, destroying, joining, crashed>>

(* A session whose thread is not joinable is destroyed at once. *)
ClearDetached(s) ==
  /\ ~crashed /\ stop = "clearing" /\ destroying = 0
  /\ s \in m_Sessions /\ s \notin attached
  /\ m_Sessions' = m_Sessions \ {s}
  /\ freed' = freed \cup {s}
  /\ UNCHANGED <<stopShared, m_mainqueue, m_Callid2SessionMap, m_EventQueue,
                 attached, timer, stop, destroying, joining, crashed>>

(* The map is empty: m_Callid2SessionMap.clear(), then the TCP server. *)
Stopped ==
  /\ ~crashed /\ stop = "clearing" /\ destroying = 0 /\ m_Sessions = {}
  /\ m_Callid2SessionMap' = [c \in CallId |-> Unmapped]
  /\ stop' = "done"
  /\ UNCHANGED <<stopShared, m_mainqueue, m_Sessions, m_EventQueue, attached,
                 freed, timer, destroying, joining, crashed>>

Stopping == \/ TimerStop \/ OnDisconnect \/ EnterJoin \/ Joined \/ Stopped
            \/ \E s \in SessionId : ClearAttached(s) \/ ClearDetached(s)

(* The process is gone: terminated, or Stop has returned; or it hangs in   *)
(* Stop, on a timer's thread that has missed the request.                  *)
Terminated == (crashed \/ stop = "done" \/ timer = "missed") /\ UNCHANGED vars

Next ==
  \/ \E r \in Input : SendMessageToMe(r)
  \/ Manager
  \/ \E s \in SessionId : Session(s) \/ GetTimesOut(s)
  \/ TimerRun
  \/ Stop \/ Stopping
  \/ Terminated

(* The threads run: the manager's, every session's, the timer's, and main  *)
(* in Stop().  Nothing forces a request to arrive, the hour to pass or     *)
(* Stop.                                                                   *)
Fairness == /\ WF_vars(Manager)
            /\ \A s \in SessionId : WF_vars(Session(s))
            /\ WF_vars(TimerRun) /\ WF_vars(Stopping)

Steps == Init /\ [][Next]_vars

Spec == Steps /\ Fairness
-----------------------------------------------------------------------------
QueuedMessage == Message \cup {ManagerStop}
HeldMessage   == Message \cup {NoMessage}
TimerState    == {"starting", "dispatching", "missed", "leaving", "ended"}

TypeOK ==
  /\ m_mainqueue \in Seq(QueuedMessage)
  /\ arrived \in 0..NumMsgs
  /\ mpc \in {"get", "associate", "dispatch", "ended"}
  /\ tranInfo \in HeldMessage
  /\ mpc \in {"associate", "dispatch"} => tranInfo \in Message
  /\ sid \in {0} \cup SessionId
  /\ nextId \in FirstId .. (FirstId + NumMsgs)
  /\ m_Sessions \in SUBSET SessionId
  /\ m_Callid2SessionMap \in [CallId -> {Unmapped, 0} \cup SessionId]
  /\ m_EventQueue \in [SessionId -> Seq(QueuedMessage)]
  /\ thread \in [SessionId -> {"none", "get", "busy", "closing", "detached",
                               "removed", "ended"}]
  /\ current \in [SessionId -> HeldMessage]
  /\ attached \in SUBSET SessionId
  /\ m_connection \in [SessionId -> CallId \cup {Absent, Bad}]
  /\ replies \in [SessionId -> Nat]
  /\ freed \in SUBSET SessionId
  /\ opener \in [SessionId -> HeldMessage]
  /\ timer \in TimerState
  /\ stop \in {"no", "asked", "timer", "clearing", "done"}
  /\ destroying \in {0} \cup SessionId
  /\ joining \in BOOLEAN /\ crashed \in BOOLEAN

(* The map of sessions never holds more than session_num of them, although *)
(* NewSession and RemoveSession run on different threads.                  *)
SessionLimit == Cardinality(m_Sessions) <= m_max_session_num

(* The message a session handles is the one it was created for: neither a  *)
(* message that names the session in its invokeID nor one that finds it by *)
(* call id can get ahead of it.                                            *)
HandlesItsOpener ==
  \A s \in SessionId : current[s] # NoMessage => current[s] = opener[s]

(* No thread joins itself: when run() holds the last reference, and its    *)
(* end runs ~TSessionLua on the session's own thread, the thread has been  *)
(* detached, so that the destructor does not wait for it.                  *)
NoSelfJoin ==
  \A s \in SessionId : thread[s] = "removed" => s \notin attached

(* Until Stop clears the map, a session whose thread is still at work, or  *)
(* may yet take a message, is in the map: nothing is dispatched to nobody. *)
LiveSessionsInMap ==
  stop \in {"no", "asked", "timer"} =>
    \A s \in SessionId :
      thread[s] \in {"get", "busy", "closing", "detached"} => s \in m_Sessions

(* Stop destroys no session whose thread is waiting or handling a message: *)
(* a thread can outlive its object only between detach() and the end.      *)
FreedOnlyAfterDetach ==
  \A s \in freed : thread[s] \in {"detached", "removed", "ended"}

(* A call id leads to the session that was opened with that call id. *)
CallMapFaithful ==
  \A c \in CallId :
    LET s == m_Callid2SessionMap[c] IN
    s \in SessionId => opener[s] # NoMessage /\ opener[s].req.callid = c

(* Session s was opened by message m, or with the call id m asks for. *)
MeantFor(s, m) ==
  \/ m = opener[s]
  \/ /\ m.req.cmd \notin OpeningCmd /\ m.req.callid \in CallId
     /\ opener[s].req.callid = m.req.callid

(* Whatever RemoveSession erases or leaves in the map of the call ids, and *)
(* however late a message comes: one that names no session waits only for  *)
(* the session it opened, or for one that was opened with its call id.     *)
NoStraying ==
  \A s \in SessionId : \A i \in 1..Len(m_EventQueue[s]) :
    LET m == m_EventQueue[s][i] IN
    ~IsStop(m) /\ m.req.receiver = 0 => MeantFor(s, m)

(* Where the request with number n is. *)
InMainQueue(n) == {i \in 1..Len(m_mainqueue) : m_mainqueue[i].n = n}
InQueue(n, s)  == {i \in 1..Len(m_EventQueue[s]) : m_EventQueue[s][i].n = n}
Places(n) ==
  {<<"main", i>> : i \in InMainQueue(n)}
  \cup (IF tranInfo.n = n THEN {<<"manager", 0>>} ELSE {})
  \cup (UNION {{<<"queue", s, i>> : i \in InQueue(n, s)} : s \in SessionId})
  \cup {<<"current", s>> : s \in {t \in SessionId : current[t].n = n}}

(* A request is in one place at most: no two threads handle it, and no     *)
(* session handles it twice.                                               *)
RequestOnce == \A n \in 1..arrived : \A p, q \in Places(n) : p = q

(* Once the sessions are cleared no session's thread is left that could    *)
(* still answer: OnDisconnect goes on to delete the TCP server the answers *)
(* would be given to.                                                      *)
NoAnswerAfterStop ==
  stop = "done" => \A s \in SessionId : thread[s] \notin {"get", "busy"}

(* The thread of a session waits at an empty queue only while the manager  *)
(* has its message in hand and will find it in the map: none sits out the  *)
(* hour of Get.                                                            *)
NoIdleSession ==
  \A s \in SessionId :
    thread[s] = "get" /\ m_EventQueue[s] = <<>> =>
      mpc \in {"associate", "dispatch"} /\ sid = s /\ s \in m_Sessions

(* A session answers once at most, and only a request it has taken and     *)
(* that asks for an answer.                                                *)
OneReply ==
  \A s \in SessionId :
    /\ replies[s] \in {0, 1}
    /\ replies[s] = 1 => /\ thread[s] \notin {"none", "get", "busy"}
                         /\ current[s] = opener[s] /\ current[s] # NoMessage
                         /\ current[s].req.cmd \in RequestCmd

HasStop(q) == \E i \in 1..Len(q) : IsStop(q[i])

(* Whoever main waits for in Stop has been told: the message that ends it  *)
(* is in the queue of the manager, and in that of the session that is      *)
(* being destroyed, until it is taken; the timer's thread leaves its loop, *)
(* unless it had not dispatched it when it was told.                       *)
StopHeard ==
  /\ stop = "asked" /\ mpc # "ended" => HasStop(m_mainqueue)
  /\ stop = "timer" => timer \in {"missed", "leaving", "ended"}
  /\ destroying # 0 =>
       /\ stop = "clearing" /\ thread[destroying] # "none"
       /\ thread[destroying] = "get" => HasStop(m_EventQueue[destroying])

(* The assertions of ~TSiaManager: when Stop has returned both maps are    *)
(* empty, and nobody puts anything into them afterwards.                   *)
DestructorAsserts ==
  stop = "done" =>
    m_Sessions = {} /\ \A c \in CallId : m_Callid2SessionMap[c] = Unmapped

(* Where a session's thread is, as its requester cares. *)
Phase == [s \in SessionId |->
            CASE thread[s] = "none" -> "none"
              [] thread[s] = "get"  -> "waiting"
              [] thread[s] = "busy" -> "working"
              [] OTHER              -> "through"]

(* The manager and its sessions keep what SessionPool promises. *)
Pool == INSTANCE SessionPool
          WITH Member <- SessionId, Limit <- m_max_session_num,
               asked <- arrived, phase <- Phase, answers <- replies,
               opened <- [s \in SessionId |-> opener[s].n],
               handled <- [s \in SessionId |-> current[s].n],
               pool <- m_Sessions
ImplementsPool == Pool!Spec

(* The comment on the loop of TSessionLua::run: a session that handles     *)
(* events executes the ones that are in its queue before it is gone.       *)
QueueDrained ==
  \A s \in freed :
    current[s] # NoMessage =>
      \A i \in 1..Len(m_EventQueue[s]) : IsStop(m_EventQueue[s][i])
=============================================================================
