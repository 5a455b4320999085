------------------------------ MODULE TcpServer -------------------------------
(***************************************************************************)
(* The TCP server of the process: TcpServerModule and TcpClient            *)
(* (TcpServerModule.cpp) with SiaTCPServer and SiaTcpClient                *)
(* (SiaTcpServer.cpp).                                                     *)
(*                                                                         *)
(* One thread runs libevent's loop; each callback is one action.  Session  *)
(* threads put answers into m_Datas (PutMessage), every 50 ms the loop     *)
(* hands them to the connections (OnWriteble).  main() starts the loop's   *)
(* thread and ends it with Stop.                                           *)
(*                                                                         *)
(* Connection k, the k-th to be accepted, is given station 9 + k.  Every   *)
(* answer is put for station 10 (SendMessageToSS), connection 1.  An entry *)
(* of m_Connects is a pointer that outlives its object; what using one     *)
(* does is any of: the answer is lost, it goes to a connection that was    *)
(* allocated in the same place, the process dies.                          *)
(***************************************************************************)
EXTENDS Sequences, FiniteSets, Integers

CONSTANTS NumClients,    \* bound on the connections that are made
          NumRequests    \* bound on the requests that arrive

ASSUME NumClientsAssumption == NumClients \in Nat \ {0}
ASSUME NumRequestsAssumption == NumRequests \in Nat

Client == 1..NumClients
SS == 1                  \* the connection with station 10

VARIABLES
  loop,              \* the thread: "starting", "prepared", "dispatching", "ended"
  event_break,       \* libevent's request to leave the loop
  accepted,          \* how many connections have been accepted
  g_TCPClientMap,    \* the connections whose object exists
  m_Connects,        \* the connections in the map of the stations
  m_login_timer,     \* the connections whose login timer is pending
  m_heartbeat_timer, \* ... whose heartbeat timer is pending
  received,          \* how many requests have been received
  puts,              \* how many answers have been put
  m_Datas,           \* the answers waiting for each connection
  written,           \* the answers written to each connection
  lost,              \* the answers nobody got
  stop,              \* main(): "no", "asked", "joined"
  missed,            \* history: Stop did not reach the running loop
  crashed            \* the process has been terminated

timers  == <<m_login_timer, m_heartbeat_timer>>
answers == <<puts, m_Datas, written, lost>>
stops   == <<stop, missed>>
vars == <<loop, event_break, accepted, g_TCPClientMap, m_Connects, timers,
          received, answers, stops, crashed>>

Init ==
  /\ loop = "starting" /\ event_break = FALSE
  /\ accepted = 0
  /\ g_TCPClientMap = {} /\ m_Connects = {}
  /\ m_login_timer = {} /\ m_heartbeat_timer = {}
  /\ received = 0 /\ puts = 0
  /\ m_Datas = [c \in Client |-> <<>>]
  /\ written = [c \in Client |-> <<>>]
  /\ lost = {}
  /\ stop = "no" /\ missed = FALSE /\ crashed = FALSE
-----------------------------------------------------------------------------
(* listenTCP: the base is created, then the listener.                      *)
Prepare ==
  /\ ~crashed /\ loop = "starting"
  /\ loop' = "prepared"
  /\ UNCHANGED <<event_break, accepted, g_TCPClientMap, m_Connects, timers,
                 received, answers, stops, crashed>>

(* The base or the listener cannot be created: the thread ends. *)
ListenFails ==
  /\ ~crashed /\ loop \in {"starting", "prepared"}
  /\ loop' = "ended"
  /\ UNCHANGED <<event_break, accepted, g_TCPClientMap, m_Connects, timers,
                 received, answers, stops, crashed>>

(* event_base_dispatch first forgets a request to leave it. *)
Dispatch ==
  /\ ~crashed /\ loop = "prepared"
  /\ loop' = "dispatching" /\ event_break' = FALSE
  /\ UNCHANGED <<accepted, g_TCPClientMap, m_Connects, timers, received,
                 answers, stops, crashed>>

LoopEnds ==
  /\ ~crashed /\ loop = "dispatching" /\ event_break
  /\ loop' = "ended"
  /\ UNCHANGED <<event_break, accepted, g_TCPClientMap, m_Connects, timers,
                 received, answers, stops, crashed>>

Dispatching == ~crashed /\ loop = "dispatching" /\ ~event_break

(* A callback that runs comes to its end, whether Stop has asked for the   *)
(* end of the loop meanwhile or not.                                       *)
InCallback == ~crashed /\ loop = "dispatching"
-----------------------------------------------------------------------------
(* Mutant: an accepted connection replaces the one with station 10. *)
AcceptReusesStation ==
  /\ Dispatching
  /\ accepted < NumClients
  /\ accepted' = accepted + 1
  /\ g_TCPClientMap' = g_TCPClientMap \cup {accepted'}
  /\ m_Connects' = {accepted'}
  /\ m_login_timer' = m_login_timer \cup {accepted'}
  /\ UNCHANGED <<loop, event_break, m_heartbeat_timer, received, answers,
                 stops, crashed>>

(* listener_cb and OnAccept: the next station, which nobody has; the       *)
(* constructor starts the login timer.                                     *)
Accept ==
  /\ Dispatching
  /\ accepted < NumClients
  /\ accepted' = accepted + 1
  /\ g_TCPClientMap' = g_TCPClientMap \cup {accepted'}
  /\ m_Connects' = m_Connects \cup {accepted'}
  /\ m_login_timer' = m_login_timer \cup {accepted'}
  /\ UNCHANGED <<loop, event_break, m_heartbeat_timer, received, answers,
                 stops, crashed>>

(* conn_read_cb with a "ping": the heartbeat timer starts anew. *)
Ping(c) ==
  /\ InCallback /\ c \in g_TCPClientMap
  /\ m_heartbeat_timer' = m_heartbeat_timer \cup {c}
  /\ UNCHANGED <<loop, event_break, accepted, g_TCPClientMap, m_Connects,
                 m_login_timer, received, answers, stops, crashed>>

(* conn_read_cb with anything else goes to the manager, whoever sent it:   *)
(* the login is never asked for.                                           *)
ReceiveRequest(c) ==
  /\ InCallback /\ c \in g_TCPClientMap
  /\ received < NumRequests
  /\ received' = received + 1
  /\ UNCHANGED <<loop, event_break, accepted, g_TCPClientMap, m_Connects,
                 timers, answers, stops, crashed>>

(* Mutant: the destructor forgets the login timer. *)
DeleteKeepsLoginTimer(c) ==
  /\ g_TCPClientMap' = g_TCPClientMap \ {c}
  /\ m_heartbeat_timer' = m_heartbeat_timer \ {c}
  /\ UNCHANGED m_login_timer

(* delete this: the timers are freed and the object is gone.  Its entry in *)
(* m_Connects stays, because m_station, under which it is looked up, was   *)
(* never set: it is -1 until a login.                                      *)
Delete(c) ==
  /\ g_TCPClientMap' = g_TCPClientMap \ {c}
  /\ m_login_timer' = m_login_timer \ {c}
  /\ m_heartbeat_timer' = m_heartbeat_timer \ {c}

(* conn_eventcb: the peer closed the connection, or an error did. *)
OnClosed(c) ==
  /\ Dispatching /\ c \in g_TCPClientMap
  /\ Delete(c)
  /\ UNCHANGED <<loop, event_break, accepted, m_Connects, received, answers,
                 stops, crashed>>

(* 30 seconds since the last ping: Close and delete. *)
OnHeartbeatTimeout(c) ==
  /\ Dispatching /\ c \in m_heartbeat_timer
  /\ IF c \in g_TCPClientMap
     THEN Delete(c)
     ELSE /\ m_heartbeat_timer' = m_heartbeat_timer \ {c}
          /\ UNCHANGED <<g_TCPClientMap, m_login_timer>>
  /\ UNCHANGED <<loop, event_break, accepted, m_Connects, received, answers,
                 stops, crashed>>

(* 10 seconds since the accept: the callback acts on a connection that is  *)
(* NOT in g_TCPClientMap, that is, on a freed one.                         *)
OnLoginTimeout(c) ==
  /\ Dispatching /\ c \in m_login_timer
  /\ m_login_timer' = m_login_timer \ {c}
  /\ crashed' = (c \notin g_TCPClientMap)
  /\ UNCHANGED <<loop, event_break, accepted, g_TCPClientMap, m_Connects,
                 m_heartbeat_timer, received, answers, stops>>
-----------------------------------------------------------------------------
(* Mutant: a session answers its request twice. *)
PutMessageTwice ==
  /\ ~crashed /\ stop = "no"
  /\ puts < received
  /\ puts' = puts + 2
  /\ m_Datas' = [m_Datas EXCEPT ![SS] = @ \o <<puts + 1, puts + 2>>]
  /\ UNCHANGED <<loop, event_break, accepted, g_TCPClientMap, m_Connects,
                 timers, received, written, lost, stops, crashed>>

(* A session thread answers: SendMessageToSS, PutMessage.  By the time     *)
(* Stop is called there is no session left to answer.                      *)
PutMessage ==
  /\ ~crashed /\ stop = "no"
  /\ puts < received
  /\ puts' = puts + 1
  /\ m_Datas' = [m_Datas EXCEPT ![SS] = Append(@, puts + 1)]
  /\ UNCHANGED <<loop, event_break, accepted, g_TCPClientMap, m_Connects,
                 timers, received, written, lost, stops, crashed>>

Pending == {c \in m_Connects : m_Datas[c] # <<>>}

(* Mutant: what has been sent stays in m_Datas. *)
WriteKeepsDatas ==
  /\ Dispatching
  /\ Pending \subseteq g_TCPClientMap
  /\ written' = [c \in Client |->
                   IF c \in Pending THEN written[c] \o m_Datas[c] ELSE written[c]]
  /\ UNCHANGED <<loop, event_break, accepted, g_TCPClientMap, m_Connects,
                 timers, received, puts, m_Datas, lost, stops, crashed>>

(* OnWriteble: each connection in m_Connects is sent what waits for it.    *)
OnWriteble ==
  /\ Dispatching
  /\ Pending \subseteq g_TCPClientMap
  /\ written' = [c \in Client |->
                   IF c \in Pending THEN written[c] \o m_Datas[c] ELSE written[c]]
  /\ m_Datas' = [c \in Client |-> IF c \in Pending THEN <<>> ELSE m_Datas[c]]
  /\ UNCHANGED <<loop, event_break, accepted, g_TCPClientMap, m_Connects,
                 timers, received, puts, lost, stops, crashed>>

(* ... and when the object is gone, what the memory holds decides.         *)
OnWritebleFreed ==
  /\ Dispatching
  /\ Pending \ g_TCPClientMap # {}
  /\ m_Datas' = [m_Datas EXCEPT ![SS] = <<>>]
  /\ \/ /\ lost' = lost \cup {m_Datas[SS][i] : i \in 1..Len(m_Datas[SS])}
        /\ UNCHANGED <<written, crashed>>
     \/ /\ \E heir \in g_TCPClientMap :
             written' = [written EXCEPT ![heir] = @ \o m_Datas[SS]]
        /\ UNCHANGED <<lost, crashed>>
     \/ crashed' = TRUE /\ UNCHANGED <<written, lost>>
  /\ UNCHANGED <<loop, event_break, accepted, g_TCPClientMap, m_Connects,
                 timers, received, puts, stops>>
-----------------------------------------------------------------------------
(* Mutant: Stop waits for the thread without telling the loop. *)
StopSilently ==
  /\ ~crashed /\ stop = "no"
  /\ stop' = "asked"
  /\ UNCHANGED <<loop, event_break, accepted, g_TCPClientMap, m_Connects,
                 timers, received, answers, missed, crashed>>

(* Stop: event_base_loopbreak does nothing without a base.                 *)
Stop ==
  /\ ~crashed /\ stop = "no"
  /\ stop' = "asked"
  /\ event_break' = (event_break \/ loop \in {"prepared", "dispatching"})
  /\ missed' = (loop \in {"starting", "prepared"})
  /\ UNCHANGED <<loop, accepted, g_TCPClientMap, m_Connects, timers, received,
                 answers, crashed>>

Joined ==
  /\ ~crashed /\ stop = "asked" /\ loop = "ended"
  /\ stop' = "joined"
  /\ UNCHANGED <<loop, event_break, accepted, g_TCPClientMap, m_Connects,
                 timers, received, answers, missed, crashed>>

Terminated == (crashed \/ stop = "joined") /\ UNCHANGED vars

(* What the loop's thread does on its own. *)
Loop == Prepare \/ Dispatch \/ LoopEnds

Callback(c) == \/ Ping(c) \/ ReceiveRequest(c) \/ OnClosed(c)
               \/ OnHeartbeatTimeout(c) \/ OnLoginTimeout(c)

Write == OnWriteble \/ OnWritebleFreed

Next ==
  \/ Loop \/ ListenFails
  \/ Accept
  \/ \E c \in Client : Callback(c)
  \/ PutMessage \/ Write
  \/ Stop \/ Joined \/ Terminated

(* Whatever the server may do. *)
Steps == Init /\ [][Next]_vars

(* The thread runs, the timer of OnWriteble is persistent, and main() in   *)
(* Stop waits.  Nothing forces a peer, a session or Stop.                  *)
Fairness == WF_vars(Loop) /\ WF_vars(Write) /\ WF_vars(Joined)

Spec == Steps /\ Fairness
-----------------------------------------------------------------------------
TypeOK ==
  /\ loop \in {"starting", "prepared", "dispatching", "ended"}
  /\ event_break \in BOOLEAN
  /\ accepted \in 0..NumClients
  /\ g_TCPClientMap \subseteq 1..accepted
  /\ m_Connects \subseteq 1..accepted
  /\ m_login_timer \subseteq Client /\ m_heartbeat_timer \subseteq Client
  /\ received \in 0..NumRequests
  /\ puts \in 0..received
  /\ m_Datas \in [Client -> Seq(1..puts)]
  /\ written \in [Client -> Seq(1..puts)]
  /\ lost \subseteq 1..puts
  /\ stop \in {"no", "asked", "joined"}
  /\ missed \in BOOLEAN /\ crashed \in BOOLEAN

(* No timer is pending for a connection that has been freed.  The callback *)
(* of the login timer relies on it: its test is the wrong way round, and   *)
(* on a freed connection it would call onLoginTimeout.                     *)
TimersOfLiveClients ==
  m_login_timer \cup m_heartbeat_timer \subseteq g_TCPClientMap

(* As long as the first connection is open, it gets every answer, whoever  *)
(* asked: each once, in the order they were put, and no other connection   *)
(* gets one.                                                               *)
FirstConnectionServed ==
  SS \in g_TCPClientMap =>
    /\ written[SS] \o m_Datas[SS] = [i \in 1..puts |-> i]
    /\ \A c \in Client \ {SS} : written[c] = <<>> /\ m_Datas[c] = <<>>
    /\ lost = {}

(* As long as the first connection is open, OnWriteble reaches what waits  *)
(* for it, and no entry of another connection stands in the way.           *)
AnswersReachable ==
  SS \in g_TCPClientMap =>
    /\ Pending \subseteq {SS}
    /\ m_Datas[SS] # <<>> => SS \in Pending

(* Once main waits in Stop, the loop is on its way out, unless the request *)
(* came before the loop was dispatched.                                    *)
StopReachesLoop ==
  stop = "asked" =>
    missed \/ loop = "ended" \/ (loop = "dispatching" /\ event_break)

(* The log text of onClosed, " rmove connection station": a connection     *)
(* that is closed is removed from the map of the stations.                 *)
ConnectsAreLive == m_Connects \subseteq g_TCPClientMap

(* An answer that waits for the first connection is written to it, unless  *)
(* the connection is closed or the server stopped.                         *)
AnswersWritten ==
  \A n \in 1..NumRequests :
    (n <= puts /\ loop = "dispatching") ~>
      \/ \E i \in 1..Len(written[SS]) : written[SS][i] = n
      \/ SS \notin g_TCPClientMap \/ stop # "no"
=============================================================================
