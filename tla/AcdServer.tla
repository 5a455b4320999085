------------------------------ MODULE AcdServer --------------------------------
(***************************************************************************)
(* The process as a whole, but for the gateway data: the manager with its  *)
(* sessions (SiaManager) and the TCP server (TcpServer).                   *)
(*                                                                         *)
(* A request that the loop's thread takes off a connection is put on the   *)
(* manager's queue in the same step; an answer of a session is put into    *)
(* m_Datas by the session's thread.  OnDisconnect stops the TCP server     *)
(* when the sessions are cleared.  Everything else the two do on their     *)
(* own.                                                                    *)
(***************************************************************************)
EXTENDS SiaManager

CONSTANT NumClients   \* bound on the connections that are made

ASSUME ServerAssumption == NumClients \in Nat \ {0}

VARIABLES
  loop, event_break, accepted, g_TCPClientMap, m_Connects, m_login_timer,
  m_heartbeat_timer, puts, m_Datas, written, lost, missed,
  tcpStop,       \* Stop of the TCP server: "no", "asked", "joined"
  tcpCrashed,    \* the loop's thread has terminated the process
  answerOf       \* history: the request each answer belongs to

Tcp == INSTANCE TcpServer WITH NumRequests <- NumMsgs, received <- arrived,
                               stop <- tcpStop, crashed <- tcpCrashed

(* What only one of the two changes. *)
managerVars == <<m_mainqueue, mgrVars, nextId, m_Sessions,
                 m_Callid2SessionMap, sessionVars, stopVars>>
tcpVars == <<loop, event_break, accepted, g_TCPClientMap, m_Connects,
             m_login_timer, m_heartbeat_timer, puts, m_Datas, written, lost,
             missed, tcpStop, tcpCrashed>>
acdVars == <<vars, tcpVars, answerOf>>

AcdInit == Init /\ Tcp!Init /\ answerOf = <<>>

(* The threads of a process end together. *)
Alive == ~crashed /\ ~tcpCrashed

OnlyManager == Alive /\ UNCHANGED <<tcpVars, answerOf>>
OnlyServer  == Alive /\ UNCHANGED <<managerVars, arrived, answerOf>>
-----------------------------------------------------------------------------
(* conn_read_cb, onReceived, SendMessageToMe. *)
Receive ==
  /\ Alive
  /\ \E c \in Tcp!Client : Tcp!ReceiveRequest(c)
  /\ \E r \in Input : SendMessageToMe(r)
  /\ UNCHANGED answerOf

(* A handler answers: SendMessageToSS, PutMessage. *)
Answer(s) ==
  /\ Alive
  /\ HandleMessage(s) /\ replies' # replies
  /\ Tcp!PutMessage
  /\ answerOf' = Append(answerOf, current[s].n)

(* A session does anything else. *)
SessionStep(s) ==
  /\ \/ HandleMessage(s) /\ replies' = replies
     \/ Get(s) \/ HandlerThrows(s) \/ Detach(s)
     \/ RemoveSession(s) \/ RemoveSessionThrows(s) \/ Release(s)
  /\ OnlyManager

SessionRuns(s) == Answer(s) \/ SessionStep(s)

ManagerRuns == Manager /\ OnlyManager

(* The TCP server's thread, but for the requests it receives. *)
LoopRuns == Tcp!Loop /\ OnlyServer

LoopWrites == Tcp!Write /\ OnlyServer

LoopServes ==
  /\ \/ Tcp!ListenFails \/ Tcp!Accept
     \/ \E c \in Tcp!Client : \/ Tcp!Ping(c) \/ Tcp!OnClosed(c)
                              \/ Tcp!OnHeartbeatTimeout(c)
                              \/ Tcp!OnLoginTimeout(c)
  /\ OnlyServer

(* main() calls Stop of the manager ... *)
AcdStop == Stop /\ OnlyManager

ManagerStops == Stopping /\ OnlyManager

(* The timer's thread, which Stop of the manager waits for too. *)
TimerRuns == TimerRun /\ OnlyManager

(* ... which goes on to stop the TCP server and to wait for its thread. *)
TcpStops == stop = "done" /\ (Tcp!Stop \/ Tcp!Joined) /\ OnlyServer

AcdTerminated ==
  (~Alive \/ tcpStop = "joined" \/ timer = "missed") /\ UNCHANGED acdVars

AcdNext ==
  \/ Receive
  \/ \E s \in SessionId : SessionRuns(s) \/ (GetTimesOut(s) /\ OnlyManager)
  \/ ManagerRuns \/ TimerRuns
  \/ LoopRuns \/ LoopWrites \/ LoopServes
  \/ AcdStop \/ ManagerStops \/ TcpStops
  \/ AcdTerminated

(* Every thread runs, main() once it is in Stop. *)
AcdFairness ==
  /\ WF_acdVars(ManagerRuns) /\ WF_acdVars(TimerRuns)
  /\ \A s \in SessionId : WF_acdVars(SessionRuns(s))
  /\ WF_acdVars(LoopRuns) /\ SF_acdVars(LoopWrites)
  /\ WF_acdVars(ManagerStops \/ TcpStops)

(* Whatever the process may do. *)
AcdSteps == AcdInit /\ [][AcdNext]_acdVars

AcdSpec == AcdSteps /\ AcdFairness
-----------------------------------------------------------------------------
(* A session that is about to answer finds the TCP server there: Stop      *)
(* comes to it only when no session is left that could, and no more        *)
(* answers are given than requests have come.                              *)
AnswersFindServer ==
  \A s \in SessionId :
    thread[s] = "busy" => tcpStop = "no" /\ puts < arrived

(* Answers as the soft switch sees them. *)
Shown == [i \in 1..Len(written[Tcp!SS]) |-> answerOf[written[Tcp!SS][i]]]

Promise == INSTANCE RequestReply
             WITH asked <- arrived, answered <- answerOf, shown <- Shown,
                  gone <- accepted > 0 /\ Tcp!SS \notin g_TCPClientMap

(* The whole keeps what RequestReply promises. *)
KeepsPromise == Promise!Spec

(* The replies the sessions have given and the answers that wait for the   *)
(* soft switch, or have been written to it, are the same: none is dropped  *)
(* on the way through SendMessageToSS and none is there that nobody gave.  *)
RepliesAreAnswers ==
  \A s \in SessionId :
    current[s] # NoMessage =>
      (replies[s] = 1 <=> \E i \in 1..puts : answerOf[i] = current[s].n)

(* Nobody waits in vain: a session's thread for a message, main for the    *)
(* manager, the timer's thread, the session it destroys, and last for the  *)
(* TCP server's, but for a loop, the timer's or the server's, that had not *)
(* been dispatched when it was told to leave.                              *)
NobodyWaitsInVain ==
  /\ NoIdleSession /\ StopHeard
  /\ tcpStop # "no" => stop = "done"
  /\ Tcp!StopReachesLoop

(* The thread of every session comes to its end: each session is handed    *)
(* its request, or the message of Stop.                                    *)
ThreadsEnd ==
  \A s \in SessionId : thread[s] = "get" ~> (thread[s] = "ended" \/ ~Alive)

(* The loops that Stop tells to leave have been dispatched, or are over. *)
LoopsUp == timer = "dispatching" /\ loop \in {"dispatching", "ended"}

(* No session's thread is on its way from its message to the end. *)
SessionsQuiet ==
  \A s \in SessionId : thread[s] \in {"none", "removed", "ended"}

(* Stop comes to its end once the process is up: the manager's thread, the *)
(* timer's, every session's and the loop's are waited for, one after the   *)
(* other, while requests go on coming.  The process may die of the race of *)
(* clear() with a session that is just leaving; when none is, only of the  *)
(* entry the first connection has left in m_Connects.                      *)
WholeStops ==
  /\ (stop = "asked" /\ LoopsUp) ~> (tcpStop = "joined" \/ ~Alive)
  /\ (/\ Alive /\ stop = "clearing" /\ destroying = 0 /\ SessionsQuiet
      /\ loop \in {"dispatching", "ended"})
       ~> (tcpStop = "joined" \/ tcpCrashed)
=============================================================================
