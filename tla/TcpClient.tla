------------------------------ MODULE TcpClient ------------------------------
(***************************************************************************)
(* The reconnecting TCP client: TcpClientModule (TcpClientModule.cpp) with *)
(* what SSMoudle, StatMoudle and SiaTcpMonitor do in its callbacks.        *)
(*                                                                         *)
(* One thread makes a connection, runs libevent's loop until the           *)
(* connection is given up, and begins again with the next address.  Other  *)
(* threads put messages (PutMessage) and end the thread (Stop).            *)
(*                                                                         *)
(* No message follows a refused login in what one read returns: a peer     *)
(* that refuses sends nothing behind it.                                   *)
(***************************************************************************)
EXTENDS Sequences, FiniteSets, Integers

CONSTANTS Putter,       \* the threads that put messages
          NumAddresses, \* m_tcpAddr.size()
          Capacity,     \* the 100000 of PutMessage
          NumPuts,      \* bound on the calls of PutMessage
          NumStarts     \* bound on the calls of Start

ASSUME PutterAssumption == IsFiniteSet(Putter) /\ Putter # {}
ASSUME NumAddressesAssumption == NumAddresses \in Nat \ {0}
ASSUME BoundsAssumption == Capacity \in Nat \ {0} /\ NumPuts \in Nat /\ NumStarts \in Nat

VARIABLES
  loop,           \* the thread: "ended", "testing", "creating", "prepared",
                  \* "dispatching", "freed"
  m_Running,
  m_pBase,        \* "null", "live", "freed": points at a base that is gone
  event_break,    \* libevent's request to leave the loop
  m_tcpIndex,     \* the place of the next address
  address,        \* the place of the address of this connection
  conn,           \* "none", "connecting", "up", "closed", "refused": Close()
  timers,         \* the timers that are pending
  m_Connected,    \* the login was accepted
  m_TimeoutTimes, \* heartbeats without an answer, counted up to MaxTimes
  m_Datas,        \* the messages that wait
  putting,        \* the threads between the test of the size and the Put
  puts, refused,  \* how many messages have been put, and how many refused
  output,         \* the messages in the connection's output buffer
  written, lost,  \* the messages written to a connection, and those lost
  stop,           \* "idle": not started or joined, "no", "asked", "breaking",
                  \* "joining"
  starts,         \* how often Start has been called
  missed,         \* history: Stop did not reach the loop
  granted,        \* history: this connection's login was accepted
  crashed         \* the process has been terminated

thread  == <<loop, m_Running, m_pBase, event_break>>
peer    == <<m_tcpIndex, address, conn, timers, m_Connected, granted>>
sent    == <<output, written, lost>>
queue   == <<m_Datas, putting, puts, refused, sent>>
stops   == <<stop, starts, missed, crashed>>
vars    == <<thread, peer, m_TimeoutTimes, queue, stops>>

Init ==
  /\ loop = "ended" /\ m_Running = FALSE /\ m_pBase = "null" /\ event_break = FALSE
  /\ m_tcpIndex = 0 /\ address = 0 /\ conn = "none" /\ timers = {}
  /\ m_Connected = FALSE /\ granted = FALSE
  /\ m_TimeoutTimes = 0
  /\ m_Datas = <<>> /\ putting = {} /\ puts = 0 /\ refused = 0
  /\ output = <<>> /\ written = <<>> /\ lost = {}
  /\ stop = "idle" /\ starts = 0 /\ missed = FALSE /\ crashed = FALSE
-----------------------------------------------------------------------------
(* run: the test of m_Running, behind the pause of five seconds. *)
TestRunning ==
  /\ ~crashed /\ loop = "testing"
  /\ loop' = IF m_Running THEN "creating" ELSE "ended"
  /\ UNCHANGED <<m_Running, m_pBase, event_break, peer, m_TimeoutTimes, queue, stops>>

(* Mutant: the place of the address is never taken modulo their number. *)
ConnectPastEnd ==
  /\ ~crashed /\ loop = "creating"
  /\ loop' = "prepared" /\ m_pBase' = "live" /\ event_break' = FALSE
  /\ address' = m_tcpIndex
  /\ m_tcpIndex' = address' + 1
  /\ conn' = "connecting" /\ timers' = {"connect"}
  /\ granted' = FALSE
  /\ UNCHANGED <<m_Running, m_Connected, m_TimeoutTimes, queue, stops>>

(* Mutant: the first address is tried every time. *)
ConnectFirst ==
  /\ ~crashed /\ loop = "creating"
  /\ loop' = "prepared" /\ m_pBase' = "live" /\ event_break' = FALSE
  /\ address' = m_tcpIndex % NumAddresses
  /\ UNCHANGED m_tcpIndex
  /\ conn' = "connecting" /\ timers' = {"connect"}
  /\ granted' = FALSE
  /\ UNCHANGED <<m_Running, m_Connected, m_TimeoutTimes, queue, stops>>

(* ... a new base, the next address, the timers, and the connection begins *)
(* to be made.  m_TimeoutTimes stays as the last connection left it.       *)
Connect ==
  /\ ~crashed /\ loop = "creating"
  /\ loop' = "prepared" /\ m_pBase' = "live" /\ event_break' = FALSE
  /\ address' = m_tcpIndex % NumAddresses
  /\ m_tcpIndex' = address' + 1
  /\ conn' = "connecting" /\ timers' = {"connect"}
  /\ granted' = FALSE
  /\ UNCHANGED <<m_Running, m_Connected, m_TimeoutTimes, queue, stops>>

(* event_base_dispatch first forgets a request to leave it. *)
Dispatch ==
  /\ ~crashed /\ loop = "prepared"
  /\ loop' = "dispatching" /\ event_break' = FALSE
  /\ UNCHANGED <<m_Running, m_pBase, peer, m_TimeoutTimes, queue, stops>>

Elements(q) == {q[i] : i \in 1..Len(q)}

(* bufferevent_free: what is still in the output buffer is never written.  *)
FreeOutput == output' = <<>> /\ lost' = lost \cup Elements(output)

(* Mutant: the next connection takes over the login of this one. *)
CleanupKeepsLogin ==
  /\ ~crashed /\ loop = "dispatching" /\ event_break
  /\ loop' = "freed" /\ m_pBase' = "freed"
  /\ conn' = "none" /\ timers' = {} /\ FreeOutput
  /\ UNCHANGED <<m_Running, event_break, m_tcpIndex, address, m_Connected, granted,
                 m_TimeoutTimes, m_Datas, putting, puts, refused, written, stops>>

(* The loop is left: the timers, the connection and the base are freed ... *)
Cleanup ==
  /\ ~crashed /\ loop = "dispatching" /\ event_break
  /\ loop' = "freed" /\ m_pBase' = "freed"
  /\ m_Connected' = FALSE /\ conn' = "none" /\ timers' = {} /\ FreeOutput
  /\ UNCHANGED <<m_Running, event_break, m_tcpIndex, address, granted,
                 m_TimeoutTimes, m_Datas, putting, puts, refused, written, stops>>

(* ... and only then m_pBase is cleared. *)
ClearBase ==
  /\ ~crashed /\ loop = "freed"
  /\ loop' = "testing" /\ m_pBase' = "null"
  /\ UNCHANGED <<m_Running, event_break, peer, m_TimeoutTimes, queue, stops>>

Dispatching == ~crashed /\ loop = "dispatching" /\ ~event_break
-----------------------------------------------------------------------------
(* The connection is made: onConnected logs in and starts to ping. *)
OnConnected ==
  /\ Dispatching /\ conn = "connecting"
  /\ conn' = "up" /\ timers' = (timers \ {"connect"}) \cup {"ping"}
  /\ UNCHANGED <<thread, m_tcpIndex, address, m_Connected, granted, m_TimeoutTimes, queue,
                 stops>>

(* Mutant: onClosed does not ask for a new connection. *)
OnClosedForGood ==
  /\ Dispatching /\ conn \in {"connecting", "up"}
  /\ conn' = "closed" /\ m_Connected' = FALSE
  /\ timers' = timers \ {"ping", "heartbeat"}
  /\ UNCHANGED <<thread, m_tcpIndex, address, granted, m_TimeoutTimes, queue, stops>>

(* onClosed and onError: a new connection in five seconds. *)
OnClosed ==
  /\ Dispatching /\ conn \in {"connecting", "up"}
  /\ conn' = "closed" /\ m_Connected' = FALSE
  /\ timers' = (timers \ {"ping", "heartbeat"}) \cup {"delay"}
  /\ UNCHANGED <<thread, m_tcpIndex, address, granted, m_TimeoutTimes, queue, stops>>

(* onConnectTimeOut and onConnectDelay leave the loop. *)
OnTimer(t) ==
  /\ Dispatching /\ t \in timers \cap {"connect", "delay"}
  /\ timers' = timers \ {t} /\ event_break' = TRUE
  /\ UNCHANGED <<loop, m_Running, m_pBase, m_tcpIndex, address, conn, m_Connected,
                 granted, m_TimeoutTimes, queue, stops>>

(* Mutant: the ping is sent and nobody waits for its answer. *)
PingOnly ==
  /\ Dispatching /\ "ping" \in timers
  /\ UNCHANGED vars

(* ping_timer, which is persistent. *)
Ping ==
  /\ Dispatching /\ "ping" \in timers
  /\ timers' = timers \cup {"heartbeat"}
  /\ UNCHANGED <<thread, m_tcpIndex, address, conn, m_Connected, granted, m_TimeoutTimes,
                 queue, stops>>

MaxTimes == 3   \* beyond 2 all counts are alike

Counted(n) == IF n < MaxTimes THEN n + 1 ELSE n

(* HeartbeatTimeout: the second one in a row gives the connection up.      *)
HeartbeatTimeout ==
  /\ Dispatching /\ "heartbeat" \in timers
  /\ timers' = timers \ {"heartbeat"}
  /\ m_TimeoutTimes' = Counted(m_TimeoutTimes)
  /\ IF m_TimeoutTimes' >= 2
     THEN m_Connected' = FALSE /\ event_break' = TRUE
     ELSE UNCHANGED <<m_Connected, event_break>>
  /\ UNCHANGED <<loop, m_Running, m_pBase, m_tcpIndex, address, conn, granted, queue,
                 stops>>

(* onReceived, an answer to a ping: ResetHearbeat. *)
ResetHearbeat ==
  /\ Dispatching /\ conn = "up"
  /\ timers' = timers \ {"heartbeat"} /\ m_TimeoutTimes' = 0
  /\ UNCHANGED <<thread, m_tcpIndex, address, conn, m_Connected, granted, queue,
                 stops>>

(* onReceived, the login is accepted. *)
SetLoginSuccess ==
  /\ Dispatching /\ conn = "up"
  /\ m_Connected' = TRUE /\ granted' = TRUE
  /\ UNCHANGED <<thread, m_tcpIndex, address, conn, timers, m_TimeoutTimes, queue, stops>>

(* onReceived, the login is refused: Close() closes the descriptor behind  *)
(* libevent's back, so that no event tells of it.                          *)
Close ==
  /\ Dispatching /\ conn = "up"
  /\ conn' = "refused"
  /\ UNCHANGED <<thread, m_tcpIndex, address, timers, m_Connected, granted, m_TimeoutTimes,
                 queue, stops>>
-----------------------------------------------------------------------------
CanPut(p) ==
  ~crashed /\ p \notin putting /\ puts + refused + Cardinality(putting) < NumPuts

(* Mutant: the test lets one message too many in. *)
TestSizeTooLate(p) ==
  /\ CanPut(p)
  /\ IF Len(m_Datas) <= Capacity
     THEN putting' = putting \cup {p} /\ UNCHANGED refused
     ELSE refused' = refused + 1 /\ UNCHANGED putting
  /\ UNCHANGED <<thread, peer, m_TimeoutTimes, m_Datas, puts, sent, stops>>

(* PutMessage: the size is tested, and a message too many dropped ... *)
TestSize(p) ==
  /\ CanPut(p)
  /\ IF Len(m_Datas) < Capacity
     THEN putting' = putting \cup {p} /\ UNCHANGED refused
     ELSE refused' = refused + 1 /\ UNCHANGED putting
  /\ UNCHANGED <<thread, peer, m_TimeoutTimes, m_Datas, puts, sent, stops>>

(* ... and then the message is put. *)
Put(p) ==
  /\ ~crashed /\ p \in putting
  /\ putting' = putting \ {p}
  /\ puts' = puts + 1 /\ m_Datas' = Append(m_Datas, puts')
  /\ UNCHANGED <<thread, peer, m_TimeoutTimes, refused, sent, stops>>

PutMessage(p) == TestSize(p) \/ Put(p)

(* Mutant: what has been sent stays in m_Datas. *)
OnWritebleKeeps ==
  /\ Dispatching /\ m_Connected /\ m_Datas # <<>>
  /\ output' = Append(output, Head(m_Datas))
  /\ UNCHANGED <<thread, peer, m_TimeoutTimes, m_Datas, putting, puts, refused, lost,
                 written, stops>>

(* onWriteble, one pass of its loop, as long as the login holds: Send      *)
(* copies a message to the output buffer, of a connection that Close() has *)
(* closed as well, or fails, and the message is gone.                      *)
OnWriteble ==
  /\ Dispatching /\ m_Connected /\ m_Datas # <<>>
  /\ m_Datas' = Tail(m_Datas)
  /\ \/ output' = Append(output, Head(m_Datas)) /\ UNCHANGED lost
     \/ lost' = lost \cup {Head(m_Datas)} /\ UNCHANGED output
  /\ UNCHANGED <<thread, peer, m_TimeoutTimes, putting, puts, refused, written, stops>>

(* libevent writes the output buffer as the socket takes it. *)
Flush ==
  /\ Dispatching /\ conn = "up" /\ output # <<>>
  /\ output' = Tail(output) /\ written' = Append(written, Head(output))
  /\ UNCHANGED <<thread, peer, m_TimeoutTimes, m_Datas, putting, puts, refused, lost,
                 stops>>
-----------------------------------------------------------------------------
(* Start: a thread, which begins with the test of m_Running. *)
Start ==
  /\ ~crashed /\ stop = "idle" /\ starts < NumStarts
  /\ m_Running' = TRUE /\ loop' = "testing"
  /\ stop' = "no" /\ starts' = starts + 1 /\ missed' = FALSE
  /\ UNCHANGED <<m_pBase, event_break, peer, m_TimeoutTimes, queue, crashed>>

(* Stop, and Start of a client that runs: m_Running is cleared ... *)
Stop ==
  /\ ~crashed /\ stop = "no"
  /\ m_Running' = FALSE /\ stop' = "asked"
  /\ UNCHANGED <<loop, m_pBase, event_break, peer, m_TimeoutTimes, queue, starts, missed,
                 crashed>>

(* ... m_pBase is read, while the thread may be changing it ... *)
ReadBase ==
  /\ ~crashed /\ stop = "asked"
  /\ stop' = IF m_pBase = "null" THEN "joining" ELSE "breaking"
  /\ missed' = (m_pBase = "null" /\ loop = "creating")
  /\ UNCHANGED <<thread, peer, m_TimeoutTimes, queue, starts, crashed>>

(* Mutant: Stop does not ask libevent to leave the loop. *)
BreakNothing ==
  /\ ~crashed /\ stop = "breaking"
  /\ stop' = "joining"
  /\ UNCHANGED <<thread, peer, m_TimeoutTimes, queue, starts, missed, crashed>>

(* ... and the loop asked to end.  A base that has been freed meanwhile is *)
(* read all the same, or m_pBase is read again and found null.             *)
BreakLoop ==
  /\ ~crashed /\ stop = "breaking"
  /\ stop' = "joining"
  /\ event_break' = (event_break \/ m_pBase = "live")
  /\ missed' = (loop = "prepared")
  /\ \/ UNCHANGED crashed
     \/ m_pBase # "live" /\ crashed' = TRUE
  /\ UNCHANGED <<loop, m_Running, m_pBase, peer, m_TimeoutTimes, queue, starts>>

Joined ==
  /\ ~crashed /\ stop = "joining" /\ loop = "ended"
  /\ stop' = "idle"
  /\ UNCHANGED <<thread, peer, m_TimeoutTimes, queue, starts, missed, crashed>>

(* The process has died, or nobody starts the client again. *)
Finished == (crashed \/ stop = "idle") /\ UNCHANGED vars

Loop == TestRunning \/ Connect \/ Dispatch \/ Cleanup \/ ClearBase

Peer == OnConnected \/ OnClosed \/ ResetHearbeat \/ SetLoginSuccess \/ Close

Stopping == ReadBase \/ BreakLoop \/ Joined

Next ==
  \/ Loop \/ Peer
  \/ OnTimer("connect") \/ OnTimer("delay") \/ Ping \/ HeartbeatTimeout
  \/ OnWriteble \/ Flush
  \/ \E p \in Putter : PutMessage(p)
  \/ Start \/ Stop \/ Stopping
  \/ Finished

(* The thread runs and timers fire; whoever called Stop waits in it.       *)
(* Nothing forces the peer, a message, Start or Stop.                      *)
Fairness ==
  /\ WF_vars(Loop) /\ WF_vars(Stopping)
  /\ WF_vars(OnTimer("connect")) /\ WF_vars(OnTimer("delay"))
  /\ WF_vars(Ping) /\ WF_vars(HeartbeatTimeout) /\ WF_vars(OnWriteble)

Spec == Init /\ [][Next]_vars /\ Fairness
-----------------------------------------------------------------------------
TypeOK ==
  /\ loop \in {"ended", "testing", "creating", "prepared", "dispatching", "freed"}
  /\ m_Running \in BOOLEAN /\ m_pBase \in {"null", "live", "freed"}
  /\ event_break \in BOOLEAN
  /\ m_tcpIndex \in 0..NumAddresses /\ address \in 0..(NumAddresses - 1)
  /\ conn \in {"none", "connecting", "up", "closed", "refused"}
  /\ timers \subseteq {"connect", "delay", "ping", "heartbeat"}
  /\ m_Connected \in BOOLEAN /\ granted \in BOOLEAN
  /\ m_TimeoutTimes \in 0..MaxTimes
  /\ puts \in 0..NumPuts /\ refused \in 0..NumPuts /\ putting \subseteq Putter
  /\ m_Datas \in Seq(1..puts) /\ output \in Seq(1..puts)
  /\ written \in Seq(1..puts) /\ lost \subseteq 1..puts
  /\ stop \in {"idle", "no", "asked", "breaking", "joining"}
  /\ starts \in 0..NumStarts /\ missed \in BOOLEAN /\ crashed \in BOOLEAN

(* The size is tested before the Put and not again: the real bound on the  *)
(* messages that wait grows with the threads that put them.                *)
QueueBound == Len(m_Datas) <= Capacity + Cardinality(Putter) - 1

(* Over all the connections, a message is written once at most, in the     *)
(* order of the puts, and each one put is accounted for: it is written, or *)
(* in the output buffer, or waits, or was lost with a failing Send or with *)
(* the buffer of a connection that was given up.                           *)
SentOnceInOrder ==
  LET q == written \o output \o m_Datas IN
  /\ \A i, j \in 1..Len(q) : i < j => q[i] < q[j]
  /\ lost = (1..puts) \ Elements(q)

(* Messages are sent only where the peer of this very connection has       *)
(* accepted the login: the flag never survives the connection.             *)
LoggedInOnly == m_Connected => granted /\ conn \in {"up", "refused"}

(* The thread never waits for nothing: as long as the loop runs and is not *)
(* asked to leave, a connection that is being made, or that is closed, has *)
(* the timer that will end it, and one that is up, or that Close() has     *)
(* closed, is pinged.                                                      *)
NeverAbandoned ==
  loop = "dispatching" /\ ~event_break =>
    /\ conn = "connecting" => "connect" \in timers
    /\ conn = "closed" => "delay" \in timers
    /\ conn \in {"up", "refused"} => "ping" \in timers
    /\ conn # "none"

(* Stop waits for a thread that is on its way out, or that it has missed.  *)
StopReachesLoop ==
  stop = "joining" =>
    /\ ~m_Running
    /\ \/ missed
       \/ loop \in {"freed", "testing", "ended"}
       \/ loop = "dispatching" /\ event_break

(* A connection that is lost, or closed after a refused login, is followed *)
(* by another one, unless the client is stopped.                           *)
Reconnects ==
  conn \in {"closed", "refused"} ~> (conn = "connecting" \/ stop # "no")

(* A connection stays up for ever only if its peer goes on answering the   *)
(* pings: one that is gone without closing it is given up in the end.      *)
SilentPeerGivenUp ==
  <>[](conn = "up" /\ ~crashed) => []<><<ResetHearbeat>>_vars

(* A client that keeps connecting tries each of its addresses again and    *)
(* again: the redundant one is reached when the first does not answer.     *)
AddressesRotate ==
  []<>(loop = "creating") =>
    \A a \in 0..(NumAddresses - 1) : []<>(conn = "connecting" /\ address = a)

(* Stop returns, unless its request came before the loop was dispatched    *)
(* and was forgotten, or met a base that had just been freed; and even     *)
(* then it returns once the connection is gone.                            *)
StopReturns ==
  /\ stop = "asked" ~> (stop = "idle" \/ missed \/ crashed)
  /\ (stop = "joining" /\ conn \in {"closed", "refused"}) ~> stop = "idle"
=============================================================================
