--------------------------- MODULE TcpServerProofs ---------------------------
(***************************************************************************)
(* Proofs about the TCP server for any number of connections and requests. *)
(***************************************************************************)
EXTENDS TcpServer, SequenceTheorems, TLAPS

(* More answers may be put: what has been put stays what it is.            *)
LEMMA MoreAnswers ==
  ASSUME NEW k \in Nat, NEW n \in Nat, k <= n, NEW q \in Seq(1..k)
  PROVE  q \in Seq(1..n)
<1>1. 1..k \subseteq 1..n
  OBVIOUS
<1> QED
  BY <1>1, SeqMonotonic

(* The answers 1 to n in their order.                                       *)
InOrder(n) == [i \in 1..n |-> i]

(* Putting the next answer behind those that wait keeps them in order.     *)
LEMMA AppendNext ==
  ASSUME NEW w \in Seq(Nat), NEW d \in Seq(Nat), NEW n \in Nat,
         w \o d = InOrder(n)
  PROVE  w \o Append(d, n + 1) = InOrder(n + 1)
<1> DEFINE q == w \o d
           d1 == Append(d, n + 1)
           q1 == w \o d1
<1>1. /\ d1 \in Seq(Nat) /\ Len(d1) = Len(d) + 1
      /\ \A i \in 1..Len(d) : d1[i] = d[i]
      /\ d1[Len(d) + 1] = n + 1
  <2>1. n + 1 \in Nat
    OBVIOUS
  <2> QED
    BY <2>1, AppendProperties
<1>2. /\ q \in Seq(Nat) /\ Len(q) = Len(w) + Len(d)
      /\ \A i \in 1..(Len(w) + Len(d)) :
           q[i] = IF i <= Len(w) THEN w[i] ELSE d[i - Len(w)]
  BY ConcatProperties
<1> HIDE DEF d1
<1>3. /\ q1 \in Seq(Nat) /\ Len(q1) = Len(w) + Len(d1)
      /\ \A i \in 1..(Len(w) + Len(d1)) :
           q1[i] = IF i <= Len(w) THEN w[i] ELSE d1[i - Len(w)]
  BY <1>1, ConcatProperties
<1>4. DOMAIN q = 1..n /\ \A i \in 1..n : q[i] = i
  BY DEF InOrder
<1> HIDE DEF q, q1
<1>5. Len(w) \in Nat /\ Len(d) \in Nat /\ Len(w) + Len(d) = n
  BY <1>2, <1>4, LenProperties
<1>6. ASSUME NEW i \in 1..(n + 1) PROVE q1[i] = i
  <2>1. CASE i <= Len(w)
    <3>1. i \in 1..(Len(w) + Len(d)) /\ i \in 1..(Len(w) + Len(d1)) /\ i \in 1..n
      BY <1>1, <1>5, <2>1
    <3>2. q1[i] = w[i] /\ q[i] = w[i]
      BY <1>2, <1>3, <2>1, <3>1
    <3> QED
      BY <1>4, <3>1, <3>2
  <2>2. CASE i > Len(w) /\ i <= n
    <3>1. i - Len(w) \in 1..Len(d)
      BY <1>5, <2>2
    <3>2. /\ i \in 1..(Len(w) + Len(d)) /\ i \in 1..(Len(w) + Len(d1)) /\ i \in 1..n
          /\ ~(i <= Len(w))
      BY <1>1, <1>5, <2>2
    <3>3. q1[i] = d1[i - Len(w)] /\ q[i] = d[i - Len(w)]
      BY <1>2, <1>3, <3>2
    <3> QED
      BY <1>1, <1>4, <3>1, <3>2, <3>3
  <2>3. CASE i = n + 1
    <3>1. i - Len(w) = Len(d) + 1 /\ ~(i <= Len(w))
      BY <1>5, <2>3
    <3> QED
      BY <1>1, <1>3, <1>5, <2>3, <3>1
  <2> QED
    BY <1>5, <2>1, <2>2, <2>3
<1>7. q1 = InOrder(n + 1)
  BY <1>1, <1>3, <1>5, <1>6, LenProperties DEF InOrder
<1> QED
  BY <1>7 DEF q1, d1

(* Every variable keeps its type; no more is answered than was asked.      *)
THEOREM TypeCorrect == Steps => []TypeOK
<1> USE NumClientsAssumption, NumRequestsAssumption DEF Client, SS
<1>1. Init => TypeOK
  <2> SUFFICES ASSUME Init PROVE TypeOK
    OBVIOUS
  <2>1. <<>> \in Seq(1..puts)
    BY EmptySeq
  <2>2. event_break \in BOOLEAN /\ missed \in BOOLEAN /\ crashed \in BOOLEAN
    BY Zenon DEF Init
  <2> QED
    BY <2>1, <2>2 DEF Init, TypeOK
<1>2. TypeOK /\ [Next]_vars => TypeOK'
  <2> SUFFICES ASSUME TypeOK, [Next]_vars PROVE TypeOK'
    OBVIOUS
  <2> USE DEF TypeOK, timers, answers, stops
  <2>1. CASE Loop \/ ListenFails \/ Joined
    BY <2>1 DEF Loop, Prepare, Dispatch, LoopEnds, ListenFails, Joined
  <2>2. CASE Accept
    BY <2>2 DEF Accept
  <2>3. ASSUME NEW c \in Client, Ping(c) \/ ReceiveRequest(c) \/ OnClosed(c)
        PROVE  TypeOK'
    <3>1. CASE Ping(c)
      BY <2>3, <3>1 DEF Ping
    <3>2. CASE ReceiveRequest(c)
      BY <2>3, <3>2 DEF ReceiveRequest
    <3>3. CASE OnClosed(c)
      BY <2>3, <3>3 DEF OnClosed, Delete
    <3> QED
      BY <2>3, <3>1, <3>2, <3>3
  <2>4. ASSUME NEW c \in Client, OnHeartbeatTimeout(c) PROVE TypeOK'
    BY <2>4 DEF OnHeartbeatTimeout, Delete
  <2>5. ASSUME NEW c \in Client, OnLoginTimeout(c) PROVE TypeOK'
    <3>1. crashed' \in BOOLEAN
      BY <2>5 DEF OnLoginTimeout
    <3>2. /\ m_login_timer' = m_login_timer \ {c}
          /\ UNCHANGED <<loop, event_break, accepted, g_TCPClientMap, m_Connects,
                         m_heartbeat_timer, received, puts, m_Datas, written,
                         lost, stop, missed>>
      BY <2>5 DEF OnLoginTimeout
    <3> QED
      BY <3>1, <3>2
  <2>6. CASE PutMessage
    <3>1. /\ puts' = puts + 1 /\ puts' \in 0..received /\ puts \in Nat
          /\ m_Datas' = [m_Datas EXCEPT ![SS] = Append(@, puts + 1)]
          /\ UNCHANGED <<loop, event_break, accepted, g_TCPClientMap, m_Connects,
                         m_login_timer, m_heartbeat_timer, received, written,
                         lost, stop, missed, crashed>>
      BY <2>6 DEF PutMessage
    <3>2. \A c \in Client : m_Datas[c] \in Seq(1..puts') /\ written[c] \in Seq(1..puts')
      BY <3>1, MoreAnswers
    <3>3. SS \in Client /\ Append(m_Datas[SS], puts + 1) \in Seq(1..puts')
      BY <3>1, <3>2, AppendProperties
    <3>4. /\ m_Datas' \in [Client -> Seq(1..puts')]
          /\ written' \in [Client -> Seq(1..puts')]
      BY <3>1, <3>2, <3>3
    <3> QED
      BY <3>1, <3>4
  <2>7. CASE OnWriteble
    <3>1. \A c \in Client : written[c] \o m_Datas[c] \in Seq(1..puts)
      BY ConcatProperties
    <3>2. <<>> \in Seq(1..puts)
      BY EmptySeq
    <3> QED
      BY <2>7, <3>1, <3>2 DEF OnWriteble
  <2>8. CASE OnWritebleFreed
    <3>1. <<>> \in Seq(1..puts) /\ SS \in Client
      BY EmptySeq
    <3>2. m_Datas' \in [Client -> Seq(1..puts)]
      BY <2>8, <3>1 DEF OnWritebleFreed
    <3>3. {m_Datas[SS][i] : i \in 1..Len(m_Datas[SS])} \subseteq 1..puts
      BY <3>1, ElementOfSeq
    <3>4. \A c \in Client : written[c] \o m_Datas[SS] \in Seq(1..puts)
      BY <3>1, ConcatProperties
    <3>5. written' \in [Client -> Seq(1..puts)]
      <4>1. CASE UNCHANGED written
        BY <4>1
      <4>2. ASSUME NEW heir \in g_TCPClientMap,
                   written' = [written EXCEPT ![heir] = @ \o m_Datas[SS]]
            PROVE  written' \in [Client -> Seq(1..puts)]
        <5>1. heir \in Client
          OBVIOUS
        <5> QED
          BY <3>4, <4>2, <5>1
      <4> QED
        BY <2>8, <4>1, <4>2 DEF OnWritebleFreed
    <3>6. lost' \subseteq 1..puts
      BY <2>8, <3>3 DEF OnWritebleFreed
    <3>7. crashed' \in BOOLEAN
      BY <2>8 DEF OnWritebleFreed
    <3>8. UNCHANGED <<loop, event_break, accepted, g_TCPClientMap, m_Connects,
                      m_login_timer, m_heartbeat_timer, received, puts, stop,
                      missed>>
      BY <2>8 DEF OnWritebleFreed
    <3> QED
      BY <3>2, <3>5, <3>6, <3>7, <3>8
  <2>9. CASE Stop
    <3>1. event_break' \in BOOLEAN /\ missed' \in BOOLEAN
      BY <2>9 DEF Stop
    <3>2. /\ stop' = "asked"
          /\ UNCHANGED <<loop, accepted, g_TCPClientMap, m_Connects, m_login_timer,
                         m_heartbeat_timer, received, puts, m_Datas, written,
                         lost, crashed>>
      BY <2>9 DEF Stop
    <3> QED
      BY <3>1, <3>2
  <2>10. CASE UNCHANGED vars
    BY <2>10 DEF vars
  <2> QED
    BY <2>1, <2>2, <2>3, <2>4, <2>5, <2>6, <2>7, <2>8, <2>9, <2>10
       DEF Next, Callback, Write, Terminated
<1>3. QED
  BY <1>1, <1>2, PTL DEF Steps

(* No timer outlives its connection, so that the login timer's callback    *)
(* never meets the freed connection its test is looking for.               *)
THEOREM TimersFreed == Steps => []TimersOfLiveClients
<1> USE DEF TimersOfLiveClients
<1>1. Init => TimersOfLiveClients
  BY DEF Init
<1>2. TimersOfLiveClients /\ [Next]_vars => TimersOfLiveClients'
  <2> SUFFICES ASSUME TimersOfLiveClients, [Next]_vars PROVE TimersOfLiveClients'
    OBVIOUS
  <2> USE DEF timers
  <2>1. CASE Accept
    BY <2>1 DEF Accept
  <2>2. ASSUME NEW c \in Client, Callback(c) PROVE TimersOfLiveClients'
    BY <2>2 DEF Callback, Ping, ReceiveRequest, OnClosed, OnHeartbeatTimeout,
                OnLoginTimeout, Delete
  <2>3. CASE UNCHANGED <<g_TCPClientMap, timers>>
    BY <2>3
  <2> QED
    BY <2>1, <2>2, <2>3 DEF Next, Loop, Prepare, Dispatch, LoopEnds, ListenFails,
       PutMessage, Write, OnWriteble, OnWritebleFreed, Stop, Joined, Terminated, vars
<1>3. QED
  BY <1>1, <1>2, PTL DEF Steps

(* What keeps FirstConnectionServed: answers wait for the first connection *)
(* only, nobody asks before there is one, and it is in m_Connects as long  *)
(* as it is open.                                                          *)
ServedInv ==
  /\ FirstConnectionServed
  /\ \A c \in Client \ {SS} : m_Datas[c] = <<>>
  /\ accepted = 0 => /\ received = 0 /\ lost = {}
                     /\ \A c \in Client : m_Datas[c] = <<>> /\ written[c] = <<>>
  /\ SS \in g_TCPClientMap => SS \in m_Connects

(* Every step keeps it.                                                    *)
LEMMA ServedCorrect == Steps => []ServedInv
<1> USE NumClientsAssumption, NumRequestsAssumption DEF Client, SS
<1>0. <<>> = [i \in 1..0 |-> i] /\ <<>> \o <<>> = <<>>
  <2>1. <<>> \in Seq(Nat)
    BY EmptySeq
  <2>2. <<>> \o <<>> = <<>>
    BY <2>1, ConcatEmptySeq
  <2> QED
    BY <2>2
<1>1. Init => ServedInv
  BY DEF Init, ServedInv, FirstConnectionServed
<1>2. TypeOK /\ ServedInv /\ [Next]_vars => ServedInv'
  <2> SUFFICES ASSUME TypeOK, ServedInv, [Next]_vars PROVE ServedInv'
    OBVIOUS
  <2>0. /\ SS \in Client /\ puts \in Nat /\ accepted \in Nat
        /\ m_Datas[SS] \in Seq(1..puts) /\ written[SS] \in Seq(1..puts)
        /\ g_TCPClientMap \subseteq 1..accepted
    BY DEF TypeOK
  <2> USE <2>0 DEF ServedInv, FirstConnectionServed, timers, answers, stops
  <2>1. CASE UNCHANGED <<accepted, m_Connects, received, answers>>
             /\ g_TCPClientMap' \subseteq g_TCPClientMap
    BY <2>1
  <2>2. CASE Accept
    <3>1. /\ accepted' = accepted + 1
          /\ g_TCPClientMap' = g_TCPClientMap \cup {accepted'}
          /\ m_Connects' = m_Connects \cup {accepted'}
          /\ UNCHANGED <<received, puts, m_Datas, written, lost>>
      BY <2>2 DEF Accept
    <3>2. CASE accepted = 0
      <4>1. puts = 0
        BY <3>2 DEF TypeOK
      <4> QED
        <5>1. \A c \in Client : m_Datas[c] = <<>> /\ written[c] = <<>>
          BY <3>2
        <5>2. written'[SS] \o m_Datas'[SS] = [i \in 1..puts' |-> i]
          BY <1>0, <3>1, <4>1, <5>1
        <5> QED
          BY <3>1, <3>2, <5>1, <5>2
    <3>3. CASE accepted # 0
      <4>1. accepted' # 0 /\ accepted' # SS
        BY <3>1, <3>3
      <4> QED
        BY <3>1, <3>3, <4>1
    <3> QED
      BY <3>2, <3>3
  <2>3. ASSUME NEW c \in Client, Callback(c), ~ReceiveRequest(c) PROVE ServedInv'
    BY <2>1, <2>3 DEF Callback, Ping, OnClosed, OnHeartbeatTimeout, OnLoginTimeout,
                      Delete
  <2>4. ASSUME NEW c \in Client, ReceiveRequest(c) PROVE ServedInv'
    <3>1. accepted # 0
      BY <2>4 DEF ReceiveRequest
    <3> QED
      BY <2>4, <3>1 DEF ReceiveRequest
  <2>5. CASE PutMessage
    <3>1. /\ puts' = puts + 1
          /\ m_Datas' = [m_Datas EXCEPT ![SS] = Append(@, puts + 1)]
          /\ UNCHANGED <<accepted, g_TCPClientMap, m_Connects, received, written, lost>>
      BY <2>5 DEF PutMessage
    <3>2. accepted # 0
      BY <2>5 DEF PutMessage, TypeOK
    <3>3. m_Datas'[SS] = Append(m_Datas[SS], puts + 1)
          /\ \A c \in Client \ {SS} : m_Datas'[c] = m_Datas[c]
      BY <3>1 DEF TypeOK
    <3>4. ASSUME SS \in g_TCPClientMap
          PROVE  written[SS] \o Append(m_Datas[SS], puts + 1) = InOrder(puts + 1)
      <4>1. written[SS] \in Seq(Nat) /\ m_Datas[SS] \in Seq(Nat) /\ puts \in Nat
        BY SeqMonotonic
      <4>2. written[SS] \o m_Datas[SS] = InOrder(puts)
        BY <3>4 DEF InOrder
      <4> QED
        BY <4>1, <4>2, AppendNext
    <3> QED
      BY <3>1, <3>2, <3>3, <3>4 DEF InOrder
  <2>6. CASE OnWriteble
    <3>1. /\ written' = [c \in Client |-> IF c \in Pending THEN written[c] \o m_Datas[c]
                                          ELSE written[c]]
          /\ m_Datas' = [c \in Client |-> IF c \in Pending THEN <<>> ELSE m_Datas[c]]
          /\ UNCHANGED <<accepted, g_TCPClientMap, m_Connects, received, puts, lost>>
      BY <2>6 DEF OnWriteble
    <3>2. \A c \in Client : c \in Pending => m_Datas[c] # <<>>
      BY DEF Pending
    <3>3. \A c \in Client \ {SS} : written'[c] = written[c] /\ m_Datas'[c] = <<>>
      BY <3>1, <3>2
    <3>4. CASE SS \in Pending
      <4>1. written'[SS] = written[SS] \o m_Datas[SS] /\ m_Datas'[SS] = <<>>
        BY <3>1, <3>4
      <4>2. written'[SS] \o m_Datas'[SS] = written[SS] \o m_Datas[SS]
        <5>1. written[SS] \o m_Datas[SS] \in Seq(1..puts)
          BY ConcatProperties
        <5> QED
          BY <4>1, <5>1, ConcatEmptySeq
      <4>3. accepted # 0
        BY <3>2, <3>4
      <4> QED
        BY <3>1, <3>3, <4>1, <4>2, <4>3
    <3>5. CASE SS \notin Pending
      <4>1. written'[SS] = written[SS] /\ m_Datas'[SS] = m_Datas[SS]
        BY <3>1, <3>5
      <4> QED
        BY <3>1, <3>3, <4>1
    <3> QED
      BY <3>4, <3>5
  <2>7. CASE OnWritebleFreed
    <3>1. /\ Pending \ g_TCPClientMap # {}
          /\ m_Datas' = [m_Datas EXCEPT ![SS] = <<>>]
          /\ UNCHANGED <<accepted, g_TCPClientMap, m_Connects, received, puts>>
      BY <2>7 DEF OnWritebleFreed
    <3>2. Pending \subseteq {SS} /\ m_Datas[SS] # <<>> /\ SS \notin g_TCPClientMap
      <4>1. Pending \subseteq Client
        <5>1. m_Connects \subseteq Client
          BY DEF TypeOK
        <5> QED
          BY <5>1 DEF Pending
      <4>2. \A c \in Pending : m_Datas[c] # <<>>
        BY DEF Pending
      <4> QED
        BY <3>1, <4>1, <4>2
    <3>3. accepted # 0
      BY <3>2
    <3>4. \A c \in Client \ {SS} : m_Datas'[c] = <<>>
      BY <3>1 DEF TypeOK
    <3> QED
      BY <3>1, <3>2, <3>3, <3>4
  <2>8. CASE Loop \/ ListenFails \/ Stop \/ Joined \/ UNCHANGED vars
    BY <2>1, <2>8 DEF Loop, Prepare, Dispatch, LoopEnds, ListenFails, Stop, Joined,
                      vars
  <2> QED
    BY <2>2, <2>3, <2>4, <2>5, <2>6, <2>7, <2>8
       DEF Next, Callback, Write, Terminated
<1>3. QED
  BY <1>1, <1>2, TypeCorrect, PTL DEF Steps

(* While it is open, the first connection gets every answer once and in    *)
(* order, and nobody else gets one.                                        *)
THEOREM FirstServed == Steps => []FirstConnectionServed
<1>1. ServedInv => FirstConnectionServed
  BY DEF ServedInv
<1> QED
  BY <1>1, ServedCorrect, PTL

(* Nothing that waits for the first connection is out of OnWriteble's      *)
(* reach while the connection is open.                                     *)
THEOREM AnswersWithinReach == Steps => []AnswersReachable
<1>1. TypeOK /\ ServedInv => AnswersReachable
  <2> SUFFICES ASSUME TypeOK, ServedInv PROVE AnswersReachable
    OBVIOUS
  <2>1. m_Connects \subseteq Client
    BY NumClientsAssumption DEF TypeOK, Client
  <2> QED
    BY <2>1 DEF ServedInv, AnswersReachable, Pending
<1> QED
  BY <1>1, TypeCorrect, ServedCorrect, PTL

(* Stop has reached the loop, or has recorded that it could not.           *)
THEOREM StopReached == Steps => []StopReachesLoop
<1> USE DEF StopReachesLoop
<1>1. Init => StopReachesLoop
  BY DEF Init
<1>2. TypeOK /\ StopReachesLoop /\ [Next]_vars => StopReachesLoop'
  <2> SUFFICES ASSUME TypeOK, StopReachesLoop, [Next]_vars PROVE StopReachesLoop'
    OBVIOUS
  <2> USE DEF stops
  <2>1. CASE UNCHANGED <<loop, event_break, stop, missed>>
    BY <2>1
  <2>2. CASE Loop \/ ListenFails \/ Joined
    BY <2>2 DEF Loop, Prepare, Dispatch, LoopEnds, ListenFails, Joined
  <2>3. CASE Stop
    BY <2>3 DEF Stop, TypeOK
  <2> QED
    BY <2>1, <2>2, <2>3 DEF Next, Accept, Callback, Ping, ReceiveRequest, OnClosed,
       OnHeartbeatTimeout, OnLoginTimeout, PutMessage, Write, OnWriteble,
       OnWritebleFreed, Terminated, vars
<1>3. QED
  BY <1>1, <1>2, TypeCorrect, PTL DEF Steps
=============================================================================
