--------------------------- MODULE TcpClientProofs ---------------------------
(***************************************************************************)
(* Proofs about the reconnecting client for any number of addresses,       *)
(* threads that put messages, messages and starts, and for any capacity.   *)
(***************************************************************************)
EXTENDS TcpClient, FiniteSetTheorems, SequenceTheorems, TLAPS

(* What has been put may grow: a sequence of it stays one.                 *)
LEMMA MorePuts ==
  ASSUME NEW k \in Nat, NEW n \in Nat, k <= n, NEW q \in Seq(1..k)
  PROVE  q \in Seq(1..n)
<1>1. 1..k \subseteq 1..n
  OBVIOUS
<1> QED
  BY <1>1, SeqMonotonic

(* What has not to do with the queue keeps its type.                       *)
ControlOK ==
  /\ loop \in {"ended", "testing", "creating", "prepared", "dispatching", "freed"}
  /\ m_pBase \in {"null", "live", "freed"}
  /\ m_tcpIndex \in 0..NumAddresses /\ address \in 0..(NumAddresses - 1)
  /\ conn \in {"none", "connecting", "up", "closed", "refused"}
  /\ timers \subseteq {"connect", "delay", "ping", "heartbeat"}
  /\ m_TimeoutTimes \in 0..MaxTimes
  /\ stop \in {"idle", "no", "asked", "breaking", "joining"}
  /\ starts \in 0..NumStarts

FlagsOK ==
  /\ m_Running \in BOOLEAN /\ event_break \in BOOLEAN
  /\ m_Connected \in BOOLEAN /\ granted \in BOOLEAN
  /\ missed \in BOOLEAN /\ crashed \in BOOLEAN

QueueOK ==
  /\ puts \in 0..NumPuts /\ refused \in 0..NumPuts /\ putting \subseteq Putter
  /\ m_Datas \in Seq(1..puts) /\ output \in Seq(1..puts)
  /\ written \in Seq(1..puts) /\ lost \subseteq 1..puts

(* A thread between the test and the Put has its place among the messages  *)
(* to come, and in the queue beyond the capacity.                          *)
SizeInv ==
  /\ puts + refused + Cardinality(putting) <= NumPuts
  /\ Len(m_Datas) + Cardinality(putting) <= Capacity + Cardinality(Putter) - 1

TypeInv == TypeOK /\ SizeInv

(* The steps that leave the messages alone, but for Cleanup, which frees   *)
(* those in the output buffer.                                             *)
OtherSteps ==
  \/ Loop \/ Peer \/ OnTimer("connect") \/ OnTimer("delay") \/ Ping
  \/ HeartbeatTimeout \/ Start \/ Stop \/ Stopping \/ UNCHANGED vars

(* A step is one of the queue's or leaves it alone.                        *)
LEMMA StepKinds ==
  ASSUME [Next]_vars
  PROVE  OtherSteps \/ OnWriteble \/ Flush \/ \E p \in Putter : TestSize(p) \/ Put(p)
  BY DEF Next, OtherSteps, PutMessage, Finished

LEMMA QueueApart ==
  ASSUME OtherSteps
  PROVE  Cleanup \/ UNCHANGED queue
<1>1. CASE Loop
  BY <1>1 DEF Loop, TestRunning, Connect, Dispatch, ClearBase
<1>2. CASE Peer
  BY <1>2 DEF Peer, OnConnected, OnClosed, ResetHearbeat, SetLoginSuccess, Close
<1>3. CASE OnTimer("connect") \/ OnTimer("delay") \/ Ping \/ HeartbeatTimeout
  BY <1>3 DEF OnTimer, Ping, HeartbeatTimeout
<1>4. CASE Start \/ Stop \/ Stopping
  BY <1>4 DEF Start, Stop, Stopping, ReadBase, BreakLoop, Joined
<1>5. CASE UNCHANGED vars
  BY <1>5 DEF vars
<1> QED
  BY <1>1, <1>2, <1>3, <1>4, <1>5 DEF OtherSteps

(* The variables that are not flags or of the queue keep their types.      *)
LEMMA ControlStep == TypeOK /\ [Next]_vars => ControlOK'
<1> SUFFICES ASSUME TypeOK, [Next]_vars PROVE ControlOK'
  OBVIOUS
<1> USE NumAddressesAssumption, BoundsAssumption
    DEF ControlOK, thread, peer, stops, MaxTimes
<1>0. ControlOK
  BY DEF TypeOK
<1>1. CASE Connect
  <2>1. /\ address' = m_tcpIndex % NumAddresses /\ m_tcpIndex' = address' + 1
        /\ loop' = "prepared" /\ m_pBase' = "live" /\ conn' = "connecting"
        /\ timers' = {"connect"}
        /\ UNCHANGED <<m_TimeoutTimes, stop, starts>>
    BY <1>1 DEF Connect
  <2>2. address' \in 0..(NumAddresses - 1)
    BY <1>0, <2>1
  <2>3. m_tcpIndex' \in 0..NumAddresses
    BY <2>1, <2>2
  <2> QED
    BY <1>0, <2>1, <2>2, <2>3
<1>2. CASE TestRunning \/ Dispatch \/ Cleanup \/ ClearBase
  BY <1>0, <1>2 DEF TestRunning, Dispatch, Cleanup, ClearBase
<1>3. CASE Peer
  <2>1. CASE OnConnected \/ OnClosed
    BY <1>0, <2>1 DEF OnConnected, OnClosed
  <2>2. CASE ResetHearbeat
    BY <1>0, <2>2 DEF ResetHearbeat
  <2>3. CASE SetLoginSuccess \/ Close
    BY <1>0, <2>3 DEF SetLoginSuccess, Close
  <2> QED
    BY <1>3, <2>1, <2>2, <2>3 DEF Peer
<1>4. CASE OnTimer("connect") \/ OnTimer("delay") \/ Ping
  <2>1. CASE OnTimer("connect")
    BY <1>0, <2>1 DEF OnTimer
  <2>2. CASE OnTimer("delay")
    BY <1>0, <2>2 DEF OnTimer
  <2>3. CASE Ping
    BY <1>0, <2>3 DEF Ping
  <2> QED
    BY <1>4, <2>1, <2>2, <2>3
<1>5. CASE HeartbeatTimeout
  BY <1>0, <1>5 DEF HeartbeatTimeout, Counted
<1>6. CASE OnWriteble \/ Flush \/ \E p \in Putter : TestSize(p) \/ Put(p)
  <2>1. UNCHANGED <<loop, m_pBase, m_tcpIndex, address, conn, timers, m_TimeoutTimes,
                    stop, starts>>
    BY <1>6 DEF OnWriteble, Flush, TestSize, Put
  <2> QED
    BY <1>0, <2>1
<1>7. CASE Start
  BY <1>0, <1>7 DEF Start
<1>8. CASE Stop \/ Stopping
  BY <1>0, <1>8 DEF Stop, Stopping, ReadBase, BreakLoop, Joined
<1>9. CASE UNCHANGED vars
  BY <1>0, <1>9 DEF vars
<1> QED
  BY <1>1, <1>2, <1>3, <1>4, <1>5, <1>6, <1>7, <1>8, <1>9, StepKinds
     DEF OtherSteps, Loop

(* The flags stay flags.                                                   *)
LEMMA FlagsStep == TypeOK /\ [Next]_vars => FlagsOK'
<1> SUFFICES ASSUME TypeOK, [Next]_vars PROVE FlagsOK'
  OBVIOUS
<1> USE DEF thread, peer, stops
<1>0. FlagsOK
  BY DEF TypeOK, FlagsOK
<1>1. CASE Loop
  BY <1>0, <1>1 DEF FlagsOK, Loop, TestRunning, Connect, Dispatch, Cleanup, ClearBase
<1>2. CASE Peer
  BY <1>0, <1>2 DEF FlagsOK, Peer, OnConnected, OnClosed, ResetHearbeat,
                    SetLoginSuccess, Close
<1>3. CASE OnTimer("connect") \/ OnTimer("delay") \/ Ping \/ HeartbeatTimeout
  BY <1>0, <1>3 DEF FlagsOK, OnTimer, Ping, HeartbeatTimeout
<1>4. CASE OnWriteble \/ Flush \/ \E p \in Putter : TestSize(p) \/ Put(p)
  BY <1>0, <1>4 DEF FlagsOK, OnWriteble, Flush, TestSize, Put
<1>5. CASE Start \/ Stop \/ Joined
  BY <1>0, <1>5 DEF FlagsOK, Start, Stop, Joined
<1>6. CASE ReadBase
  <2>1. missed' \in BOOLEAN
    BY <1>6 DEF ReadBase
  <2>2. UNCHANGED <<m_Running, event_break, m_Connected, granted, crashed>>
    BY <1>6 DEF ReadBase
  <2> QED
    BY <1>0, <2>1, <2>2 DEF FlagsOK
<1>7. CASE BreakLoop
  <2>1. event_break' \in BOOLEAN /\ missed' \in BOOLEAN
    BY <1>0, <1>7 DEF FlagsOK, BreakLoop
  <2>2. crashed' \in BOOLEAN
    BY <1>0, <1>7 DEF FlagsOK, BreakLoop
  <2>3. UNCHANGED <<m_Running, m_Connected, granted>>
    BY <1>7 DEF BreakLoop
  <2> QED
    BY <1>0, <2>1, <2>2, <2>3 DEF FlagsOK
<1>8. CASE UNCHANGED vars
  BY <1>0, <1>8 DEF FlagsOK, vars
<1> QED
  BY <1>1, <1>2, <1>3, <1>4, <1>5, <1>6, <1>7, <1>8, StepKinds
     DEF OtherSteps, Stopping

(* The numbers SizeInv speaks of.                                          *)
LEMMA Sizes ==
  ASSUME TypeOK
  PROVE  /\ IsFiniteSet(putting) /\ Cardinality(putting) \in Nat
         /\ Cardinality(putting) <= Cardinality(Putter)
         /\ Cardinality(Putter) \in Nat \ {0}
         /\ puts \in Nat /\ refused \in Nat /\ Len(m_Datas) \in Nat
         /\ \A p \in Putter \ putting :
              /\ Cardinality(putting \cup {p}) = Cardinality(putting) + 1
              /\ Cardinality(putting \cup {p}) <= Cardinality(Putter)
         /\ \A p \in putting : Cardinality(putting \ {p}) = Cardinality(putting) - 1
<1>1. /\ IsFiniteSet(putting) /\ Cardinality(putting) <= Cardinality(Putter)
      /\ \A p \in Putter : Cardinality(putting \cup {p}) <= Cardinality(Putter)
  <2>1. putting \subseteq Putter /\ \A p \in Putter : putting \cup {p} \subseteq Putter
    BY DEF TypeOK
  <2> QED
    BY <2>1, PutterAssumption, FS_Subset
<1>2. /\ Cardinality(putting) \in Nat /\ Cardinality(Putter) \in Nat
      /\ Cardinality(Putter) # 0
  BY <1>1, PutterAssumption, FS_CardinalityType, FS_EmptySet
<1>3. /\ \A p \in Putter \ putting :
           Cardinality(putting \cup {p}) = Cardinality(putting) + 1
      /\ \A p \in putting : Cardinality(putting \ {p}) = Cardinality(putting) - 1
  BY <1>1, FS_AddElement, FS_RemoveElement
<1>4. puts \in Nat /\ refused \in Nat /\ Len(m_Datas) \in Nat
  BY BoundsAssumption, LenProperties DEF TypeOK
<1> QED
  BY <1>1, <1>2, <1>3, <1>4

(* The queue, the messages written and the lost ones keep their types, and *)
(* the threads in PutMessage their places.                                 *)
LEMMA QueueStep == TypeInv /\ [Next]_vars => QueueOK' /\ SizeInv'
<1> SUFFICES ASSUME TypeInv, [Next]_vars PROVE QueueOK' /\ SizeInv'
  OBVIOUS
<1>0. QueueOK /\ SizeInv /\ puts \in Nat
  BY BoundsAssumption DEF TypeInv, TypeOK, QueueOK
<1>s. TypeOK
  BY DEF TypeInv
<1>e. <<>> \in Seq(1..puts)
  BY EmptySeq
<1>1. CASE OtherSteps /\ ~Cleanup
  BY <1>0, <1>1, QueueApart DEF QueueOK, SizeInv, queue, sent
<1>2. CASE Cleanup
  <2>1. /\ output' = <<>> /\ lost' = lost \cup Elements(output)
        /\ UNCHANGED <<m_Datas, putting, puts, refused, written>>
    BY <1>2 DEF Cleanup, FreeOutput
  <2>2. Elements(output) \subseteq 1..puts
    BY <1>0, ElementOfSeq DEF QueueOK, Elements
  <2> QED
    BY <1>0, <1>e, <2>1, <2>2 DEF QueueOK, SizeInv
<1>3. CASE OnWriteble
  <2>1. /\ m_Datas # <<>> /\ m_Datas' = Tail(m_Datas)
        /\ \/ output' = Append(output, Head(m_Datas)) /\ UNCHANGED lost
           \/ lost' = lost \cup {Head(m_Datas)} /\ UNCHANGED output
        /\ UNCHANGED <<putting, puts, refused, written>>
    BY <1>3 DEF OnWriteble
  <2>2. /\ Head(m_Datas) \in 1..puts /\ m_Datas' \in Seq(1..puts)
        /\ Len(m_Datas') = Len(m_Datas) - 1
    BY <1>0, <2>1, HeadTailProperties DEF QueueOK
  <2>3. Append(output, Head(m_Datas)) \in Seq(1..puts)
    BY <1>0, <2>2, AppendProperties DEF QueueOK
  <2>4. QueueOK'
    BY <1>0, <2>1, <2>2, <2>3 DEF QueueOK
  <2>5. SizeInv'
    BY <1>0, <1>s, <2>1, <2>2, Sizes, BoundsAssumption DEF SizeInv
  <2> QED
    BY <2>4, <2>5
<1>4. CASE Flush
  <2>1. /\ output # <<>> /\ output' = Tail(output)
        /\ written' = Append(written, Head(output))
        /\ UNCHANGED <<m_Datas, putting, puts, refused, lost>>
    BY <1>4 DEF Flush
  <2>2. Head(output) \in 1..puts /\ output' \in Seq(1..puts)
    BY <1>0, <2>1, HeadTailProperties DEF QueueOK
  <2>3. written' \in Seq(1..puts)
    BY <1>0, <2>1, <2>2, AppendProperties DEF QueueOK
  <2> QED
    BY <1>0, <2>1, <2>2, <2>3 DEF QueueOK, SizeInv
<1>5. ASSUME NEW p \in Putter, TestSize(p) PROVE QueueOK' /\ SizeInv'
  <2>1. /\ p \notin putting /\ puts + refused + Cardinality(putting) < NumPuts
        /\ IF Len(m_Datas) < Capacity
           THEN putting' = putting \cup {p} /\ UNCHANGED refused
           ELSE refused' = refused + 1 /\ UNCHANGED putting
        /\ UNCHANGED <<m_Datas, puts, output, written, lost>>
    BY <1>5 DEF TestSize, CanPut, sent
  <2>2. CASE Len(m_Datas) < Capacity
    <3>1. /\ Cardinality(putting') = Cardinality(putting) + 1
          /\ Cardinality(putting') <= Cardinality(Putter)
      BY <1>s, <2>1, <2>2, Sizes
    <3>2. QueueOK'
      BY <1>0, <2>1, <2>2 DEF QueueOK
    <3>3. SizeInv'
      BY <1>s, <2>1, <2>2, <3>1, Sizes, BoundsAssumption DEF SizeInv
    <3> QED
      BY <3>2, <3>3
  <2>3. CASE ~(Len(m_Datas) < Capacity)
    <3>1. refused' \in 0..NumPuts /\ puts + refused' + Cardinality(putting) <= NumPuts
      BY <1>s, <2>1, <2>3, Sizes, BoundsAssumption
    <3> QED
      BY <1>0, <2>1, <2>3, <3>1 DEF QueueOK, SizeInv
  <2> QED
    BY <2>2, <2>3
<1>6. ASSUME NEW p \in Putter, Put(p) PROVE QueueOK' /\ SizeInv'
  <2>1. /\ p \in putting /\ puts' = puts + 1 /\ m_Datas' = Append(m_Datas, puts + 1)
        /\ putting' = putting \ {p} /\ UNCHANGED <<refused, output, written, lost>>
    BY <1>6 DEF Put, sent
  <2>2. Cardinality(putting') = Cardinality(putting) - 1
    BY <1>s, <2>1, Sizes
  <2>3. puts' \in 0..NumPuts /\ puts' \in Nat /\ puts <= puts'
    <3>1. Cardinality(putting') \in Nat
      BY <1>s, <2>1, Sizes, FS_RemoveElement, FS_CardinalityType
    <3> QED
      BY <1>0, <1>s, <2>1, <2>2, <3>1, Sizes, BoundsAssumption DEF SizeInv
  <2>4. /\ m_Datas \in Seq(1..puts') /\ written' \in Seq(1..puts')
        /\ output' \in Seq(1..puts')
    BY <1>0, <2>1, <2>3, MorePuts DEF QueueOK
  <2>5. m_Datas' \in Seq(1..puts') /\ Len(m_Datas') = Len(m_Datas) + 1
    <3>1. puts + 1 \in 1..puts'
      BY <1>0, <2>1
    <3> QED
      BY <2>1, <2>4, <3>1, AppendProperties
  <2>6. QueueOK'
    BY <1>0, <2>1, <2>3, <2>4, <2>5 DEF QueueOK
  <2>7. SizeInv'
    BY <1>0, <1>s, <2>1, <2>2, <2>5, Sizes, BoundsAssumption DEF SizeInv
  <2> QED
    BY <2>6, <2>7
<1> QED
  BY <1>1, <1>2, <1>3, <1>4, <1>5, <1>6, StepKinds
-----------------------------------------------------------------------------
(* The types and the sizes hold together.                                  *)
LEMMA TypeInvCorrect == Spec => []TypeInv
<1>1. Init => TypeInv
  <2> SUFFICES ASSUME Init PROVE TypeInv
    OBVIOUS
  <2>1. ControlOK
    BY NumAddressesAssumption, BoundsAssumption DEF Init, ControlOK, MaxTimes
  <2>2. FlagsOK
    BY DEF Init, FlagsOK
  <2>3. QueueOK
    <3>1. <<>> \in Seq(1..puts)
      BY EmptySeq
    <3> QED
      BY <3>1, BoundsAssumption DEF Init, QueueOK
  <2>4. TypeOK
    BY <2>1, <2>2, <2>3 DEF ControlOK, FlagsOK, QueueOK, TypeOK
  <2>5. SizeInv
    <3>1. /\ Cardinality({}) = 0 /\ Len(<<>>) = 0
          /\ Cardinality(Putter) \in Nat \ {0}
      BY <2>4, Sizes, FS_EmptySet
    <3> QED
      BY <3>1, BoundsAssumption DEF Init, SizeInv
  <2> QED
    BY <2>4, <2>5 DEF TypeInv
<1>2. TypeInv /\ [Next]_vars => TypeInv'
  <2> SUFFICES ASSUME TypeInv, [Next]_vars PROVE TypeInv'
    OBVIOUS
  <2>1. ControlOK' /\ FlagsOK' /\ QueueOK' /\ SizeInv'
    BY ControlStep, FlagsStep, QueueStep DEF TypeInv
  <2> QED
    BY <2>1 DEF ControlOK, FlagsOK, QueueOK, TypeOK, TypeInv
<1>3. QED
  BY <1>1, <1>2, PTL DEF Spec

(* Every variable keeps its type.                                          *)
THEOREM TypeCorrect == Spec => []TypeOK
<1>1. TypeInv => TypeOK
  BY DEF TypeInv
<1> QED
  BY <1>1, TypeInvCorrect, PTL

(* The size is tested by each thread before its Put and not again: no more *)
(* wait than the capacity and one for each further thread.                 *)
THEOREM QueueBounded == Spec => []QueueBound
<1>1. TypeInv => QueueBound
  <2> SUFFICES ASSUME TypeInv PROVE QueueBound
    OBVIOUS
  <2>1. TypeOK /\ SizeInv
    BY DEF TypeInv
  <2> QED
    BY <2>1, Sizes, BoundsAssumption DEF SizeInv, QueueBound
<1> QED
  BY <1>1, TypeInvCorrect, PTL

(* What keeps LoggedInOnly: outside the loop the flag is down, and a new   *)
(* thread is only started when there is none.                              *)
LoginInv ==
  /\ LoggedInOnly
  /\ m_Connected => loop = "dispatching"
  /\ stop = "idle" => loop = "ended"

(* The login's flag is up only where this connection's peer has accepted.  *)
THEOREM LoginOfThisConnection == Spec => []LoggedInOnly
<1> USE DEF LoginInv, LoggedInOnly
<1>1. Init => LoginInv
  BY DEF Init
<1>2. LoginInv /\ [Next]_vars => LoginInv'
  <2> SUFFICES ASSUME LoginInv, [Next]_vars PROVE LoginInv'
    OBVIOUS
  <2> USE DEF thread, peer, stops
  <2>1. CASE Loop
    BY <2>1 DEF Loop, TestRunning, Connect, Dispatch, Cleanup, ClearBase
  <2>2. CASE Peer
    BY <2>2 DEF Peer, OnConnected, OnClosed, ResetHearbeat, SetLoginSuccess, Close,
                Dispatching
  <2>3. CASE OnTimer("connect") \/ OnTimer("delay") \/ Ping \/ HeartbeatTimeout
    BY <2>3 DEF OnTimer, Ping, HeartbeatTimeout
  <2>4. CASE OnWriteble \/ Flush \/ \E p \in Putter : TestSize(p) \/ Put(p)
    BY <2>4 DEF OnWriteble, Flush, TestSize, Put
  <2>5. CASE Start
    BY <2>5 DEF Start
  <2>6. CASE Stop \/ Stopping \/ UNCHANGED vars
    BY <2>6 DEF Stop, Stopping, ReadBase, BreakLoop, Joined, vars
  <2> QED
    BY <2>1, <2>2, <2>3, <2>4, <2>5, <2>6, StepKinds DEF OtherSteps
<1>3. LoginInv => LoggedInOnly
  OBVIOUS
<1>4. QED
  BY <1>1, <1>2, <1>3, PTL DEF Spec
-----------------------------------------------------------------------------
Increasing(q) == \A i, j \in 1..Len(q) : i < j => q[i] < q[j]
Before(A, B) == \A x \in A, y \in B : x < y

(* Two sequences one behind the other.                                     *)
LEMMA TwoParts ==
  ASSUME NEW n \in Nat, NEW a \in Seq(1..n), NEW b \in Seq(1..n)
  PROVE  /\ a \o b \in Seq(1..n)
         /\ Elements(a \o b) = Elements(a) \cup Elements(b)
         /\ Increasing(a \o b) <=> /\ Increasing(a) /\ Increasing(b)
                                   /\ Before(Elements(a), Elements(b))
<1> DEFINE q == a \o b
<1>1. Len(a) \in Nat /\ Len(b) \in Nat
  BY LenProperties
<1>2. /\ q \in Seq(1..n) /\ Len(q) = Len(a) + Len(b)
      /\ \A i \in 1..(Len(a) + Len(b)) :
           q[i] = IF i <= Len(a) THEN a[i] ELSE b[i - Len(a)]
  BY ConcatProperties
<1> HIDE DEF q
<1>3. ASSUME NEW i \in 1..Len(a) PROVE i \in 1..Len(q) /\ q[i] = a[i]
  BY <1>1, <1>2
<1>4. ASSUME NEW i \in 1..Len(b)
      PROVE  Len(a) + i \in 1..Len(q) /\ q[Len(a) + i] = b[i]
  <2>1. Len(a) + i \in 1..(Len(a) + Len(b)) /\ ~(Len(a) + i <= Len(a))
        /\ (Len(a) + i) - Len(a) = i
    BY <1>1
  <2> QED
    BY <1>2, <2>1
<1>5. ASSUME NEW k \in 1..Len(q)
      PROVE  \/ k \in 1..Len(a) /\ q[k] = a[k]
             \/ k - Len(a) \in 1..Len(b) /\ k > Len(a) /\ q[k] = b[k - Len(a)]
  BY <1>1, <1>2
<1>6. Elements(q) = Elements(a) \cup Elements(b)
  <2>1. \A x \in Elements(q) : x \in Elements(a) \cup Elements(b)
    BY <1>5 DEF Elements
  <2>2. \A x \in Elements(a) : x \in Elements(q)
    BY <1>3 DEF Elements
  <2>3. \A x \in Elements(b) : x \in Elements(q)
    BY <1>4 DEF Elements
  <2> QED
    BY <2>1, <2>2, <2>3
<1>7. ASSUME Increasing(q)
      PROVE  Increasing(a) /\ Increasing(b) /\ Before(Elements(a), Elements(b))
  <2>1. Increasing(a)
    BY <1>3, <1>7 DEF Increasing
  <2>2. Increasing(b)
    <3> SUFFICES ASSUME NEW i \in 1..Len(b), NEW j \in 1..Len(b), i < j
                 PROVE  b[i] < b[j]
      BY DEF Increasing
    <3>1. Len(a) + i < Len(a) + j
      BY <1>1
    <3> QED
      BY <1>4, <1>7, <3>1 DEF Increasing
  <2>3. ASSUME NEW i \in 1..Len(a), NEW j \in 1..Len(b) PROVE a[i] < b[j]
    <3>1. i < Len(a) + j
      BY <1>1
    <3> QED
      BY <1>3, <1>4, <1>7, <3>1 DEF Increasing
  <2> QED
    BY <2>1, <2>2, <2>3 DEF Before, Elements
<1>8. ASSUME Increasing(a), Increasing(b), Before(Elements(a), Elements(b))
      PROVE  Increasing(q)
  <2> SUFFICES ASSUME NEW i \in 1..Len(q), NEW j \in 1..Len(q), i < j
               PROVE  q[i] < q[j]
    BY DEF Increasing
  <2>1. CASE i \in 1..Len(a) /\ j \in 1..Len(a)
    BY <1>3, <1>8, <2>1 DEF Increasing
  <2>2. CASE i \in 1..Len(a) /\ j - Len(a) \in 1..Len(b) /\ j > Len(a)
    <3>1. a[i] \in Elements(a) /\ b[j - Len(a)] \in Elements(b)
      BY <2>2 DEF Elements
    <3>2. q[i] = a[i] /\ q[j] = b[j - Len(a)]
      BY <1>1, <1>3, <1>5, <2>2
    <3> QED
      BY <1>8, <3>1, <3>2 DEF Before
  <2>3. CASE i - Len(a) \in 1..Len(b) /\ i > Len(a)
    <3>1. /\ j > Len(a) /\ j - Len(a) \in 1..Len(b) /\ i - Len(a) < j - Len(a)
          /\ q[i] = b[i - Len(a)] /\ q[j] = b[j - Len(a)]
      BY <1>1, <1>2, <1>5, <2>3
    <3> QED
      BY <1>8, <2>3, <3>1 DEF Increasing
  <2> QED
    BY <1>5, <2>1, <2>2, <2>3
<1> QED
  BY <1>2, <1>6, <1>7, <1>8 DEF q

(* A message alone.                                                        *)
LEMMA OneMessage ==
  ASSUME NEW n \in Nat, NEW x \in 1..n
  PROVE  <<x>> \in Seq(1..n) /\ Elements(<<x>>) = {x} /\ Increasing(<<x>>)
<1>1. <<x>> \in Seq(1..n) /\ Len(<<x>>) = 1 /\ <<x>>[1] = x
  OBVIOUS
<1>2. 1..1 = {1}
  OBVIOUS
<1> QED
  BY <1>1, <1>2 DEF Elements, Increasing

(* A sequence is its first message and the others behind it.               *)
LEMMA FirstAndRest ==
  ASSUME NEW n \in Nat, NEW q \in Seq(1..n), q # <<>>
  PROVE  /\ Head(q) \in 1..n /\ Tail(q) \in Seq(1..n)
         /\ Elements(q) = {Head(q)} \cup Elements(Tail(q))
         /\ Increasing(q) <=> /\ Increasing(Tail(q))
                              /\ Before({Head(q)}, Elements(Tail(q)))
<1>1. Head(q) \in 1..n /\ Tail(q) \in Seq(1..n)
  BY HeadTailProperties
<1>2. q = <<Head(q)>> \o Tail(q)
  <2>1. /\ Len(q) \in Nat \ {0} /\ Head(q) = q[1] /\ q = [i \in 1..Len(q) |-> q[i]]
        /\ Len(Tail(q)) = Len(q) - 1
        /\ \A i \in 1..Len(Tail(q)) : Tail(q)[i] = q[i + 1]
    BY HeadTailProperties, LenProperties, EmptySeq
  <2>2. <<Head(q)>> \in Seq(1..n) /\ Len(<<Head(q)>>) = 1 /\ <<Head(q)>>[1] = q[1]
    BY <1>1, <2>1
  <2> DEFINE r == <<Head(q)>> \o Tail(q)
  <2>3. /\ r \in Seq(1..n) /\ Len(r) = Len(q)
        /\ \A i \in 1..Len(q) : r[i] = IF i <= 1 THEN q[1] ELSE Tail(q)[i - 1]
    <3>1. /\ r \in Seq(1..n) /\ Len(r) = Len(<<Head(q)>>) + Len(Tail(q))
          /\ \A i \in 1..(Len(<<Head(q)>>) + Len(Tail(q))) :
               r[i] = IF i <= Len(<<Head(q)>>) THEN <<Head(q)>>[i]
                                               ELSE Tail(q)[i - Len(<<Head(q)>>)]
      BY <1>1, <2>2, ConcatProperties
    <3> HIDE DEF r
    <3>2. \A i \in 1..Len(q) : i <= 1 => i = 1
      BY <2>1
    <3> QED
      BY <2>1, <2>2, <3>1, <3>2
  <2> HIDE DEF r
  <2>4. \A i \in 1..Len(q) : r[i] = q[i]
    <3> SUFFICES ASSUME NEW i \in 1..Len(q) PROVE r[i] = q[i]
      OBVIOUS
    <3>1. CASE i = 1
      BY <2>3, <3>1
    <3>2. CASE i # 1
      <4>1. i - 1 \in 1..Len(Tail(q)) /\ (i - 1) + 1 = i /\ ~(i <= 1)
        BY <2>1, <3>2
      <4> QED
        BY <2>1, <2>3, <4>1
    <3> QED
      BY <3>1, <3>2
  <2>5. r = q
    BY <2>3, <2>4, SeqEqual
  <2> QED
    BY <2>5 DEF r
<1>3. /\ <<Head(q)>> \in Seq(1..n) /\ Elements(<<Head(q)>>) = {Head(q)}
      /\ Increasing(<<Head(q)>>)
  BY <1>1, OneMessage
<1> DEFINE h == <<Head(q)>>  t == Tail(q)
<1>4. /\ Elements(h \o t) = Elements(h) \cup Elements(t)
      /\ Increasing(h \o t) <=> /\ Increasing(h) /\ Increasing(t)
                                /\ Before(Elements(h), Elements(t))
  BY <1>1, <1>3, TwoParts
<1>5. q = h \o t
  BY <1>2
<1> HIDE DEF h, t
<1>6. /\ Elements(q) = Elements(h) \cup Elements(t)
      /\ Increasing(q) <=> /\ Increasing(h) /\ Increasing(t)
                           /\ Before(Elements(h), Elements(t))
  BY <1>4, <1>5
<1> QED
  BY <1>1, <1>3, <1>6 DEF h, t

(* The messages written, those in the output buffer and those that wait.   *)
LEMMA ThreeParts ==
  ASSUME NEW n \in Nat, NEW w \in Seq(1..n), NEW o \in Seq(1..n), NEW d \in Seq(1..n)
  PROVE  /\ Elements(w \o o \o d) = Elements(w) \cup Elements(o) \cup Elements(d)
         /\ Increasing(w \o o \o d) <=>
              /\ Increasing(w) /\ Increasing(o) /\ Increasing(d)
              /\ Before(Elements(w), Elements(o)) /\ Before(Elements(w), Elements(d))
              /\ Before(Elements(o), Elements(d))
<1>1. /\ w \o o \in Seq(1..n) /\ Elements(w \o o) = Elements(w) \cup Elements(o)
      /\ Increasing(w \o o) <=> /\ Increasing(w) /\ Increasing(o)
                                /\ Before(Elements(w), Elements(o))
  BY TwoParts
<1>2. /\ Elements(w \o o \o d) = Elements(w \o o) \cup Elements(d)
      /\ Increasing(w \o o \o d) <=> /\ Increasing(w \o o) /\ Increasing(d)
                                     /\ Before(Elements(w \o o), Elements(d))
  BY <1>1, TwoParts
<1>3. \A A, B, C : Before(A \cup B, C) <=> Before(A, C) /\ Before(B, C)
  BY Zenon DEF Before
<1> QED
  BY <1>1, <1>2, <1>3

(* The last message of a sequence.                                         *)
LEMMA OneMore ==
  ASSUME NEW n \in Nat, NEW q \in Seq(1..n), NEW x \in 1..n
  PROVE  /\ Append(q, x) \in Seq(1..n) /\ Elements(Append(q, x)) = Elements(q) \cup {x}
         /\ Increasing(Append(q, x)) <=> Increasing(q) /\ Before(Elements(q), {x})
<1>1. Append(q, x) = q \o <<x>>
  BY AppendIsConcat
<1>2. <<x>> \in Seq(1..n) /\ Elements(<<x>>) = {x} /\ Increasing(<<x>>)
  BY OneMessage
<1>3. /\ q \o <<x>> \in Seq(1..n) /\ Elements(q \o <<x>>) = Elements(q) \cup Elements(<<x>>)
      /\ Increasing(q \o <<x>>) <=> /\ Increasing(q) /\ Increasing(<<x>>)
                                    /\ Before(Elements(q), Elements(<<x>>))
  BY <1>2, TwoParts
<1> QED
  BY <1>1, <1>2, <1>3

(* What SentOnceInOrder says, part by part.                                *)
InParts(w, o, d) ==
  /\ Increasing(w) /\ Increasing(o) /\ Increasing(d)
  /\ Before(Elements(w), Elements(o)) /\ Before(Elements(w), Elements(d))
  /\ Before(Elements(o), Elements(d))

LEMMA SentInParts ==
  ASSUME puts \in Nat, written \in Seq(1..puts), output \in Seq(1..puts),
         m_Datas \in Seq(1..puts)
  PROVE  SentOnceInOrder <=>
           /\ InParts(written, output, m_Datas)
           /\ lost = (1..puts) \ (Elements(written) \cup Elements(output)
                                    \cup Elements(m_Datas))
<1>1. SentOnceInOrder <=> /\ Increasing(written \o output \o m_Datas)
                          /\ lost = (1..puts) \ Elements(written \o output \o m_Datas)
  BY DEF SentOnceInOrder, Increasing
<1> QED
  BY <1>1, ThreeParts DEF InParts

(* Every message put is written once at most, in the order of the puts,    *)
(* and is accounted for, whatever becomes of the connections.              *)
THEOREM OnceInOrder == Spec => []SentOnceInOrder
<1> DEFINE Parts(p, w, o, d, l) ==
             InParts(w, o, d)
               /\ l = (1..p) \ (Elements(w) \cup Elements(o) \cup Elements(d))
<1>0. Elements(<<>>) = {} /\ Increasing(<<>>)
  BY EmptySeq DEF Elements, Increasing
<1>1. Init => SentOnceInOrder
  <2> SUFFICES ASSUME Init PROVE SentOnceInOrder
    OBVIOUS
  <2>1. written = <<>> /\ output = <<>> /\ m_Datas = <<>> /\ puts = 0 /\ lost = {}
    BY DEF Init
  <2>2. <<>> \in Seq(1..0) /\ 1..0 = {}
    BY EmptySeq
  <2> QED
    BY <1>0, <2>1, <2>2, SentInParts DEF InParts, Before
<1>2. TypeOK /\ TypeOK' /\ SentOnceInOrder /\ [Next]_vars => SentOnceInOrder'
  <2> SUFFICES ASSUME TypeOK, TypeOK', SentOnceInOrder, [Next]_vars
               PROVE  SentOnceInOrder'
    OBVIOUS
  <2>0. /\ puts \in Nat /\ written \in Seq(1..puts) /\ output \in Seq(1..puts)
        /\ m_Datas \in Seq(1..puts)
    BY BoundsAssumption DEF TypeOK
  <2>p. Parts(puts, written, output, m_Datas, lost)
    BY <2>0, SentInParts
  <2>n. ASSUME Parts(puts', written', output', m_Datas', lost')
        PROVE  SentOnceInOrder'
    <3>1. /\ puts' \in Nat /\ written' \in Seq(1..puts') /\ output' \in Seq(1..puts')
          /\ m_Datas' \in Seq(1..puts')
      BY BoundsAssumption DEF TypeOK
    <3>2. SentOnceInOrder' <=>
            /\ Increasing(written' \o output' \o m_Datas')
            /\ lost' = (1..puts') \ Elements(written' \o output' \o m_Datas')
      BY DEF SentOnceInOrder, Increasing, Elements
    <3> QED
      BY <2>n, <3>1, <3>2, ThreeParts DEF InParts
  <2>1. CASE OtherSteps /\ ~Cleanup
    <3>1. UNCHANGED <<puts, written, output, m_Datas, lost>>
      BY <2>1, QueueApart DEF queue, sent
    <3> QED
      BY <3>1 DEF SentOnceInOrder, Elements
  <2>2. CASE Cleanup
    <3>1. /\ output' = <<>> /\ lost' = lost \cup Elements(output)
          /\ UNCHANGED <<puts, written, m_Datas>>
      BY <2>2 DEF Cleanup, FreeOutput
    <3>2. InParts(written, <<>>, m_Datas)
      BY <1>0, <2>p DEF InParts, Before
    <3>3. Elements(output) \subseteq 1..puts
      BY <2>0, ElementOfSeq DEF Elements
    <3>4. Elements(output) \cap (Elements(written) \cup Elements(m_Datas)) = {}
      <4>1. \A x \in Elements(output) : x \in Int
        BY <3>3, <2>0
      <4> QED
        BY <2>p, <4>1 DEF InParts, Before
    <3>5. Parts(puts', written', output', m_Datas', lost')
      BY <1>0, <2>p, <3>1, <3>2, <3>3, <3>4
    <3> QED
      BY <3>5, <2>n
  <2>3. CASE OnWriteble
    <3>1. /\ m_Datas # <<>> /\ m_Datas' = Tail(m_Datas)
          /\ \/ output' = Append(output, Head(m_Datas)) /\ UNCHANGED lost
             \/ lost' = lost \cup {Head(m_Datas)} /\ UNCHANGED output
          /\ UNCHANGED <<puts, written>>
      BY <2>3 DEF OnWriteble
    <3> DEFINE h == Head(m_Datas)  t == Tail(m_Datas)
    <3>2. /\ h \in 1..puts /\ t \in Seq(1..puts)
          /\ Elements(m_Datas) = {h} \cup Elements(t)
          /\ Increasing(m_Datas) <=> Increasing(t) /\ Before({h}, Elements(t))
      BY <2>0, <3>1, FirstAndRest
    <3>3. /\ Elements(Append(output, h)) = Elements(output) \cup {h}
          /\ Increasing(Append(output, h))
               <=> Increasing(output) /\ Before(Elements(output), {h})
      BY <2>0, <3>2, OneMore
    <3>4. m_Datas' = t /\ h = Head(m_Datas)
      BY <3>1
    <3> HIDE DEF h, t
    <3>5. CASE output' = Append(output, h) /\ UNCHANGED lost
      <4>1. InParts(written, Append(output, h), t)
        BY <2>p, <3>2, <3>3 DEF InParts, Before
      <4>2. Parts(puts', written', output', m_Datas', lost')
        BY <2>p, <3>1, <3>2, <3>3, <3>4, <3>5, <4>1
      <4> QED
        BY <4>2, <2>n
    <3>6. CASE lost' = lost \cup {h} /\ UNCHANGED output
      <4>1. InParts(written, output, t)
        BY <2>p, <3>2 DEF InParts, Before
      <4>2. h \notin Elements(written) \cup Elements(output) \cup Elements(t)
        <5>1. h \in Int /\ ~(h < h)
          BY <2>0, <3>2
        <5>2. h \in Elements(m_Datas)
          BY <3>2
        <5>3. h \notin Elements(written) /\ h \notin Elements(output)
          BY <2>p, <5>1, <5>2 DEF InParts, Before
        <5>4. h \notin Elements(t)
          BY <2>p, <3>2, <5>1 DEF InParts, Before
        <5> QED
          BY <5>3, <5>4
      <4>3. Parts(puts', written', output', m_Datas', lost')
        BY <2>p, <3>1, <3>2, <3>4, <3>6, <4>1, <4>2
      <4> QED
        BY <4>3, <2>n
    <3> QED
      BY <3>1, <3>4, <3>5, <3>6
  <2>4. CASE Flush
    <3>1. /\ output # <<>> /\ output' = Tail(output)
          /\ written' = Append(written, Head(output))
          /\ UNCHANGED <<m_Datas, puts, lost>>
      BY <2>4 DEF Flush
    <3> DEFINE h == Head(output)  t == Tail(output)
    <3>2. /\ h \in 1..puts /\ Elements(output) = {h} \cup Elements(t)
          /\ Increasing(output) <=> Increasing(t) /\ Before({h}, Elements(t))
      BY <2>0, <3>1, FirstAndRest
    <3>3. /\ Elements(Append(written, h)) = Elements(written) \cup {h}
          /\ Increasing(Append(written, h))
               <=> Increasing(written) /\ Before(Elements(written), {h})
      BY <2>0, <3>2, OneMore
    <3>4. output' = t /\ written' = Append(written, h)
      BY <3>1
    <3> HIDE DEF h, t
    <3>5. InParts(Append(written, h), t, m_Datas)
      BY <2>p, <3>2, <3>3 DEF InParts, Before
    <3>6. Parts(puts', written', output', m_Datas', lost')
      BY <2>p, <3>1, <3>2, <3>3, <3>4, <3>5
    <3> QED
      BY <3>6, <2>n
  <2>5. ASSUME NEW p \in Putter, TestSize(p) PROVE SentOnceInOrder'
    <3>1. UNCHANGED <<puts, written, output, m_Datas, lost>>
      BY <2>5 DEF TestSize, sent
    <3> QED
      BY <3>1 DEF SentOnceInOrder, Elements
  <2>6. ASSUME NEW p \in Putter, Put(p) PROVE SentOnceInOrder'
    <3>1. /\ puts' = puts + 1 /\ m_Datas' = Append(m_Datas, puts + 1)
          /\ UNCHANGED <<written, output, lost>>
      BY <2>6 DEF Put, sent
    <3>2. /\ m_Datas \in Seq(1..(puts + 1)) /\ puts + 1 \in 1..(puts + 1)
          /\ puts + 1 \in Nat
      BY <2>0, MorePuts
    <3>3. /\ Elements(m_Datas') = Elements(m_Datas) \cup {puts + 1}
          /\ Increasing(m_Datas')
               <=> Increasing(m_Datas) /\ Before(Elements(m_Datas), {puts + 1})
      BY <3>1, <3>2, OneMore
    <3>4. \A x \in Elements(written) \cup Elements(output) \cup Elements(m_Datas) :
            x \in 1..puts
      BY <2>0, ElementOfSeq DEF Elements
    <3>5. InParts(written, output, m_Datas')
      BY <2>0, <2>p, <3>3, <3>4 DEF InParts, Before
    <3>6. 1..(puts + 1) = (1..puts) \cup {puts + 1} /\ puts + 1 \notin 1..puts
      BY <2>0
    <3>7. Parts(puts', written', output', m_Datas', lost')
      BY <2>p, <3>1, <3>3, <3>4, <3>5, <3>6
    <3> QED
      BY <3>7, <2>n
  <2> QED
    BY <2>1, <2>2, <2>3, <2>4, <2>5, <2>6, StepKinds
<1>3. QED
  BY <1>1, <1>2, TypeCorrect, PTL DEF Spec
-----------------------------------------------------------------------------
(* Where the thread is, its base and its timers: a connection begins with  *)
(* the timer of its making, and no request to leave the loop is set but    *)
(* where it is dispatched.                                                 *)
LoopInv ==
  /\ NeverAbandoned
  /\ loop = "prepared" => conn = "connecting" /\ "connect" \in timers
  /\ m_pBase = "null"  <=> loop \in {"ended", "testing", "creating"}
  /\ m_pBase = "freed" <=> loop = "freed"

(* What Stop has done so far; a thread that finds m_Running down ends.     *)
StopInv ==
  /\ StopReachesLoop
  /\ stop = "idle" => loop = "ended"
  /\ stop \in {"asked", "breaking", "joining"} => ~m_Running
  /\ stop = "breaking" => loop # "creating"

LEMMA LoopStep ==
  ASSUME TypeOK, LoopInv, StopInv, [Next]_vars
  PROVE  LoopInv'
<1>. USE DEF LoopInv, NeverAbandoned, thread, peer, stops
<1>0. loop \in {"ended", "testing", "creating", "prepared", "dispatching", "freed"}
  BY DEF TypeOK
<1>1. CASE TestRunning \/ ClearBase
  BY <1>0, <1>1 DEF TestRunning, ClearBase
<1>2. CASE Connect
  BY <1>2 DEF Connect
<1>3. CASE Dispatch \/ Cleanup
  BY <1>3 DEF Dispatch, Cleanup
<1>4. CASE Peer
  BY <1>4 DEF Peer, OnConnected, OnClosed, ResetHearbeat, SetLoginSuccess, Close,
              Dispatching
<1>5. CASE OnTimer("connect") \/ OnTimer("delay") \/ Ping \/ HeartbeatTimeout
  BY <1>5 DEF OnTimer, Ping, HeartbeatTimeout, Dispatching
<1>6. CASE OnWriteble \/ Flush \/ \E p \in Putter : TestSize(p) \/ Put(p)
  BY <1>6 DEF OnWriteble, Flush, TestSize, Put
<1>7. CASE Start
  BY <1>7 DEF Start, StopInv
<1>8. CASE Stop \/ Stopping \/ UNCHANGED vars
  BY <1>8 DEF Stop, Stopping, ReadBase, BreakLoop, Joined, vars
<1>. QED
  BY <1>1, <1>2, <1>3, <1>4, <1>5, <1>6, <1>7, <1>8, StepKinds DEF OtherSteps, Loop

LEMMA StopStep ==
  ASSUME TypeOK, LoopInv, StopInv, [Next]_vars
  PROVE  StopInv'
<1>. USE DEF StopInv, StopReachesLoop, thread, peer, stops
<1>0. /\ loop \in {"ended", "testing", "creating", "prepared", "dispatching", "freed"}
      /\ m_pBase \in {"null", "live", "freed"}
  BY DEF TypeOK
<1>1. CASE Loop
  BY <1>1 DEF Loop, TestRunning, Connect, Dispatch, Cleanup, ClearBase
<1>2. CASE Peer
  BY <1>2 DEF Peer, OnConnected, OnClosed, ResetHearbeat, SetLoginSuccess, Close
<1>3. CASE OnTimer("connect") \/ OnTimer("delay") \/ Ping \/ HeartbeatTimeout
  BY <1>3 DEF OnTimer, Ping, HeartbeatTimeout
<1>4. CASE OnWriteble \/ Flush \/ \E p \in Putter : TestSize(p) \/ Put(p)
  BY <1>4 DEF OnWriteble, Flush, TestSize, Put
<1>5. CASE Start \/ Stop \/ Joined
  BY <1>5 DEF Start, Stop, Joined
<1>6. CASE ReadBase
  BY <1>0, <1>6 DEF ReadBase, LoopInv
<1>7. CASE BreakLoop
  BY <1>0, <1>7 DEF BreakLoop, LoopInv
<1>8. CASE UNCHANGED vars
  BY <1>8 DEF vars
<1>. QED
  BY <1>1, <1>2, <1>3, <1>4, <1>5, <1>6, <1>7, <1>8, StepKinds
     DEF OtherSteps, Stopping

LEMMA ThreadCorrect == Spec => [](LoopInv /\ StopInv)
<1>1. Init => LoopInv /\ StopInv
  BY DEF Init, LoopInv, StopInv, NeverAbandoned, StopReachesLoop
<1>2. TypeOK /\ LoopInv /\ StopInv /\ [Next]_vars => (LoopInv /\ StopInv)'
  BY LoopStep, StopStep
<1>. QED
  BY <1>1, <1>2, TypeCorrect, PTL DEF Spec

(* The client never stays with a connection nothing will end: the timers   *)
(* that onClosed, onError, onConnected and Cleanup set and delete.         *)
THEOREM AlwaysFollowed == Spec => []NeverAbandoned
<1>1. LoopInv => NeverAbandoned
  BY DEF LoopInv
<1>. QED
  BY <1>1, ThreadCorrect, PTL

(* Stop waits for a thread that is on its way out, unless it has missed it *)
(* between the test of m_Running and event_base_dispatch.                  *)
THEOREM StopGetsThrough == Spec => []StopReachesLoop
<1>1. StopInv => StopReachesLoop
  BY DEF StopInv
<1>. QED
  BY <1>1, ThreadCorrect, PTL
=============================================================================
