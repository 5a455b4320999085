-------------------------- MODULE EventBufferProofs --------------------------
(***************************************************************************)
(* Proofs about CEventBuffer for any number of consumers, any MAXBUFFER    *)
(* and any number of calls of Put.                                         *)
(***************************************************************************)
EXTENDS EventBuffer, FiniteSetTheorems, SequenceTheorems, TLAPS

(* The wait sets never leave Consumer, stay disjoint, and only numbers of  *)
(* earlier Puts are in the buffer.                                         *)
THEOREM TypeCorrect == Spec => []TypeOK
<1> USE MAXBUFFERAssumption, NumItemsAssumption
<1>1. Init => TypeOK
  BY DEF Init, TypeOK
<1>2. TypeOK /\ [Next]_vars => TypeOK'
  <2> SUFFICES ASSUME TypeOK, [Next]_vars PROVE TypeOK'
    OBVIOUS
  <2> USE DEF TypeOK
  <2>1. CASE Put
    <3>1. puts + 1 \in Nat /\ 1..puts \subseteq 1..(puts + 1)
      OBVIOUS
    <3>2. accepted' \in Seq(1..puts')
      BY <2>1, <3>1, AppendProperties DEF Put
    <3>3. m_dataBuffer' \in Seq(Nat)
      BY <2>1, <3>1, AppendProperties DEF Put
    <3> QED
      BY <2>1, <3>2, <3>3 DEF Put, NotifyOne
  <2>2. CASE PutThrows
    <3>1. 1..puts \subseteq 1..(puts + 1)
      OBVIOUS
    <3>2. accepted' \in Seq(1..puts')
      BY <2>2, <3>1 DEF PutThrows, history
    <3> QED
      BY <2>2, <3>2 DEF PutThrows, history
  <2>3. ASSUME TakeFront
        PROVE  /\ m_dataBuffer' \in Seq(Nat) /\ taken' \in Seq(Nat)
               /\ puts' = puts /\ accepted' = accepted
    BY <2>3, HeadTailProperties, AppendProperties DEF TakeFront
  <2>4. ASSUME NEW c \in Consumer, GetAtOnce(c) PROVE TypeOK'
    BY <2>3, <2>4 DEF GetAtOnce
  <2>5. ASSUME NEW c \in Consumer, GetWaits(c) PROVE TypeOK'
    BY <2>5 DEF GetWaits, Outside, history
  <2>6. ASSUME NEW c \in Consumer, TimeOut(c) PROVE TypeOK'
    BY <2>6 DEF TimeOut, history
  <2>7. ASSUME NEW c \in Consumer, SpuriousWakeup(c) PROVE TypeOK'
    BY <2>7 DEF SpuriousWakeup, history
  <2>8. ASSUME NEW c \in Consumer, ResumeTakes(c) PROVE TypeOK'
    BY <2>3, <2>8 DEF ResumeTakes, LeaveGet
  <2>9. ASSUME NEW c \in Consumer, ResumeWaits(c) PROVE TypeOK'
    BY <2>9 DEF ResumeWaits, LeaveGet, history
  <2>10. ASSUME NEW c \in Consumer, ResumeGivesUp(c) PROVE TypeOK'
    BY <2>10 DEF ResumeGivesUp, LeaveGet, history
  <2>11. CASE UNCHANGED vars
    BY <2>11 DEF vars
  <2> QED
    BY <2>1, <2>2, <2>4, <2>5, <2>6, <2>7, <2>8, <2>9, <2>10, <2>11
       DEF Next, Get, Resume
<1>3. QED
  BY <1>1, <1>2, PTL DEF Spec

(* How many notified threads there are is a natural number that moves by   *)
(* one when a thread is added or removed.                                  *)
LEMMA NotifiedCount ==
  ASSUME NEW S \in SUBSET Consumer, NEW c \in Consumer
  PROVE  /\ Cardinality(S) \in Nat
         /\ c \notin S => Cardinality(S \cup {c}) = Cardinality(S) + 1
         /\ Cardinality(S \ {c}) >= Cardinality(S) - 1
         /\ c \notin S => S \ {c} = S
<1>1. IsFiniteSet(S)
  BY ConsumerAssumption, FS_Subset
<1>2. Cardinality(S) \in Nat
  BY <1>1, FS_CardinalityType
<1>3. c \notin S => Cardinality(S \cup {c}) = Cardinality(S) + 1
  BY <1>1, FS_AddElement
<1>4. c \in S => Cardinality(S \ {c}) = Cardinality(S) - 1
  BY <1>1, FS_RemoveElement
<1>5. c \notin S => S \ {c} = S
  OBVIOUS
<1> QED
  BY <1>2, <1>3, <1>4, <1>5

(* One notify_one per Put never leaves a thread asleep beside an item that *)
(* no notified thread is coming for.                                       *)
THEOREM WakeupsSuffice == Spec => []NoLostWakeup
<1> USE DEF NoLostWakeup
<1>1. Init => NoLostWakeup
  BY DEF Init
<1>2. TypeOK /\ NoLostWakeup /\ [Next]_vars => NoLostWakeup'
  <2> SUFFICES ASSUME TypeOK, NoLostWakeup, [Next]_vars, waiting' # {}
               PROVE  Len(m_dataBuffer') <= Cardinality(notified')
    BY DEF TypeOK
  <2>1. /\ notified \in SUBSET Consumer /\ waiting \in SUBSET Consumer
        /\ m_dataBuffer \in Seq(Nat) /\ Len(m_dataBuffer) \in Nat
    BY LenProperties DEF TypeOK
  <2>2. Cardinality(notified) \in Nat
    BY <2>1, ConsumerAssumption, FS_Subset, FS_CardinalityType
  <2>3. CASE Put
    <3>1. PICK c \in waiting : notified' = notified \cup {c}
                               /\ waiting' = waiting \ {c}
      BY <2>3 DEF Put, NotifyOne
    <3>2. c \notin notified /\ c \in Consumer
      BY <3>1, <2>1 DEF TypeOK
    <3>3. Cardinality(notified') = Cardinality(notified) + 1
      BY <3>1, <3>2, <2>1, NotifiedCount
    <3>4. Len(m_dataBuffer') = Len(m_dataBuffer) + 1
      <4>1. puts + 1 \in Nat
        BY NumItemsAssumption DEF TypeOK
      <4> QED
        BY <4>1, <2>1, <2>3, AppendProperties DEF Put
    <3> QED
      BY <3>1, <3>3, <3>4, <2>1, <2>2
  <2>4. CASE PutThrows
    BY <2>4 DEF PutThrows
  <2>5. ASSUME TakeFront PROVE Len(m_dataBuffer') = Len(m_dataBuffer) - 1
    BY <2>5, <2>1, HeadTailProperties DEF TakeFront
  <2>6. ASSUME NEW c \in Consumer, GetAtOnce(c)
        PROVE  Len(m_dataBuffer') <= Cardinality(notified')
    BY <2>1, <2>2, <2>5, <2>6 DEF GetAtOnce
  <2>7. ASSUME NEW c \in Consumer, GetWaits(c)
        PROVE  Len(m_dataBuffer') <= Cardinality(notified')
    BY <2>2, <2>7 DEF GetWaits
  <2>8. ASSUME NEW c \in Consumer, TimeOut(c) \/ SpuriousWakeup(c)
        PROVE  Len(m_dataBuffer') <= Cardinality(notified')
    <3>1. waiting # {} /\ notified' = notified /\ m_dataBuffer' = m_dataBuffer
      BY <2>8 DEF TimeOut, SpuriousWakeup
    <3> QED
      BY <3>1
  <2>9. ASSUME NEW c \in Consumer, ResumeTakes(c)
        PROVE  Len(m_dataBuffer') <= Cardinality(notified')
    <3>1. notified' = notified \ {c} /\ waiting # {} /\ TakeFront
      BY <2>9 DEF ResumeTakes, LeaveGet
    <3>2. Cardinality(notified') \in Nat
          /\ Cardinality(notified') >= Cardinality(notified) - 1
      <4>1. notified \ {c} \in SUBSET Consumer
        BY <2>1
      <4> QED
        BY <3>1, <2>1, <4>1, NotifiedCount
    <3> QED
      BY <3>1, <3>2, <2>1, <2>2, <2>5
  <2>10. ASSUME NEW c \in Consumer, ResumeWaits(c) \/ ResumeGivesUp(c)
         PROVE  Len(m_dataBuffer') <= Cardinality(notified')
    <3>1. m_dataBuffer' = <<>> /\ notified' \in SUBSET Consumer
      BY <2>10, <2>1 DEF ResumeWaits, ResumeGivesUp, LeaveGet
    <3>2. Cardinality(notified') \in Nat
      BY <3>1, NotifiedCount
    <3> QED
      BY <3>1, <3>2
  <2>11. CASE UNCHANGED vars
    BY <2>11 DEF vars
  <2> QED
    BY <2>3, <2>4, <2>6, <2>7, <2>8, <2>9, <2>10, <2>11 DEF Next, Get, Resume
<1>3. QED
  BY <1>1, <1>2, TypeCorrect, PTL DEF Spec

(* The list never holds more than MAXBUFFER + 1 items. *)
THEOREM CapacityBounded == Spec => []CapacityBound
<1> USE MAXBUFFERAssumption DEF CapacityBound
<1>1. Init => CapacityBound
  BY DEF Init
<1>2. TypeOK /\ CapacityBound /\ [Next]_vars => CapacityBound'
  <2> SUFFICES ASSUME TypeOK, CapacityBound, [Next]_vars PROVE CapacityBound'
    OBVIOUS
  <2>1. m_dataBuffer \in Seq(Nat) /\ Len(m_dataBuffer) \in Nat
    BY LenProperties DEF TypeOK
  <2>2. CASE Put
    <3>1. puts + 1 \in Nat
      BY NumItemsAssumption DEF TypeOK
    <3>2. Len(m_dataBuffer') = Len(m_dataBuffer) + 1
      BY <3>1, <2>1, <2>2, AppendProperties DEF Put
    <3> QED
      BY <3>2, <2>1, <2>2 DEF Put
  <2>3. ASSUME TakeFront PROVE Len(m_dataBuffer') = Len(m_dataBuffer) - 1
    BY <2>3, <2>1, HeadTailProperties DEF TakeFront
  <2>4. ASSUME NEW c \in Consumer, GetAtOnce(c) \/ ResumeTakes(c)
        PROVE  CapacityBound'
    BY <2>1, <2>3, <2>4 DEF GetAtOnce, ResumeTakes
  <2>5. CASE UNCHANGED m_dataBuffer
    BY <2>5
  <2> QED
    BY <2>2, <2>4, <2>5
       DEF Next, Get, Resume, PutThrows, GetWaits, TimeOut, SpuriousWakeup,
           ResumeWaits, ResumeGivesUp, vars
<1>3. QED
  BY <1>1, <1>2, TypeCorrect, PTL DEF Spec

(* Every accepted item is in the list or was taken, exactly once and in    *)
(* the order of the Puts.                                                  *)
THEOREM ExactlyOnceInOrder == Spec => []FifoExactlyOnce
<1> USE DEF FifoExactlyOnce
<1>1. Init => FifoExactlyOnce
  BY DEF Init
<1>2. TypeOK /\ FifoExactlyOnce /\ [Next]_vars => FifoExactlyOnce'
  <2> SUFFICES ASSUME TypeOK, FifoExactlyOnce, [Next]_vars
               PROVE  FifoExactlyOnce'
    OBVIOUS
  <2>1. m_dataBuffer \in Seq(Nat) /\ taken \in Seq(Nat) /\ puts + 1 \in Nat
    BY NumItemsAssumption DEF TypeOK
  <2>2. CASE Put
    <3> DEFINE n == puts + 1
    <3>1. n \in Nat /\ <<n>> \in Seq(Nat)
      BY <2>1
    <3>2. (taken \o m_dataBuffer) \in Seq(Nat)
      BY <2>1, ConcatProperties
    <3>3. /\ Append(taken \o m_dataBuffer, n) = (taken \o m_dataBuffer) \o <<n>>
          /\ Append(m_dataBuffer, n) = m_dataBuffer \o <<n>>
      BY <2>1, <3>1, <3>2, AppendIsConcat
    <3>4. (taken \o m_dataBuffer) \o <<n>> = taken \o (m_dataBuffer \o <<n>>)
      BY <2>1, <3>1, ConcatAssociative
    <3> QED
      BY <2>2, <3>3, <3>4 DEF Put
  <2>3. ASSUME TakeFront PROVE FifoExactlyOnce'
    <3> DEFINE hd == Head(m_dataBuffer)
               tl == Tail(m_dataBuffer)
    <3>1. hd \in Nat /\ tl \in Seq(Nat) /\ <<hd>> \in Seq(Nat)
      BY <2>1, <2>3, HeadTailProperties DEF TakeFront
    <3>2. m_dataBuffer = <<hd>> \o tl
      BY <2>1, <2>3, <3>1 DEF TakeFront
    <3>3. Append(taken, hd) = taken \o <<hd>>
      BY <2>1, <3>1, AppendIsConcat
    <3>4. (taken \o <<hd>>) \o tl = taken \o (<<hd>> \o tl)
      BY <2>1, <3>1, ConcatAssociative
    <3>5. taken' \o m_dataBuffer' = taken \o m_dataBuffer
      BY <2>3, <3>2, <3>3, <3>4 DEF TakeFront
    <3> QED
      BY <2>3, <3>5 DEF TakeFront
  <2>4. CASE UNCHANGED <<m_dataBuffer, accepted, taken>>
    BY <2>4
  <2> QED
    BY <2>2, <2>3, <2>4
       DEF Next, Get, Resume, PutThrows, GetAtOnce, GetWaits, TimeOut,
           SpuriousWakeup, ResumeTakes, ResumeWaits, ResumeGivesUp, history, vars
<1>3. QED
  BY <1>1, <1>2, TypeCorrect, PTL DEF Spec

(* Every step of the buffer is a step of the abstract queue or leaves it   *)
(* alone: Put is Send, taking the front is Receive.                        *)
THEOREM StepsOfQueue == Spec => Queue!Init /\ [][Queue!Next]_history
<1>1. Init => Queue!Init
  BY DEF Init, Queue!Init
<1>2. TypeOK /\ FifoExactlyOnce /\ [Next]_vars => [Queue!Next]_history
  <2> SUFFICES ASSUME TypeOK, FifoExactlyOnce, [Next]_vars
               PROVE  [Queue!Next]_history
    OBVIOUS
  <2> USE DEF history
  <2>1. m_dataBuffer \in Seq(Nat) /\ taken \in Seq(Nat)
    BY DEF TypeOK
  <2>2. CASE Put
    <3>1. puts + 1 \in 1..NumItems
      BY <2>2, NumItemsAssumption DEF TypeOK, Put
    <3> QED
      BY <2>2, <3>1 DEF Put, Queue!Next, Queue!Send
  <2>3. ASSUME TakeFront PROVE Queue!Receive
    <3>1. /\ Len(m_dataBuffer) \in Nat \ {0} /\ Len(taken) \in Nat
          /\ m_dataBuffer[1] = Head(m_dataBuffer)
      BY <2>1, <2>3, LenProperties, HeadTailProperties, EmptySeq DEF TakeFront
    <3>2. /\ Len(accepted) = Len(taken) + Len(m_dataBuffer)
          /\ accepted[Len(taken) + 1] = m_dataBuffer[1]
      BY <2>1, <3>1, ConcatProperties DEF FifoExactlyOnce
    <3> QED
      BY <2>3, <3>1, <3>2 DEF TakeFront, Queue!Receive
  <2>4. CASE UNCHANGED history
    BY <2>4
  <2> QED
    BY <2>2, <2>3, <2>4
       DEF Next, Get, Resume, PutThrows, GetAtOnce, GetWaits, TimeOut, Queue!Next,
           SpuriousWakeup, ResumeTakes, ResumeWaits, ResumeGivesUp, vars
<1>3. QED
  BY <1>1, <1>2, TypeCorrect, ExactlyOnceInOrder, PTL DEF Spec
=============================================================================
