-------------------------- MODULE TcpReadingProofs ---------------------------
(***************************************************************************)
(* Proofs about the streams of the TCP server, for any number of           *)
(* connections, any lengths of contents and any number of frames, and      *)
(* about the server that reads them.                                       *)
(***************************************************************************)
EXTENDS TcpReading, TLAPS

(* Each frame begins behind the one before it and has a whole header.      *)
Ordered ==
  \A c \in Client : \A i, j \in 1..(Len(ends[c]) + 1) :
    i < j => Stream!Start(c, i) + INT_SIZE <= Stream!Start(c, j)

(* The buffer begins with the first frame that has not been handed on.     *)
Aligned ==
  \A c \in Client :
    /\ Len(contents[c]) <= Len(ends[c])
    /\ removed[c] = Stream!Start(c, Len(contents[c]) + 1)
    /\ removed[c] <= arrived[c] /\ arrived[c] <= Stream!Sent(c)

StreamInv == /\ Stream!TypeOK /\ Ordered /\ Aligned
             /\ Stream!FramesInOrder /\ Stream!NothingLeftBehind

(* Where the next frame begins, now and after a step.                      *)
LEMMA StartBehind ==
  ASSUME NEW c, NEW i \in Nat \ {0}
  PROVE  Stream!Start(c, i + 1) = ends[c][i] /\ Stream!Start(c, i + 1)' = ends'[c][i]
<1>1. i + 1 # 1 /\ (i + 1) - 1 = i
  OBVIOUS
<1> QED
  BY <1>1, Zenon DEF Stream!Start

LEMMA StartType ==
  ASSUME Stream!TypeOK, NEW c \in Client, NEW i \in 1..(Len(ends[c]) + 1)
  PROVE  Stream!Start(c, i) \in Nat
<1>1. ends[c] \in Seq(Nat)
  BY DEF Stream!TypeOK
<1> QED
  BY <1>1 DEF Stream!Start

(* While anything is in the buffer, it begins with a frame that was sent,  *)
(* and its header can only be read as that frame's length.                 *)
LEMMA HeaderOfFirst ==
  ASSUME Stream!FramingAssumption, StreamInv, NEW c \in Client,
         Stream!Buffered(c) >= INT_SIZE
  PROVE  /\ Len(contents[c]) + 1 \in 1..Len(ends[c])
         /\ Stream!Header(c) = {ends[c][Len(contents[c]) + 1] - removed[c]}
<1> DEFINE k == Len(contents[c])
           n == Len(ends[c])
<1> USE DEF Stream!FramingAssumption
<1>1. /\ ends[c] \in Seq(Nat) /\ n \in Nat /\ k \in Nat
      /\ removed[c] \in Nat /\ arrived[c] \in Nat
  BY DEF StreamInv, Stream!TypeOK
<1>2. /\ k <= n /\ removed[c] = Stream!Start(c, k + 1)
      /\ arrived[c] <= Stream!Start(c, n + 1)
  BY DEF StreamInv, Aligned, Stream!Sent
<1>3. arrived[c] > removed[c]
  BY <1>1 DEF Stream!Buffered
<1>4. k + 1 \in 1..n
  <2>1. CASE k = n
    BY <1>1, <1>2, <1>3, <2>1
  <2> QED
    BY <1>1, <1>2, <2>1
<1>5. ASSUME NEW i \in 1..n, Stream!Start(c, i) = removed[c] PROVE i = k + 1
  <2>1. /\ i \in 1..(n + 1) /\ k + 1 \in 1..(n + 1)
        /\ Stream!Start(c, i) \in Nat /\ Stream!Start(c, k + 1) \in Nat
    BY SMTT(30), <1>1, <1>4, StartType DEF StreamInv
  <2>2. /\ i < k + 1 => Stream!Start(c, i) + INT_SIZE <= Stream!Start(c, k + 1)
        /\ k + 1 < i => Stream!Start(c, k + 1) + INT_SIZE <= Stream!Start(c, i)
    BY <2>1 DEF StreamInv, Ordered
  <2> HIDE DEF k, n
  <2> QED
    BY <1>1, <1>2, <1>5, <2>1, <2>2
<1>6. {i \in 1..n : Stream!Start(c, i) = removed[c]} = {k + 1}
  BY <1>2, <1>4, <1>5
<1>7. Stream!Header(c) = {ends[c][i] - removed[c] : i \in {k + 1}}
  BY <1>6 DEF Stream!Header
<1> QED
  BY <1>4, <1>7

LEMMA InitStreamInv ==
  ASSUME Stream!FramingAssumption, Stream!Init
  PROVE  StreamInv
<1> USE DEF Stream!FramingAssumption
<1>1. \A c \in Client : /\ ends[c] = <<>> /\ contents[c] = <<>>
                      /\ arrived[c] = 0 /\ removed[c] = 0
  BY DEF Stream!Init
<1>2. Stream!TypeOK
  BY DEF Stream!Init, Stream!TypeOK
<1>3. \A c \in Client : /\ Len(ends[c]) = 0 /\ Len(contents[c]) = 0
                        /\ Stream!Start(c, 1) = 0
  <2>1. \A c : Stream!Start(c, 1) = 0
    BY DEF Stream!Start
  <2>2. Len(<<>>) = 0
    OBVIOUS
  <2> QED
    BY <1>1, <2>1, <2>2
<1>4. Ordered /\ Aligned
  BY <1>1, <1>3 DEF Ordered, Aligned, Stream!Sent
<1>5. Stream!FramesInOrder /\ Stream!NothingLeftBehind
  BY <1>3 DEF Stream!FramesInOrder, Stream!NothingLeftBehind
<1> QED
  BY <1>2, <1>4, <1>5 DEF StreamInv

(* A new frame begins where the last one ends; those before it stay.       *)
LEMMA SendStep ==
  ASSUME Stream!FramingAssumption, StreamInv, NEW c \in Client, Stream!PeerSends(c)
  PROVE  StreamInv'
<1> USE DEF Stream!FramingAssumption
<1>1. PICK n \in Length :
        ends' = [ends EXCEPT ![c] = Append(@, Stream!Sent(c) + INT_SIZE + n)]
  BY DEF Stream!PeerSends
<1> DEFINE e == Stream!Sent(c) + INT_SIZE + n
<1>0. PICK m \in Nat : m = Len(ends[c])
  BY DEF StreamInv, Stream!TypeOK
<1>2. n \in Nat /\ INT_SIZE \in Nat \ {0}
  OBVIOUS
<1>3. \A d \in Client : ends[d] \in Seq(Nat)
  BY DEF StreamInv, Stream!TypeOK
<1>4. m \in Nat /\ Stream!Sent(c) \in Nat /\ e \in Nat
  BY <1>0, <1>2, <1>3, StartType DEF StreamInv, Stream!Sent
<1>5. /\ ends'[c] = Append(ends[c], e)
      /\ \A d \in Client \ {c} : ends'[d] = ends[d]
  BY <1>1 DEF StreamInv, Stream!TypeOK
<1>6. /\ Len(ends'[c]) = m + 1 /\ ends'[c][m + 1] = e
      /\ \A i \in 1..m : ends'[c][i] = ends[c][i]
  BY <1>0, <1>3, <1>4, <1>5
<1>7. UNCHANGED <<arrived, removed, reading, contents>>
  BY DEF Stream!PeerSends
<1> HIDE DEF e
<1>8. Stream!TypeOK'
  <2>1. Append(ends[c], e) \in Seq(Nat)
    BY <1>3, <1>4
  <2>2. ends' \in [Client -> Seq(Nat)]
    BY <1>1, <2>1 DEF StreamInv, Stream!TypeOK, e
  <2> QED
    BY <1>7, <2>2 DEF StreamInv, Stream!TypeOK
<1>9. /\ \A d \in Client \ {c} : \A i \in 1..(Len(ends[d]) + 1) :
           Stream!Start(d, i)' = Stream!Start(d, i)
      /\ \A i \in 1..(m + 1) : Stream!Start(c, i)' = Stream!Start(c, i)
      /\ Stream!Start(c, m + 2)' = e
  <2>1. ASSUME NEW i \in 1..(m + 1) PROVE Stream!Start(c, i)' = Stream!Start(c, i)
    <3>1. CASE i = 1
      BY <3>1 DEF Stream!Start
    <3>2. CASE i # 1
      <4>1. i - 1 \in 1..m
        BY <1>4, <3>2
      <4> QED
        BY <1>6, <3>2, <4>1 DEF Stream!Start
    <3> QED
      BY <3>1, <3>2
  <2>2. Stream!Start(c, m + 2)' = e
    <3>1. m + 1 \in Nat \ {0} /\ (m + 1) + 1 = m + 2
      BY <1>4
    <3>2. Stream!Start(c, (m + 1) + 1)' = ends'[c][m + 1]
      BY <3>1, StartBehind
    <3> QED
      BY <1>6, <3>1, <3>2
  <2>3. \A d \in Client \ {c} : \A i \in 1..(Len(ends[d]) + 1) :
          Stream!Start(d, i)' = Stream!Start(d, i)
    BY <1>5 DEF Stream!Start
  <2> QED
    BY <2>1, <2>2, <2>3
<1>10. Ordered'
  <2> SUFFICES ASSUME NEW d \in Client,
                      NEW i \in 1..(Len(ends'[d]) + 1),
                      NEW j \in 1..(Len(ends'[d]) + 1), i < j
               PROVE  Stream!Start(d, i)' + INT_SIZE <= Stream!Start(d, j)'
    BY DEF Ordered
  <2>1. CASE d # c
    BY <1>5, <1>9, <2>1 DEF StreamInv, Ordered
  <2>2. CASE d = c /\ j <= m + 1
    BY <1>0, <1>4, <1>6, <1>9, <2>2 DEF StreamInv, Ordered
  <2>3. CASE d = c /\ j = m + 2
    <3>1. i \in 1..(m + 1) /\ m + 1 \in 1..(m + 1)
      BY <1>4, <1>6, <2>3
    <3>2. Stream!Start(c, i) \in Nat /\ Stream!Start(c, m + 1) \in Nat
      BY <1>0, <3>1, StartType DEF StreamInv
    <3>3. Stream!Start(c, i) <= Stream!Start(c, m + 1)
      <4>1. CASE i = m + 1
        BY <3>2, <4>1
      <4>2. CASE i < m + 1
        <5>1. Stream!Start(c, i) + INT_SIZE <= Stream!Start(c, m + 1)
          BY <1>0, <3>1, <4>2 DEF StreamInv, Ordered
        <5> QED
          BY <1>2, <3>2, <5>1
      <4> QED
        BY <1>4, <3>1, <4>1, <4>2
    <3>4. e = Stream!Start(c, m + 1) + INT_SIZE + n
      BY <1>0 DEF e, Stream!Sent
    <3>5. Stream!Start(c, i) + INT_SIZE <= e
      BY <1>2, <3>2, <3>3, <3>4
    <3>6. Stream!Start(c, i)' = Stream!Start(c, i) /\ Stream!Start(c, m + 2)' = e
      BY <1>9, <3>1
    <3> QED
      BY <2>3, <3>5, <3>6
  <2> QED
    BY <1>4, <1>6, <2>1, <2>2, <2>3
<1>11. \A d \in Client : Len(contents[d]) \in Nat /\ Len(contents[d]) <= Len(ends[d])
  BY DEF StreamInv, Stream!TypeOK, Aligned
<1>17. /\ Stream!Sent(c)' = e
       /\ \A d \in Client \ {c} : Stream!Sent(d)' = Stream!Sent(d)
  <2>1. Len(ends'[c]) + 1 = m + 2
    BY <1>4, <1>6
  <2>2. Stream!Sent(c)' = Stream!Start(c, m + 2)'
    BY <2>1, Zenon DEF Stream!Sent, Stream!Start
  <2>3. ASSUME NEW d \in Client \ {c} PROVE Stream!Sent(d)' = Stream!Sent(d)
    <3>1. PICK l \in Nat : l = Len(ends[d])
      BY <1>3
    <3>2. l + 1 \in 1..(l + 1) /\ Len(ends'[d]) = l
      BY <1>5, <3>1
    <3>3. Stream!Start(d, l + 1)' = Stream!Start(d, l + 1)
      BY <1>9, <3>1, <3>2
    <3> QED
      BY <3>1, <3>2, <3>3 DEF Stream!Sent
  <2> QED
    BY <1>9, <2>2, <2>3
<1>12. \A d \in Client : Stream!Sent(d) \in Nat /\ Stream!Sent(d) <= Stream!Sent(d)'
  <2> SUFFICES ASSUME NEW d \in Client
               PROVE  Stream!Sent(d) \in Nat /\ Stream!Sent(d) <= Stream!Sent(d)'
    OBVIOUS
  <2>1. Stream!Sent(d) \in Nat
    BY <1>3, StartType DEF StreamInv, Stream!Sent
  <2>2. CASE d = c
    <3> QED
      BY <1>2, <1>4, <1>17, <2>1, <2>2 DEF e
  <2>3. CASE d # c
    BY <1>17, <2>1, <2>3
  <2> QED
    BY <2>2, <2>3, <2>1
<1>13. Aligned'
  <2> SUFFICES ASSUME NEW d \in Client
               PROVE  /\ Len(contents[d]) <= Len(ends'[d])
                      /\ removed[d] = Stream!Start(d, Len(contents[d]) + 1)'
                      /\ removed[d] <= arrived[d] /\ arrived[d] <= Stream!Sent(d)'
    BY <1>7, Zenon DEF Aligned
  <2>1. Len(contents[d]) <= Len(ends'[d])
    BY <1>0, <1>3, <1>4, <1>5, <1>6, <1>11
  <2>2. Stream!Start(d, Len(contents[d]) + 1)' = Stream!Start(d, Len(contents[d]) + 1)
    <3>1. PICK l \in Nat : l = Len(contents[d])
      BY <1>11
    <3>2. l + 1 \in 1..(Len(ends[d]) + 1)
      BY <1>3, <1>11, <3>1
    <3>3. Stream!Start(d, l + 1)' = Stream!Start(d, l + 1)
      BY <1>0, <1>9, <3>2
    <3> QED
      BY <1>7, <3>1, <3>3 DEF Stream!Start
  <2>3. arrived[d] \in Nat /\ Stream!Sent(d)' \in Nat
    <3> QED
      BY <1>4, <1>12, <1>17 DEF StreamInv, Stream!TypeOK
  <2> QED
    BY <1>7, <1>12, <2>1, <2>2, <2>3 DEF StreamInv, Aligned
<1>14. Stream!FramesInOrder'
  <2> SUFFICES ASSUME NEW d \in Client
               PROVE  /\ Len(contents[d]) <= Len(ends'[d])
                      /\ \A i \in 1..Len(contents[d]) :
                           contents[d][i] = Stream!Content(d, i)'
    BY <1>7 DEF Stream!FramesInOrder
  <2>1. Len(contents[d]) <= Len(ends'[d])
    BY <1>13, <1>7 DEF Aligned
  <2>2. ASSUME NEW i \in 1..Len(contents[d])
        PROVE  contents[d][i] = Stream!Content(d, i)'
    <3>1. i \in 1..Len(ends[d]) /\ i \in 1..(Len(ends[d]) + 1)
      BY <1>3, <1>11
    <3>2. Stream!Start(d, i)' = Stream!Start(d, i) /\ ends'[d][i] = ends[d][i]
      BY <1>0, <1>5, <1>6, <1>9, <3>1
    <3> QED
      BY <3>2 DEF StreamInv, Stream!FramesInOrder, Stream!Content
  <2> QED
    BY <2>1, <2>2
<1>15. Stream!NothingLeftBehind'
  <2> SUFFICES ASSUME NEW d \in Client, NEW i \in 1..Len(ends'[d]),
                      reading # d, ends'[d][i] <= arrived[d]
               PROVE  i <= Len(contents[d])
    BY <1>7 DEF Stream!NothingLeftBehind
  <2>1. CASE d # c
    BY <1>5, <2>1 DEF StreamInv, Stream!NothingLeftBehind
  <2>3. CASE d = c /\ i <= m
    <3>1. i \in 1..m
      BY <1>4, <1>6, <2>3
    <3> QED
      BY <1>0, <1>6, <2>3, <3>1 DEF StreamInv, Stream!NothingLeftBehind
  <2>2. CASE d = c /\ i = m + 1
    <3>1. arrived[c] <= Stream!Sent(c) /\ arrived[c] \in Nat
      BY DEF StreamInv, Aligned, Stream!TypeOK
    <3> QED
      BY <1>2, <1>4, <1>6, <2>2, <3>1 DEF e
  <2> QED
    BY <1>4, <1>6, <2>1, <2>2, <2>3
<1> QED
  BY <1>8, <1>10, <1>13, <1>14, <1>15 DEF StreamInv

LEMMA ReadStep ==
  ASSUME Stream!FramingAssumption, StreamInv, NEW c \in Client, Stream!Read(c)
  PROVE  StreamInv'
<1> USE DEF Stream!FramingAssumption
<1>1. PICK n \in 1..(Stream!Sent(c) - arrived[c]) :
        arrived' = [arrived EXCEPT ![c] = @ + n]
  BY DEF Stream!Read
<1>2. Stream!Sent(c) \in Nat /\ arrived[c] \in Nat /\ removed[c] \in Nat
  BY StartType DEF StreamInv, Stream!TypeOK, Stream!Sent
<1>3. /\ arrived'[c] = arrived[c] + n /\ n \in Nat
      /\ arrived'[c] <= Stream!Sent(c)
      /\ \A d \in Client \ {c} : arrived'[d] = arrived[d]
  BY <1>1, <1>2 DEF StreamInv, Stream!TypeOK
<1>4. /\ reading = None /\ reading' = c
      /\ UNCHANGED <<ends, removed, contents>>
  BY DEF Stream!Read
<1>5. Stream!TypeOK'
  BY <1>1, <1>2, <1>3, <1>4 DEF StreamInv, Stream!TypeOK
<1>6. \A d : /\ Stream!Sent(d)' = Stream!Sent(d)
             /\ \A i : Stream!Start(d, i)' = Stream!Start(d, i)
  BY <1>4 DEF Stream!Sent, Stream!Start
<1>7. Ordered' /\ Stream!FramesInOrder'
  BY <1>4, <1>6 DEF StreamInv, Ordered, Stream!FramesInOrder, Stream!Content
<1>8. Aligned'
  BY <1>2, <1>3, <1>4, <1>6 DEF StreamInv, Aligned
<1>9. Stream!NothingLeftBehind'
  BY <1>3, <1>4 DEF StreamInv, Stream!NothingLeftBehind
<1> QED
  BY <1>5, <1>7, <1>8, <1>9 DEF StreamInv

LEMMA TakeStep ==
  ASSUME Stream!FramingAssumption, StreamInv, NEW c \in Client, Stream!TakeFrame(c)
  PROVE  StreamInv'
<1> USE DEF Stream!FramingAssumption
<1> DEFINE k == Len(contents[c])
           n == Len(ends[c])
           q == <<removed[c] + INT_SIZE + 1, ends[c][k + 1]>>
<1>1. /\ reading = c /\ Stream!Buffered(c) >= INT_SIZE
      /\ UNCHANGED <<ends, arrived, reading>>
  BY DEF Stream!TakeFrame
<1>2. k + 1 \in 1..n /\ Stream!Header(c) = {ends[c][k + 1] - removed[c]}
  BY <1>1, HeaderOfFirst
<1>3. /\ ends[c] \in Seq(Nat) /\ n \in Nat /\ k \in Nat
      /\ removed[c] \in Nat /\ arrived[c] \in Nat
      /\ contents[c] \in Seq(Nat \X Nat)
      /\ ends[c][k + 1] \in Nat
  BY <1>2 DEF StreamInv, Stream!TypeOK
<1>4. removed[c] + (ends[c][k + 1] - removed[c]) = ends[c][k + 1]
  BY <1>3
<1>5. /\ Stream!Buffered(c) >= ends[c][k + 1] - removed[c]
      /\ removed' = [removed EXCEPT ![c] = ends[c][k + 1]]
      /\ contents' = [contents EXCEPT ![c] = Append(@, q)]
  BY <1>2, <1>4 DEF Stream!TakeFrame
<1>6. ends[c][k + 1] <= arrived[c]
  BY <1>3, <1>5 DEF Stream!Buffered
<1>7. q \in Nat \X Nat
  BY <1>3
<1> HIDE DEF q
<1>8. /\ contents'[c] = Append(contents[c], q) /\ removed'[c] = ends[c][k + 1]
      /\ \A d \in Client \ {c} : /\ contents'[d] = contents[d]
                               /\ removed'[d] = removed[d]
  BY <1>5 DEF StreamInv, Stream!TypeOK
<1>9. /\ Len(contents'[c]) = k + 1 /\ contents'[c][k + 1] = q
      /\ \A i \in 1..k : contents'[c][i] = contents[c][i]
  BY <1>3, <1>7, <1>8
<1>10. \A d : /\ Stream!Sent(d)' = Stream!Sent(d)
              /\ \A i : Stream!Start(d, i)' = Stream!Start(d, i)
  BY <1>1 DEF Stream!Sent, Stream!Start
<1>11. Stream!TypeOK'
  <2>1. Append(contents[c], q) \in Seq(Nat \X Nat)
    BY <1>3, <1>7
  <2>2. contents' \in [Client -> Seq(Nat \X Nat)]
    BY <1>5, <2>1 DEF StreamInv, Stream!TypeOK
  <2>3. removed' \in [Client -> Nat]
    BY <1>3, <1>5 DEF StreamInv, Stream!TypeOK
  <2> QED
    BY <1>1, <2>2, <2>3 DEF StreamInv, Stream!TypeOK
<1>12. Ordered'
  BY <1>1, <1>10 DEF StreamInv, Ordered
<1>13. Stream!Start(c, k + 2) = ends[c][k + 1] /\ removed[c] = Stream!Start(c, k + 1)
  BY <1>3 DEF Stream!Start, StreamInv, Aligned
<1>14. Aligned'
  <2> SUFFICES ASSUME NEW d \in Client
               PROVE  /\ Len(contents'[d]) <= Len(ends[d])
                      /\ removed'[d] = Stream!Start(d, Len(contents'[d]) + 1)
                      /\ removed'[d] <= arrived[d] /\ arrived[d] <= Stream!Sent(d)
    BY <1>1, <1>10 DEF Aligned
  <2>1. CASE d # c
    BY <1>8, <2>1 DEF StreamInv, Aligned
  <2>2. CASE d = c
    <3>1. Len(contents'[c]) + 1 = k + 2 /\ k + 1 <= n
      BY <1>2, <1>3, <1>9
    <3>2. arrived[c] <= Stream!Sent(c)
      BY DEF StreamInv, Aligned
    <3> QED
      BY <1>6, <1>8, <1>9, <1>13, <2>2, <3>1, <3>2
  <2> QED
    BY <2>1, <2>2
<1>15. Stream!FramesInOrder'
  <2> SUFFICES ASSUME NEW d \in Client
               PROVE  /\ Len(contents'[d]) <= Len(ends[d])
                      /\ \A i \in 1..Len(contents'[d]) :
                           contents'[d][i] = Stream!Content(d, i)
    BY <1>1, <1>10 DEF Stream!FramesInOrder, Stream!Content
  <2>1. CASE d # c
    BY <1>8, <2>1 DEF StreamInv, Stream!FramesInOrder
  <2>2. CASE d = c
    <3>1. contents'[c][k + 1] = Stream!Content(c, k + 1)
      BY <1>9, <1>13 DEF Stream!Content, q
    <3>2. \A i \in 1..k : contents'[c][i] = Stream!Content(c, i)
      BY <1>9 DEF StreamInv, Stream!FramesInOrder
    <3> QED
      BY <1>2, <1>3, <1>9, <2>2, <3>1, <3>2
  <2> QED
    BY <2>1, <2>2
<1>16. Stream!NothingLeftBehind'
  BY <1>1, <1>8 DEF StreamInv, Stream!NothingLeftBehind
<1> QED
  BY <1>11, <1>12, <1>14, <1>15, <1>16 DEF StreamInv

(* When the loop ends, the first frame in the buffer is not whole, and so  *)
(* none behind it is.                                                      *)
LEMMA LeaveStep ==
  ASSUME Stream!FramingAssumption, StreamInv, NEW c \in Client, Stream!Leave(c)
  PROVE  StreamInv'
<1> USE DEF Stream!FramingAssumption
<1>1. /\ reading' = None /\ UNCHANGED <<ends, arrived, removed, contents>>
      /\ Stream!Buffered(c) >= INT_SIZE =>
           \E len \in Stream!Header(c) : Stream!Buffered(c) < len
  BY DEF Stream!Leave
<1>2. Stream!TypeOK'
  BY <1>1 DEF StreamInv, Stream!TypeOK
<1>3. \A d : /\ Stream!Sent(d)' = Stream!Sent(d)
             /\ \A i : Stream!Start(d, i)' = Stream!Start(d, i)
  BY <1>1 DEF Stream!Sent, Stream!Start
<1>4. Ordered' /\ Aligned' /\ Stream!FramesInOrder'
  BY <1>1, <1>3 DEF StreamInv, Ordered, Aligned, Stream!FramesInOrder, Stream!Content
<1>5. Stream!NothingLeftBehind'
  <2> SUFFICES ASSUME NEW d \in Client, NEW i \in 1..Len(ends[d]),
                      ends[d][i] <= arrived[d], ~(i <= Len(contents[d]))
               PROVE  FALSE
    BY <1>1 DEF Stream!NothingLeftBehind
  <2>1. CASE d # c
    <3>1. reading # d
      BY <2>1 DEF Stream!Leave
    <3> QED
      BY <3>1 DEF StreamInv, Stream!NothingLeftBehind
  <2>2. CASE d = c
    <3>1. /\ ends[c] \in Seq(Nat) /\ contents[c] \in Seq(Nat \X Nat)
          /\ removed[c] \in Nat /\ arrived[c] \in Nat
      BY DEF StreamInv, Stream!TypeOK
    <3>k. PICK k \in Nat : k = Len(contents[c])
      BY <3>1
    <3>n. PICK n \in Nat : n = Len(ends[c])
      BY <3>1
    <3>2. /\ i \in 1..n /\ i > k /\ k + 1 \in 1..n
          /\ ends[c][i] <= arrived[c]
      BY <2>2, <3>k, <3>n
    <3>3. /\ k + 1 \in 1..(n + 1) /\ k + 2 \in 1..(n + 1) /\ i + 1 \in 1..(n + 1)
          /\ Stream!Start(c, k + 2) = ends[c][k + 1]
          /\ Stream!Start(c, i + 1) = ends[c][i]
      <4>1. /\ k + 1 \in 1..(n + 1) /\ k + 2 \in 1..(n + 1) /\ i + 1 \in 1..(n + 1)
            /\ k + 1 \in Nat \ {0} /\ i \in Nat \ {0} /\ (k + 1) + 1 = k + 2
        BY <3>1, <3>2
      <4>2. /\ Stream!Start(c, (k + 1) + 1) = ends[c][k + 1]
            /\ Stream!Start(c, i + 1) = ends[c][i]
        BY <4>1, StartBehind
      <4> QED
        BY <4>1, <4>2
    <3>4. ends[c][k + 1] \in Nat /\ ends[c][i] \in Nat
      BY SMTT(30), <3>1, <3>2, <3>n
    <3>5. /\ removed[c] = Stream!Start(c, k + 1)
          /\ Stream!Start(c, k + 1) + INT_SIZE <= ends[c][k + 1]
      <4>1. /\ removed[c] = Stream!Start(c, k + 1)
            /\ Stream!Start(c, k + 1) + INT_SIZE <= Stream!Start(c, k + 2)
        <5>1. k + 1 < k + 2
          OBVIOUS
        <5> QED
          BY <3>k, <3>n, <3>3, <5>1 DEF StreamInv, Aligned, Ordered
      <4> QED
        BY <3>3, <4>1
    <3>6. ends[c][k + 1] <= ends[c][i]
      <4>1. k + 2 < i + 1 => ends[c][k + 1] + INT_SIZE <= ends[c][i]
        BY <3>n, <3>3 DEF StreamInv, Ordered
      <4>2. CASE i = k + 1
        BY <3>4, <4>2
      <4>3. CASE i > k + 1
        BY SMTT(30), <3>1, <3>2, <3>4, <4>1, <4>3
      <4> QED
        BY <3>1, <3>2, <4>2, <4>3
    <3>7. /\ Stream!Buffered(c) >= ends[c][k + 1] - removed[c]
          /\ Stream!Buffered(c) >= INT_SIZE
      <4>1. removed[c] + INT_SIZE <= ends[c][k + 1]
        BY <3>5, Zenon
      <4>2. ends[c][k + 1] <= arrived[c]
        <5>1. /\ ends[c][k + 1] \in Nat /\ ends[c][i] \in Nat
              /\ arrived[c] \in Nat
          BY <3>1, <3>4, Zenon
        <5>2. ends[c][k + 1] <= ends[c][i] /\ ends[c][i] <= arrived[c]
          BY <3>2, <3>6, Zenon
        <5> QED
          BY <5>1, <5>2
      <4>3. INT_SIZE \in Nat
        BY DEF Stream!FramingAssumption
      <4> DEFINE x == ends[c][k + 1]
                 y == removed[c]
                 z == arrived[c]
      <4>4. z - y >= x - y /\ z - y >= INT_SIZE
        <5>1. x \in Nat /\ y \in Nat /\ z \in Nat
          BY <3>1, <3>4
        <5>2. y + INT_SIZE <= x /\ x <= z
          BY <4>1, <4>2
        <5> HIDE DEF x, y, z
        <5> QED
          BY <4>3, <5>1, <5>2
      <4> QED
        BY <4>4 DEF Stream!Buffered
    <3>8. Stream!Header(c) = {ends[c][k + 1] - removed[c]}
      BY <3>k, <3>7, HeaderOfFirst
    <3>9. Stream!Buffered(c) < ends[c][k + 1] - removed[c]
      BY <1>1, <3>7, <3>8
    <3> QED
      BY SMTT(30), <3>1, <3>4, <3>7, <3>9 DEF Stream!Buffered
  <2> QED
    BY <2>1, <2>2
<1> QED
  BY <1>2, <1>4, <1>5 DEF StreamInv

LEMMA StutterStep ==
  ASSUME Stream!FramingAssumption, StreamInv, UNCHANGED (Stream!vars)
  PROVE  StreamInv'
BY DEF StreamInv, Stream!vars, Stream!TypeOK, Ordered, Aligned,
       Stream!FramesInOrder, Stream!NothingLeftBehind,
       Stream!Start, Stream!Sent, Stream!Content

(* What the streams must be is what TcpReading assumes.                    *)
LEMMA StreamAssumption == Stream!FramingAssumption
BY ReadingAssumption, NumClientsAssumption
   DEF Stream!FramingAssumption, Client, None

(* However the stream of each connection is cut, the buffer always begins  *)
(* with the first frame that has not been handed on.                       *)
THEOREM StreamKept == Stream!Spec => []StreamInv
<1>1. StreamInv /\ [Stream!Next]_(Stream!vars) => StreamInv'
  BY SendStep, ReadStep, TakeStep, LeaveStep, StutterStep, StreamAssumption
     DEF Stream!Next
<1>2. Stream!Init => StreamInv
  BY InitStreamInv, StreamAssumption
<1> QED
  BY <1>1, <1>2, PTL DEF Stream!Spec
-----------------------------------------------------------------------------
(* Each turn of conn_read_cb is a step of the server and of the streams;   *)
(* everything else is a step of one of them.                               *)
LEMMA ReadingStep ==
  [ReadingNext]_allVars => [Next]_vars /\ [Stream!Next]_(Stream!vars)
<1> SUFFICES ASSUME [ReadingNext]_allVars
             PROVE  [Next]_vars /\ [Stream!Next]_streams
  BY DEF Stream!vars, streams
<1>1. ASSUME NEW c \in Client, PeerSends(c) \/ Read(c) \/ Leave(c)
      PROVE  UNCHANGED vars /\ Stream!Next
  BY <1>1 DEF PeerSends, Read, Leave, Stream!Next
<1>2. ASSUME NEW c \in Client, HandleFrame(c)
      PROVE  Next /\ Stream!Next
  BY <1>2 DEF HandleFrame, Next, Callback, Stream!Next
<1>3. CASE (Loop \/ ListenFails \/ OtherCallback \/ Write) /\ Idle
  BY <1>3 DEF OtherCallback, Next, Callback, Idle
<1>4. CASE (PutMessage \/ Stop \/ Joined \/ Terminated) /\ UNCHANGED streams
  BY <1>4 DEF Next
<1>5. CASE UNCHANGED allVars
  BY <1>5 DEF allVars
<1> QED
  BY <1>1, <1>2, <1>3, <1>4, <1>5 DEF ReadingNext, ReadCallback

(* The server that reads its streams frame by frame does nothing the       *)
(* server alone could not do, and treats each stream as Framing says.      *)
THEOREM StepsOfServer == ReadingSpec => Steps /\ Stream!Spec
<1>1. ReadingInit => Init /\ Stream!Init
  BY DEF ReadingInit
<1> QED
  BY <1>1, ReadingStep, PTL DEF ReadingSpec, Steps, Stream!Spec

(* However the bytes of the connections, timers, closing peers, answers    *)
(* and Stop interleave, each content is handed on whole, in order, once.   *)
THEOREM ReadInOrder == ReadingSpec => []FramesInOrder
<1>1. StreamInv => FramesInOrder
  BY DEF StreamInv, FramesInOrder
<1> QED
  BY <1>1, StepsOfServer, StreamKept, StreamAssumption, PTL

(* ... and no whole frame is ever left in a buffer nobody reads.           *)
THEOREM ReadEmpties == ReadingSpec => []NothingLeftBehind
<1>1. StreamInv => NothingLeftBehind
  BY DEF StreamInv, NothingLeftBehind
<1> QED
  BY <1>1, StepsOfServer, StreamKept, StreamAssumption, PTL
=============================================================================
