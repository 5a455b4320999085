------------------------------- MODULE Framing --------------------------------
(***************************************************************************)
(* The frames of a TCP stream: conn_read_cb of the server                  *)
(* (TcpServerModule.cpp), the same loop as in connect_read_cb of the       *)
(* client (TcpClientModule.cpp).                                           *)
(*                                                                         *)
(* A frame is a header of INT_SIZE bytes, which hold the length of the     *)
(* whole frame, and a content.  TCP cuts the stream anywhere.  Each time   *)
(* bytes have come, libevent calls the callback, whose loop takes frames   *)
(* off the front of the buffer as long as a whole one is there.  Several   *)
(* connections share the thread that runs the callbacks.                   *)
(*                                                                         *)
(* Bytes are known by their place in the stream: the peer has sent the     *)
(* bytes up to the end of its last frame, those up to arrived have come,   *)
(* those up to removed have left the buffer.  Peers send well-formed       *)
(* frames; bytes that are no header could hold any number.                 *)
(***************************************************************************)
EXTENDS Sequences, Integers

CONSTANTS Conn,       \* the connections
          None,       \* no connection
          INT_SIZE,   \* the length of a header
          Length,     \* the lengths a content may have
          NumFrames   \* bound on the frames of a connection

(* What the lengths and names must be. *)
FramingAssumption ==
  /\ None \notin Conn
  /\ INT_SIZE \in Nat \ {0}
  /\ Length \subseteq Nat
  /\ NumFrames \in Nat

VARIABLES
  ends,      \* where each frame ends that the peer has sent
  arrived,   \* how many bytes have come from the socket
  removed,   \* how many of them have been taken out of the buffer
  reading,   \* the connection whose callback runs, or None
  contents   \* the bytes onReceived was given: <<first, last>> of each call

vars == <<ends, arrived, removed, reading, contents>>

Init ==
  /\ ends = [c \in Conn |-> <<>>]
  /\ arrived = [c \in Conn |-> 0] /\ removed = [c \in Conn |-> 0]
  /\ reading = None
  /\ contents = [c \in Conn |-> <<>>]

(* Frame i of connection c begins behind frame i - 1. *)
Start(c, i) == IF i = 1 THEN 0 ELSE ends[c][i - 1]

Sent(c) == Start(c, Len(ends[c]) + 1)

(* evbuffer_get_length *)
Buffered(c) == arrived[c] - removed[c]

(* What ntohl makes of the INT_SIZE bytes at the front of the buffer. *)
Header(c) ==
  LET here == {i \in 1..Len(ends[c]) : Start(c, i) = removed[c]} IN
  IF here = {} THEN 0..Sent(c)
  ELSE {ends[c][i] - removed[c] : i \in here}
-----------------------------------------------------------------------------
(* The peer sends a frame, whole. *)
PeerSends(c) ==
  /\ Len(ends[c]) < NumFrames
  /\ \E n \in Length :
       ends' = [ends EXCEPT ![c] = Append(@, Sent(c) + INT_SIZE + n)]
  /\ UNCHANGED <<arrived, removed, reading, contents>>

(* libevent reads from the socket what has come, any part of what was sent, *)
(* and calls conn_read_cb.                                                  *)
Read(c) ==
  /\ reading = None
  /\ \E n \in 1..(Sent(c) - arrived[c]) :
       arrived' = [arrived EXCEPT ![c] = @ + n]
  /\ reading' = c
  /\ UNCHANGED <<ends, removed, contents>>

(* Mutant: a header is there, but nobody asks for the rest of the frame. *)
TakeTornFrame(c) ==
  /\ reading = c /\ Buffered(c) >= INT_SIZE
  /\ \E len \in Header(c) :
       LET got == IF Buffered(c) < len THEN Buffered(c) ELSE len IN
       /\ removed' = [removed EXCEPT ![c] = @ + got]
       /\ contents' = [contents EXCEPT
                         ![c] = Append(@, <<removed[c] + INT_SIZE + 1,
                                            removed[c] + got>>)]
  /\ UNCHANGED <<ends, arrived, reading>>

(* Mutant: one frame is taken on each call. *)
TakeOneFrame(c) ==
  /\ reading = c /\ Buffered(c) >= INT_SIZE
  /\ \E len \in Header(c) :
       /\ Buffered(c) >= len
       /\ removed' = [removed EXCEPT ![c] = @ + len]
       /\ contents' = [contents EXCEPT
                         ![c] = Append(@, <<removed[c] + INT_SIZE + 1,
                                            removed[c] + len>>)]
  /\ reading' = None
  /\ UNCHANGED <<ends, arrived>>

(* The loop: a whole frame is in the buffer; it is taken out and its       *)
(* content handed on (TcpServerModule.cpp:338-347).                        *)
TakeFrame(c) ==
  /\ reading = c /\ Buffered(c) >= INT_SIZE
  /\ \E len \in Header(c) :
       /\ Buffered(c) >= len
       /\ removed' = [removed EXCEPT ![c] = @ + len]
       /\ contents' = [contents EXCEPT
                         ![c] = Append(@, <<removed[c] + INT_SIZE + 1,
                                            removed[c] + len>>)]
  /\ UNCHANGED <<ends, arrived, reading>>

(* The loop ends: the rest is no header, or no whole frame. *)
Leave(c) ==
  /\ reading = c
  /\ Buffered(c) >= INT_SIZE => \E len \in Header(c) : Buffered(c) < len
  /\ reading' = None
  /\ UNCHANGED <<ends, arrived, removed, contents>>

Next == \E c \in Conn : PeerSends(c) \/ Read(c) \/ TakeFrame(c) \/ Leave(c)

Spec == Init /\ [][Next]_vars
-----------------------------------------------------------------------------
TypeOK ==
  /\ ends \in [Conn -> Seq(Nat)]
  /\ arrived \in [Conn -> Nat] /\ removed \in [Conn -> Nat]
  /\ reading \in Conn \cup {None}
  /\ contents \in [Conn -> Seq(Nat \X Nat)]

(* The content of frame i of connection c. *)
Content(c, i) == <<Start(c, i) + INT_SIZE + 1, ends[c][i]>>

(* However the stream is cut and the connections' callbacks follow each    *)
(* other, each connection's contents are handed on whole, in order and     *)
(* once.                                                                   *)
FramesInOrder ==
  \A c \in Conn :
    /\ Len(contents[c]) <= Len(ends[c])
    /\ \A i \in 1..Len(contents[c]) : contents[c][i] = Content(c, i)

(* No whole frame is left in the buffer when the callback is over: it      *)
(* would lie there until the peer sends something else.                    *)
NothingLeftBehind ==
  \A c \in Conn : \A i \in 1..Len(ends[c]) :
    reading # c /\ ends[c][i] <= arrived[c] => i <= Len(contents[c])
=============================================================================
