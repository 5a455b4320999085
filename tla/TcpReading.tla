------------------------------ MODULE TcpReading -------------------------------
(***************************************************************************)
(* The TCP server with the streams of its connections: TcpServer and       *)
(* Framing together.                                                       *)
(*                                                                         *)
(* conn_read_cb is not one step here: each turn of its loop takes one      *)
(* frame, which is a ping or a request, and session threads and main() act *)
(* in between.  Every other callback waits for its end, because they share *)
(* the thread; so does the end of the loop.                                *)
(***************************************************************************)
EXTENDS TcpServer

CONSTANTS INT_SIZE,    \* the length of a header
          Length,      \* the lengths a content may have
          NumFrames    \* bound on the frames of a connection

ASSUME ReadingAssumption ==
  INT_SIZE \in Nat \ {0} /\ Length \subseteq Nat /\ NumFrames \in Nat

VARIABLES ends, arrived, removed, reading, contents

None == 0

Stream == INSTANCE Framing WITH Conn <- Client

streams == <<ends, arrived, removed, reading, contents>>
allVars == <<vars, streams>>

ReadingInit == Init /\ Stream!Init
-----------------------------------------------------------------------------
(* A peer sends on an open connection. *)
PeerSends(c) ==
  /\ ~crashed /\ c \in g_TCPClientMap
  /\ Stream!PeerSends(c) /\ UNCHANGED vars

(* Bytes have come: conn_read_cb begins. *)
Read(c) ==
  /\ Dispatching /\ c \in g_TCPClientMap
  /\ Stream!Read(c) /\ UNCHANGED vars

(* It takes a frame, a ping or a request. *)
HandleFrame(c) ==
  /\ Stream!TakeFrame(c)
  /\ Ping(c) \/ ReceiveRequest(c)

(* It returns. *)
Leave(c) == InCallback /\ Stream!Leave(c) /\ UNCHANGED vars

ReadCallback == \E c \in Client : HandleFrame(c) \/ Leave(c)

(* Everything else that the thread does. *)
OtherCallback ==
  \/ Accept
  \/ \E c \in Client : \/ OnClosed(c)
                       \/ OnHeartbeatTimeout(c) \/ OnLoginTimeout(c)

Idle == reading = None /\ UNCHANGED streams

ReadingNext ==
  \/ \E c \in Client : PeerSends(c) \/ Read(c)
  \/ ReadCallback
  \/ (Loop \/ ListenFails \/ OtherCallback \/ Write) /\ Idle
  \/ (PutMessage \/ Stop \/ Joined \/ Terminated) /\ UNCHANGED streams

(* As for TcpServer; what has arrived at the socket need not be read soon, *)
(* but a callback comes to its end.                                        *)
ReadingFairness ==
  /\ WF_allVars(Loop /\ Idle)
  /\ WF_allVars(ReadCallback)
  /\ SF_allVars(Write /\ Idle)
  /\ WF_allVars(Joined /\ UNCHANGED streams)

ReadingSpec == ReadingInit /\ [][ReadingNext]_allVars /\ ReadingFairness
-----------------------------------------------------------------------------
(* Each connection's contents are handed on whole, in order and once,      *)
(* however the bytes of several connections, timers, closing peers,        *)
(* answers and Stop interleave.                                            *)
FramesInOrder == Stream!FramesInOrder

(* When conn_read_cb is over it has left no whole frame behind. *)
NothingLeftBehind == Stream!NothingLeftBehind
=============================================================================
