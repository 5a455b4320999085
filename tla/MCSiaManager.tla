---------------------------- MODULE MCSiaManager -----------------------------
(* Requests and small instances of SiaManager for TLC.                     *)
EXTENDS SiaManager

CONSTANT callA

Req(cmd, receiver, callid, conn) ==
  [cmd |-> cmd, receiver |-> receiver, callid |-> callid, conn |-> conn]

(* A route request of call A; the end of a route by its connection alone;  *)
(* a heartbeat without call id or connection; a message for the first      *)
(* session by its invokeID; the end of call A by its call id; a request    *)
(* whose connection is not an object.                                      *)
MCInput ==
  {Req("acdRoute", 0, callA, callA),
   Req("acdRouteEnd", 0, Absent, callA),
   Req("HeartBeat", 0, Absent, Absent),
   Req("acdRouteUsed", 1, Absent, callA),
   Req("CallCleared", 0, callA, callA),
   Req("acdReRoute", 0, callA, Bad)}
=============================================================================
