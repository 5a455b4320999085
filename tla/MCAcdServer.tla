----------------------------- MODULE MCAcdServer ------------------------------
(* A small instance of AcdServer for TLC, with the requests of             *)
(* MCSiaManager that matter here.                                          *)
EXTENDS AcdServer

CONSTANT callA

(* A route request of call A; the end of call A by its call id; a request  *)
(* whose connection is not an object.                                      *)
MCInput ==
  {[cmd |-> "acdRoute", receiver |-> 0, callid |-> callA, conn |-> callA],
   [cmd |-> "CallCleared", receiver |-> 0, callid |-> callA, conn |-> callA],
   [cmd |-> "acdReRoute", receiver |-> 0, callid |-> callA, conn |-> Bad]}
=============================================================================
