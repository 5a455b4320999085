-------------------------- MODULE MCGatewayManager ---------------------------
(* Small instances of GatewayManager for TLC: two callers with routes of   *)
(* their own (the second has two gateways, one of them full), the number   *)
(* main() asks for, which no table knows, and the empty caller.            *)
EXTENDS GatewayManager, TLC

CONSTANTS callerA, callerB, unknown

MCCaller == {callerA, callerB, unknown, NoCaller}
MCRouteOf == [c \in MCCaller |-> CASE c = callerA -> <<1>>
                                   [] c = callerB -> <<2, 1>>
                                   [] OTHER -> <<>>]
MCMaxSessions == (1 :> 2) @@ (2 :> 1)
MCDbSessions == (1 :> 0) @@ (2 :> 1)

Req(kind, caller, callee, id) ==
  [kind |-> kind, caller |-> caller, callee |-> callee, id |-> id]

CountRequests == {Req("used", callerA, callerA, 1), Req("end", callerA, callerA, 1),
                  Req("used", callerA, callerA, 2), Req("end", callerA, callerA, 9)}

RouteRequests == {Req("route", callerA, unknown, 0),
                  Req("route", NoCaller, unknown, 0),
                  Req("routeEx", callerB, callerA, 0),
                  Req("used", callerA, callerA, 1)}

MCRequests == {Req("used", callerA, callerA, 1), Req("end", callerA, callerA, 2),
               Req("route", callerA, unknown, 0),
               Req("routeEx", NoCaller, callerB, 0)}

SessionSymmetry == Permutations(Session)
=============================================================================
