CONSTANTS
  Session = {s1, s2}
  Main = main
  GatewayId = {1, 2}
  callerA = callerA
  callerB = callerB
  unknown = unknown
  NoCaller = noCaller
  Caller <- MCCaller
  RouteOf <- MCRouteOf
  MaxSessions <- MCMaxSessions
  DbSessions <- MCDbSessions
  StartCaller = unknown
  StartGateway = 1
  NotStored = notStored
  JsonNull = jsonNull
  EmptyArray = emptyArray
  Request <- RouteRequests
  NumRequests = 2
  NumFailures = 0
  NumCrashes = 0
SPECIFICATION Spec
CHECK_DEADLOCK FALSE
INVARIANT RouteOfCaller
