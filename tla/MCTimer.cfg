CONSTANTS
  Session = {s1, s2}
  NumTimers = 3
SPECIFICATION Spec
INVARIANTS TypeOK ClearIsFinal SafeUntilSwept
PROPERTIES TimersFire StopReturns ImplementsService
