CONSTANTS
  Consumer = {c1, c2, c3}
  MAXBUFFER = 1
  NumItems = 4
SPECIFICATION Spec
INVARIANTS TypeOK NoLostWakeup CapacityBound
PROPERTY ImplementsQueue
