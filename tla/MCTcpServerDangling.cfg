CONSTANTS
  NumClients = 2
  NumRequests = 1
  INT_SIZE = 2
  Length = {0}
  NumFrames = 1
SPECIFICATION ReadingSpec
INVARIANT ConnectsAreLive
