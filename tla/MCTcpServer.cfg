CONSTANTS
  NumClients = 2
  NumRequests = 3
  INT_SIZE = 2
  Length = {0, 1}
  NumFrames = 2
SPECIFICATION ReadingSpec
INVARIANTS TypeOK TimersOfLiveClients FirstConnectionServed FramesInOrder
  NothingLeftBehind
PROPERTIES AnswersWritten
