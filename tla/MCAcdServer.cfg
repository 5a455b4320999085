CONSTANTS
  callA = callA
  EmptyId = emptyId
  CallId = {callA, emptyId}
  Absent = absent
  Bad = bad
  FirstId = 1
  m_max_session_num = 2
  NumMsgs = 2
  NumClients = 1
  Input <- MCInput
SPECIFICATION AcdSpec
INVARIANT AnswersFindServer
PROPERTIES KeepsPromise ThreadsEnd WholeStops
