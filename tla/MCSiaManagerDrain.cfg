CONSTANTS
  callA = callA
  EmptyId = emptyId
  CallId = {callA, emptyId}
  Absent = absent
  Bad = bad
  FirstId = 1
  m_max_session_num = 1
  NumMsgs = 2
  Input <- MCInput
SPECIFICATION Spec
INVARIANT QueueDrained
