CONSTANTS
  callA = callA
  EmptyId = emptyId
  CallId = {callA, emptyId}
  Absent = absent
  Bad = bad
  FirstId = 1
  m_max_session_num = 2
  NumMsgs = 3
  Input <- MCInput
SPECIFICATION Spec
INVARIANTS TypeOK NoSelfJoin LiveSessionsInMap
  FreedOnlyAfterDetach CallMapFaithful NoStraying RequestOnce
PROPERTY ImplementsPool
