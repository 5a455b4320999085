CONSTANTS
  Putter = {p1, p2}
  NumAddresses = 2
  Capacity = 1
  NumPuts = 3
  NumStarts = 2
SPECIFICATION Spec
INVARIANTS TypeOK QueueBound SentOnceInOrder LoggedInOnly
PROPERTIES Reconnects SilentPeerGivenUp AddressesRotate StopReturns
