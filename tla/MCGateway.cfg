\* Two IO threads that take turns in publish() serve two channels of a ring with
\* one slot, so that they are held up in it.  The system stops when the clients
\* fall silent.
SPECIFICATION TurnsSafety
CHECK_DEADLOCK FALSE
SYMMETRY GatewaySymmetry
CONSTANTS
  Channels = {c1, c2}
  IOThreads = {io1, io2}
  Workers = {w1}
  BufferSize = 1
  MaxRequests = 2
  NoRequest = NoRequest
INVARIANTS TypeOK RequestsConserved RepliesFollowRequests DeviceBeforeReply
PROPERTIES EachClientAlone
