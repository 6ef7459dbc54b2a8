\* One IO thread, two channels with one request each, a ring with one slot.
SPECIFICATION Spec
CHECK_DEADLOCK FALSE
CONSTANTS
  Channels = {c1, c2}
  IOThreads = {io1}
  Workers = {w1}
  BufferSize = 1
  MaxRequests = 1
  NoRequest = NoRequest
PROPERTIES EveryRequestServed RingIsTaskQueue
