\* The constructor's general case: several workers compete for the events.
SPECIFICATION Spec
CHECK_DEADLOCK FALSE
CONSTANTS
  Producers = {io1}
  Workers = {w1, w2}
  BufferSize = 2
  Task = {t1, t2, t3}
  NoTask = NoTask
INVARIANTS TypeOK RingInv NothingLost AtMostOnce NoOverwrite StackCoversBacklog
PROPERTY EveryTaskRuns
