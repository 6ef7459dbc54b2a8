\* Two IO threads feed the ring that was created for one producer.
SPECIFICATION Spec
CHECK_DEADLOCK FALSE
CONSTANTS
  Producers = {io1, io2}
  Workers = {w1}
  BufferSize = 2
  Task = {t1, t2, t3}
  NoTask = NoTask
PROPERTY EveryTaskRuns
