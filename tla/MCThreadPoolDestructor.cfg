SPECIFICATION Spec
CHECK_DEADLOCK FALSE
CONSTANTS
  w1 = w1
  w2 = w2
  t1 = t1
  t2 = t2
  Worker <- MCWorkers
  NoWorker = NoWorker
  Task <- MCTasks
  NoTask = NoTask
INVARIANT
  DestructorWaits
