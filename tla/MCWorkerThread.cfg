\* Two posted tasks, two threads that may call Stop.
CONSTANTS
  Task = {t1, t2}
  Stopper = {s1, s2}
  Worker = worker
  NoTask = none
SPECIFICATION Spec
INVARIANTS
  TypeOK
  TasksDoNotOverlap
  NoTakeFromEmptyQueue
  StopFinishesTasks
  JoinedMeansQuiet
PROPERTIES
  AcceptedIsTaken
  WorkerLeaves
\* Every call returns in the end and nothing is left to do.
CHECK_DEADLOCK FALSE
