SPECIFICATION LiveSpec
CONSTANTS
  NoTasks = 3
  NoClasses = 2
  Class <- Classes112
  Slice <- Slices210
  Mutex = {"m"}
  Semaphore = {}
  Event = {"e"}
  IsrEvents = {"e"}
  Units <- NoUnits
  Start <- StartMixed
  Requests <- TimedRequests
  Width = 2
  MaxOverrun = 1
PROPERTIES
  TimeoutEndsWait
  EveryoneHasItsTurn
