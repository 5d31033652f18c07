SPECIFICATION Spec
CONSTANTS
  NoTasks = 3
  NoClasses = 2
  Class <- Classes112
  Slice <- Slices210
  Mutex = {"m"}
  Semaphore = {"s"}
  Event = {"e"}
  IsrEvents = {"e"}
  Units <- OneUnit
  Start <- StartMixed
  Requests <- SyncRequests
  Width = 3
  MaxOverrun = 1
INVARIANTS
  ListsAgree
  SyncObjectsConserved
  NobodyWaitsInVain
  SignalReachesTask
  OverrunsCounted
  CollectsBeforeLaterOnes
PROPERTIES
  HandedToFirst
