SPECIFICATION TickSpec
CONSTANTS
  NoProcesses = 3
  Configured <- Stacks
  RunPermissions <- TwoRunsOne
  MaxEvents = 3
  MaxTasks = 3
  MaxTasksPerEvent = 3
  MaxPriority = 3
  MaxLockable = 2
  Width = 4
  Step = 2
  EventInputs <- Events
  TaskInputs <- SomeTasks
CHECK_DEADLOCK FALSE
INVARIANTS
  TablesSteerTheSearch
PROPERTIES
  KeepsThePlan
  CyclicIsTriggered
