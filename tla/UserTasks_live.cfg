SPECIFICATION LiveSpec
CONSTANTS
  NoProcesses = 2
  InitTasks = {0, 1, 2}
  RunPermissions <- Nobody
  SuspendPermissions <- TwoSuspendsOne
  OsSuspends = {2}
  Services = {}
  MaxLevel = 0
  Ceilings = {}
  Irqs = {1, 2}
  CallbackIrqs = {1}
  Budget = {1}
  MaxSp = 0
  MaxCount = 1
INVARIANTS
  EveryFailureCounts
  InitInOrder
PROPERTIES
  LateTaskEnds
  SuspendedProcessEnds
