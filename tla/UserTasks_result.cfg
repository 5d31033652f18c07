SPECIFICATION Spec
CONSTANTS
  NoProcesses = 1
  InitTasks = {}
  RunPermissions <- Nobody
  SuspendPermissions <- Nobody
  OsSuspends = {}
  Services = {}
  MaxLevel = 1
  Ceilings = {1}
  Irqs = {1}
  CallbackIrqs = {}
  Budget = {}
  MaxSp = 0
  MaxCount = 0
INVARIANTS
  ResultIsTheTasks
