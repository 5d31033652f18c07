SPECIFICATION Spec
CONSTANTS
  NoProcesses = 2
  InitTasks = {}
  RunPermissions <- TwoRunsOne
  SuspendPermissions <- Nobody
  OsSuspends = {}
  Services = {"run", "trigger"}
  MaxLevel = 1
  Ceilings = {1}
  Irqs = {1, 2}
  CallbackIrqs = {1}
  Budget = {}
  MaxSp = 1
  MaxCount = 0
INVARIANTS
  ContextIsInnermost
  StacksApart
  StackGivenBack
  RunTaskIsNotRecursive
