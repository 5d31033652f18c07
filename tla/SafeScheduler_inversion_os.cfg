SPECIFICATION Spec
CONSTANTS
  NoEvents = 3
  Priority <- Priority321
  Tasks <- TasksOs
  MaxPriority = 3
  MaxLockable = 2
  Ceilings = {3}
  Irqs <- Irq1
  IrqLevel <- Level1
  Preemptable = {1}
  IrqEvents <- AllByIrq1
  TaskEvents <- AllByTasks
  Params = {p0}
  InitParam = p0
  MaxLoss = 0
INVARIANTS
  UrgentFirst
