SPECIFICATION Spec
CONSTANTS
  NoEvents = 4
  Priority <- Priority3311
  Tasks <- TasksGroup
  MaxPriority = 3
  MaxLockable = 3
  Ceilings = {2, 3}
  Irqs <- Irq1
  IrqLevel <- Level1
  Preemptable = {1}
  IrqEvents <- AllByIrq1
  TaskEvents <- AllByTasks
  Params = {p0, p1}
  InitParam = p0
  MaxLoss = 1
INVARIANTS
  TypeOK
  UrgentFirst
  ActivationKeepsParam
PROPERTIES
  ServedInOrder
