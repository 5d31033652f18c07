SPECIFICATION LoadSpec
CONSTANTS
  NoEvents = 3
  Priority <- Priority321
  Tasks <- TasksMixed
  MaxPriority = 3
  MaxLockable = 2
  Ceilings = {2, 3}
  Irqs <- Irq12
  IrqLevel <- Level12
  Preemptable = {1}
  IrqEvents <- AllByIrq
  TaskEvents <- AllByTasks
  Params = {p0}
  InitParam = p0
  MaxLoss = 0
INVARIANTS
  SchedulerAssertions
  OneFramePerPriority
  CeilingExclusion
  SchedulingIsPostponed
  NoForgottenTrigger
PROPERTIES
  AllServedAtLast
  TopEventServed
