SPECIFICATION LiveSpec
CONSTANTS
  NoTasks = 3
  Prio <- Prio311
  Cycle <- Cycle220
  First <- First030
  isr = isr
  Isr = {isr}
  IsrPrio <- Level2
  TickLevel = 4
  Activates <- ActivatesMixed
  Ceiling <- CeilingOfCallers
  Width = 4
  MaxLoss = 1
INVARIANTS
  PreemptedFromAbove
  AcceptedAreExecuted
  LossesCounted
  DueInNextCycle
PROPERTIES
  AllServedAtLast
