CONSTANTS
  Workers <- MCWorkers
  Stoppers <- MCOneStopper
  Items <- MCFewItems
  MaxPriority = 1
  PrioValues <- MCOutOfRangePrio
  UseMetrics = FALSE
SPECIFICATION Spec
INVARIANT DirtyItemsReachable
