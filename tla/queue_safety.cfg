CONSTANTS
  Workers <- MCWorkers
  Stoppers <- MCTwoStoppers
  Items <- MCItems
  MaxPriority = 1
  PrioValues <- MCInRangePrio
  UseMetrics = TRUE
SPECIFICATION Spec
INVARIANT TypeOK
INVARIANT BucketsHoldPending
INVARIANT ExclusiveProcessing
INVARIANT DirtyItemsReachable
INVARIANT NoLostWakeup
PROPERTY ImplementsAbstract
