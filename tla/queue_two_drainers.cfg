CONSTANTS
  Workers <- MCWorkers
  Stoppers <- MCTwoStoppers
  Items <- MCFewItems
  MaxPriority = 1
  PrioValues <- MCInRangePrio
  UseMetrics = FALSE
SPECIFICATION FairSpec
PROPERTY DrainReturns
