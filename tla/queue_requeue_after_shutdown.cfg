CONSTANTS
  Workers <- MCWorkers
  Stoppers <- MCOneStopper
  Items <- MCFewItems
  MaxPriority = 1
  PrioValues <- MCInRangePrio
  UseMetrics = FALSE
SPECIFICATION Spec
PROPERTY NoBucketInsertAfterShutdown
