CONSTANTS
  Workers <- MCWorkers
  Stoppers <- MCOneStopper
  Items <- MCFewItems
  MaxPriority = 1
  PrioValues <- MCAnyPrio
  UseMetrics = TRUE
SPECIFICATION FairSpec
PROPERTY DrainReturns
PROPERTY GetReleasedOnShutdown
PROPERTY NoNewWorkAfterShutdown
INVARIANT DrainWaitsOnWork
