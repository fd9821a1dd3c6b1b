CONSTANTS
  Callers <- MCCallers
  MaxTime = 3
  TTL = 2
  ExpiryDelta = 1
  MaxFetches = 3
  ConfigKeys <- MCConfigKeys
  HasPersister = TRUE
  CmdPath = "absent"
  CmdTimeFmt = "unset"
  CmdOutputs <- MCNoOutputs
  MaxRestarts = 0
SPECIFICATION Spec
INVARIANT PersistedMatchesCache
