SPECIFICATION TrafficSpec
CONSTANTS
  Intervals = {1, 2}
  RepCounts <- MCRepCounts
  RefMod = 3
  MaxTimers = 2
  MaxClock = 3
CHECK_DEADLOCK FALSE
INVARIANTS TypeOK ListSound
PROPERTIES CompletesItsRuns NoBacklog DueTimersRun
