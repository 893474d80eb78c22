\* Checks LocustStatsOverEndpoints.
CONSTANTS
  Endpoints <- MCEndpoints
  Counts = {1, 3}
  Averages = {2, 5}
  NoResult = NoResult
SPECIFICATION Spec
CHECK_DEADLOCK FALSE
INVARIANT LocustStatsOverEndpoints
