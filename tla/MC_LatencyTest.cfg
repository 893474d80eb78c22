\* Two users, one request each, latencies 5 ms or unparsable or absent.
CONSTANTS
  Users = {ua, ub}
  Statuses = {200, 503}
  XCacheValues <- MCXCacheValues
  Latencies = {5}
  BadLatency = BadLatency
  NoHeader = NoHeader
  MaxRequests = 1
  ua = ua
  ub = ub
  NoSummary = NoSummary
SPECIFICATION Spec
\* The test ends with its summary.
CHECK_DEADLOCK FALSE
INVARIANT SummaryCountsCompleted
