\* Local mode: the Runner process runs both users, two tests in a row.
CONSTANTS
  Runner = r
  Workers <- MCLocalWorkers
  Users = {ua, ub}
  Host <- MCLocalHost
  Statuses = {0, 200, 503}
  XCache <- MCXCache
  MaxRequests = 2
  MaxTests = 2
  NoReport = NoReport
  w1 = w1
  w2 = w2
  ua = ua
  ub = ub
  r = r
SPECIFICATION Spec
\* Locust stops when the run time is over; after the last test nothing moves.
CHECK_DEADLOCK FALSE
INVARIANT TypeOK
INVARIANT ReportCoversTest
