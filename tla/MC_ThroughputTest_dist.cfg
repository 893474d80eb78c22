\* Distributed mode: a master and two workers, one user on each worker.
CONSTANTS
  Runner = r
  Workers <- MCDistWorkers
  Users = {ua, ub}
  Host <- MCDistHost
  Statuses = {0, 200, 503}
  XCache <- MCXCache
  MaxRequests = 2
  MaxTests = 2
  NoReport = NoReport
  w1 = w1
  w2 = w2
  ua = ua
  ub = ub
  r = r
SPECIFICATION Spec
\* Locust stops when the run time is over; after the last test nothing moves.
CHECK_DEADLOCK FALSE
INVARIANT ReportCoversTest
