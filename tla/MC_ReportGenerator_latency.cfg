\* One run of generate-report.py: the latency recommendation it writes.
CONSTANTS
  MaxRuns = 1
  NoFile = NoFile
SPECIFICATION Spec
CHECK_DEADLOCK FALSE
INVARIANT LatencyRecommendationMatchesData
