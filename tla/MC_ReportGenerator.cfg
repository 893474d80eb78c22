\* Three runs of generate-report.py over the same directory, any of which
\* may crash at any write.
CONSTANTS
  MaxRuns = 3
  NoFile = NoFile
SPECIFICATION Spec
\* After the last run nothing moves.
CHECK_DEADLOCK FALSE
INVARIANT ReportLinksResolve
INVARIANT ReportRankingMatchesScores
INVARIANT ObservationsMatchData
PROPERTY ReportEmbedsFreshCharts
