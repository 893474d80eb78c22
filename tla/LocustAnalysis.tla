--------------------------- MODULE LocustAnalysis ---------------------------
(***************************************************************************)
(* The two scripts that read Locust's stats CSV files:                    *)
(*   analyze_results_simple.py (analyze_directory, compare_environments): *)
(*     per file, request-weighted averages over the endpoint rows, then a *)
(*     Local-against-AWS comparison with an interpretation line;           *)
(*   analyze_locust_results.py (load_stats, calculate_percentiles,         *)
(*     calc_diff): plain means over the rows it keeps, and a "Difference" *)
(*     column.                                                             *)
(*                                                                         *)
(* A CSV file is what Locust writes: one row per endpoint, with Type the  *)
(* HTTP method, then the "Aggregated" row, whose Type is empty, whose     *)
(* Name is "Aggregated" and whose figures are those of all the requests.  *)
(* A pandas DataFrame is the sequence of its rows; numbers that pandas    *)
(* divides are exact rationals [num, den] here, so that an average can be *)
(* compared with another without rounding.  The percentile columns        *)
(* (50%, 95%, 99%, Median) are treated by both scripts exactly like       *)
(* Average Response Time, so that column stands for all of them.          *)
(***************************************************************************)
EXTENDS Integers, Sequences, SequencesExt

CONSTANTS
  Endpoints,    \* endpoint names a test may have requested
  Counts,       \* request counts an endpoint row may have
  Averages,     \* average response times (ms) an endpoint row may have
  NoResult      \* a script has not run yet

\* Exact rationals.
Frac(n, d)      == [num |-> n, den |-> d]
RatEq(a, b)     == a.num * b.den = b.num * a.den
RatLess(a, b)   == a.num * b.den < b.num * a.den
RatPlus(a, b)   == Frac(a.num * b.den + b.num * a.den, a.den * b.den)
RatTimes(a, k)  == Frac(a.num * k, a.den)
RatOver(a, k)   == Frac(a.num, a.den * k)
RatZero         == Frac(0, 1)

\* round(x, 2) of a non-negative x: to the nearest hundredth, a tie to the
\* even one (the binary representation of the float is not modelled).
Round2(a) ==
  LET q == (a.num * 100) \div a.den
      r == (a.num * 100) % a.den
  IN  Frac(IF 2 * r > a.den \/ (2 * r = a.den /\ q % 2 = 1) THEN q + 1 ELSE q, 100)

\* Column sums and extrema of a DataFrame (pandas .sum(), .min(), .max()).
ColumnSum(df, F(_))    == SumFunction([k \in DOMAIN df |-> F(df[k])])
ColumnRatSum(df, F(_)) == FoldFunction(RatPlus, RatZero, [k \in DOMAIN df |-> F(df[k])])
ColumnMax(df, F(_))    == Max({F(df[k]) : k \in DOMAIN df})
ColumnMin(df, F(_))    == Min({F(df[k]) : k \in DOMAIN df})

-----------------------------------------------------------------------------
(***************************************************************************)
(* What Locust writes (the environment).                                  *)
(***************************************************************************)
EndpointRow(name, count, failures, avg) ==
  [type |-> "GET", name |-> name, count |-> count, failures |-> failures,
   avg |-> Frac(avg, 1), min |-> 1, max |-> avg + 1]

AggregatedRow(rows) ==
  [type |-> "", name |-> "Aggregated",
   count |-> ColumnSum(rows, LAMBDA r : r.count),
   failures |-> ColumnSum(rows, LAMBDA r : r.failures),
   avg |-> RatOver(ColumnRatSum(rows, LAMBDA r : RatTimes(r.avg, r.count)),
                   ColumnSum(rows, LAMBDA r : r.count)),
   min |-> ColumnMin(rows, LAMBDA r : r.min),
   max |-> ColumnMax(rows, LAMBDA r : r.max)]

LocustCsv(rows) == rows \o << AggregatedRow(rows) >>

\* One or two endpoint rows with distinct names.
EndpointRowSeqs ==
  LET Rows == { EndpointRow(e, c, f, a) :
                  e \in Endpoints, c \in Counts, f \in {0, 1}, a \in Averages }
  IN  { rs \in UNION { [1..n -> Rows] : n \in 1..2 } :
          \A i, j \in DOMAIN rs : i # j => rs[i].name # rs[j].name }

-----------------------------------------------------------------------------
(***************************************************************************)
(* analyze_results_simple.py                                              *)
(***************************************************************************)

\* Mutant: the aggregated row filtered on Type, as load_stats does.
LoadStatsFileByType(csv) == SelectSeq(csv, LAMBDA r : r.type # "Aggregated")

\* load_stats_file: drops the rows without a Name and the "Aggregated" row.
LoadStatsFile(csv) == SelectSeq(csv, LAMBDA r : r.name # "Aggregated")

\* analyze_directory, for one non-empty file: totals, failure rate and the
\* request-weighted average, both guarded by total_requests > 0.
FileSummary(df) ==
  LET total == ColumnSum(df, LAMBDA r : r.count)
      fails == ColumnSum(df, LAMBDA r : r.failures)
  IN  [requests |-> total,
       failures |-> fails,
       failRate |-> Round2(IF total > 0 THEN Frac(fails * 100, total) ELSE RatZero),
       avg |-> Round2(IF total > 0
                        THEN RatOver(ColumnRatSum(df, LAMBDA r : RatTimes(r.avg, r.count)), total)
                        ELSE RatZero),
       max |-> ColumnMax(df, LAMBDA r : r.max)]

\* compare_environments, the interpretation of the average response times:
\* "faster" when AWS is below Local, "slower" otherwise.
Interpretation(local, aws) ==
  IF RatLess(aws.avg, local.avg) THEN "faster" ELSE "slower"

\* compare_environments, the interpretation of the failure rates.
FailureInterpretation(local, aws) ==
  CASE RatLess(aws.failRate, local.failRate) -> "lower"
    [] RatLess(local.failRate, aws.failRate) -> "higher"
    [] OTHER                                 -> "similar"

-----------------------------------------------------------------------------
(***************************************************************************)
(* analyze_locust_results.py                                              *)
(***************************************************************************)

\* load_stats: drops the rows whose Type is "Aggregated".
LoadStats(csv) == SelectSeq(csv, LAMBDA r : r.type # "Aggregated")

\* calculate_percentiles: plain means of the kept rows, min and max.
Percentiles(df) ==
  [avg |-> RatOver(ColumnRatSum(df, LAMBDA r : r.avg), Len(df)),
   min |-> ColumnMin(df, LAMBDA r : r.min),
   max |-> ColumnMax(df, LAMBDA r : r.max)]

\* calc_diff: "N/A" for a zero LocalStack value, otherwise "+" followed by
\* the formatted percentage, whose own sign is "-" when it is negative.
\* Only the signs of the text are kept.
CalcDiff(awsVal, lsVal) ==
  IF RatEq(lsVal, RatZero) THEN "N/A"
  ELSE << "+" >> \o (IF RatLess(awsVal, lsVal) THEN << "-" >> ELSE << >>)

-----------------------------------------------------------------------------
VARIABLES
  localRows,   \* the endpoint rows of the Local (LocalStack) test
  awsRows,     \* the endpoint rows of the AWS test
  simple,      \* what analyze_results_simple.py computed, or NoResult
  comparison   \* what analyze_locust_results.py computed, or NoResult

vars == << localRows, awsRows, simple, comparison >>

Init ==
  /\ localRows \in EndpointRowSeqs
  /\ awsRows \in EndpointRowSeqs
  /\ simple = NoResult
  /\ comparison = NoResult

\* analyze_results_simple.py on the two files: per-file summaries and the
\* interpretation of the comparison.
AnalyzeSimple ==
  LET local == FileSummary(LoadStatsFile(LocustCsv(localRows)))
      aws   == FileSummary(LoadStatsFile(LocustCsv(awsRows)))
  IN  /\ simple = NoResult
      /\ simple' = [local |-> local, aws |-> aws,
                    verdict |-> Interpretation(local, aws),
                    failVerdict |-> FailureInterpretation(local, aws)]
      /\ UNCHANGED << localRows, awsRows, comparison >>

\* generate_comparison_report on the two files: the figures of the latency
\* table and its Difference column; the Markdown text around them and the
\* estimated breakdown are left out.
AnalyzeLocust ==
  LET ls  == Percentiles(LoadStats(LocustCsv(localRows)))
      aws == Percentiles(LoadStats(LocustCsv(awsRows)))
  IN  /\ comparison = NoResult
      /\ comparison' = [ls |-> ls, aws |-> aws, avgDiff |-> CalcDiff(aws.avg, ls.avg)]
      /\ UNCHANGED << localRows, awsRows, simple >>

Next == AnalyzeSimple \/ AnalyzeLocust

Spec == Init /\ [][Next]_vars

-----------------------------------------------------------------------------
\* analyze_results_simple.py's figures for a file agree with the Aggregated
\* row Locust wrote into it (its average rounded as the script rounds):
\* the aggregated row is left out, so that nothing is counted twice, and
\* the request-weighted average over the endpoints is the average of all
\* the requests.
SimpleMatchesLocustAggregate ==
  simple # NoResult =>
    \A f \in {<< simple.local, localRows >>, << simple.aws, awsRows >>} :
      LET agg == AggregatedRow(f[2])
      IN  /\ f[1].requests = agg.count
          /\ f[1].failures = agg.failures
          /\ RatEq(f[1].avg, Round2(agg.avg))
          /\ f[1].max = agg.max

\* analyze_locust_results.py computes its statistics over the endpoint
\* rows only, as its comment says ("Filter out aggregated rows").
LocustStatsOverEndpoints ==
  comparison # NoResult =>
    /\ RatEq(comparison.ls.avg, Percentiles(localRows).avg)
    /\ RatEq(comparison.aws.avg, Percentiles(awsRows).avg)

\* Both scripts state the direction of the change from Local to AWS as
\* the averages have it: the Difference column of analyze_locust_results.py
\* shows a single sign, "-" when AWS is faster and "+" otherwise, and the
\* interpretation line of analyze_results_simple.py calls AWS "slower" only
\* when its average is above Local's and "faster" only when it is below.
DirectionStated ==
  /\ comparison # NoResult /\ comparison.avgDiff # "N/A" =>
       comparison.avgDiff = IF RatLess(comparison.aws.avg, comparison.ls.avg)
                              THEN << "-" >> ELSE << "+" >>
  /\ simple # NoResult =>
       /\ simple.verdict = "faster" => RatLess(simple.aws.avg, simple.local.avg)
       /\ simple.verdict = "slower" => RatLess(simple.local.avg, simple.aws.avg)

=============================================================================
