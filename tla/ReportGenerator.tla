-------------------------- MODULE ReportGenerator --------------------------
(***************************************************************************)
(* src/scripts/generate-report.py: the comparison report of the churn     *)
(* experiment.  The experiment's figures are fixed in the script; from    *)
(* them it draws four charts and writes a Markdown report that embeds     *)
(* them, in that order, into one output directory.                        *)
(*                                                                         *)
(* The figures are kept exactly, in hundredths (percent or ms).  What the *)
(* charts and the report say is modelled by the facts a reader takes from *)
(* them: the ranking the summary chart labels, the ranking, observations  *)
(* and recommendation the report states, and the files the report links; *)
(* colours, fonts and layout are left out.  The run of main is a state    *)
(* machine: every step that touches the file system (makedirs, the style  *)
(* file, savefig, open/write) may raise, which ends the script; a write   *)
(* that fails after opening its file leaves it truncated.  The script may *)
(* be run again, up to MaxRuns times, over what earlier runs left.        *)
(***************************************************************************)
EXTENDS Naturals, Sequences, SequencesExt

CONSTANTS
  MaxRuns,   \* runs of the script in a behaviour
  NoFile     \* a file that is not on disk

\* What a file on disk is: the run that wrote it, and whether the write
\* completed.
FileState == [run : Nat, complete : BOOLEAN]

ASSUME ReportAssumption ==
  /\ MaxRuns \in Nat \ {0}
  /\ NoFile \notin FileState

\* The protocols, in the order of the dicts and of create_summary_chart.
Protocols == << "Simple Hash", "Chord", "Koorde" >>
Protocol == Range(Protocols)

\* failures: failed requests per phase.
Failures == [p \in Protocol |-> << 0, 0, 0 >>]

\* Mutant: the rows of Chord and Koorde entered the wrong way round.
HitRatesRowsSwapped ==
  [p \in Protocol |-> CASE p = "Simple Hash" -> << 1967, 1633, 2100 >>
                        [] p = "Chord"       -> << 3167, 4133, 3300 >>
                        [] p = "Koorde"      -> << 3333, 4667, 3467 >>]

\* hit_rates: hit rate per phase, in hundredths of a percent.
HitRates ==
  [p \in Protocol |-> CASE p = "Simple Hash" -> << 1967, 1633, 2100 >>
                        [] p = "Chord"       -> << 3333, 4667, 3467 >>
                        [] p = "Koorde"      -> << 3167, 4133, 3300 >>]

\* latency: phase-1 latencies in hundredths of a ms.
Latency ==
  [p \in Protocol |-> CASE p = "Simple Hash" -> [avg |-> 880, p50 |-> 802, p95 |-> 1326, p99 |-> 7252]
                        [] p = "Chord"       -> [avg |-> 691, p50 |-> 560, p95 |-> 1250, p99 |-> 4139]
                        [] p = "Koorde"      -> [avg |-> 747, p50 |-> 574, p95 |-> 1421, p99 |-> 4752]]

-----------------------------------------------------------------------------
(***************************************************************************)
(* The scores of create_summary_chart.  np.mean over the three phases is  *)
(* kept as the sum over three, and the score as 300 times its value, so   *)
(* that everything is an exact integer with the same order.               *)
(***************************************************************************)

\* 3 * np.mean(hit_rates[p]).
HitSum(p) == HitRates[p][1] + HitRates[p][2] + HitRates[p][3]

\* Mutant: the latency score taken as the P99 itself, higher for slower.
LatencyScoreInverted(p) == Latency[p].p99

\* max(0, 100 - p99): 100 for 0 ms, 0 for 100 ms or more.
LatencyScore(p) == IF Latency[p].p99 < 10000 THEN 10000 - Latency[p].p99 ELSE 0

\* 300 * (0.60 * avg_hit_rate + 0.40 * latency_score).
Efficiency(p) == 60 * HitSum(p) + 120 * LatencyScore(p)

\* sorted(..., key=score): ascending and stable, so equal scores keep the
\* order of Protocols.
Before(a, b) ==
  \/ Efficiency(a) < Efficiency(b)
  \/ Efficiency(a) = Efficiency(b) /\ SelectInSeq(Protocols, LAMBDA x : x = a) < SelectInSeq(Protocols, LAMBDA x : x = b)
SortedProtocols == SortSeq(Protocols, Before)

\* The rank the label of the i-th bar from the bottom announces:
\* "#3 WORST", "#2", "#1 BEST".
RankLabel(i) == IF i = 1 THEN 3 ELSE IF i = 2 THEN 2 ELSE 1

\* What the ranking panel of the summary chart tells: the protocol given
\* each announced rank.
ChartRanking == [k \in 1..3 |-> SortedProtocols[CHOOSE i \in 1..3 : RankLabel(i) = k]]

-----------------------------------------------------------------------------
(***************************************************************************)
(* What generate_markdown_report writes that depends on no figure: the    *)
(* text is literal, the figures are filled in from the data.              *)
(***************************************************************************)

\* The FINAL RANKING table, first to third.
ReportRanking == << "Chord", "Koorde", "Simple Hash" >>

\* The claims of "Key Observations", "Request Failures" and the observed
\* behaviour table.
ReportClaims ==
  [lowestEveryPhase |-> "Simple Hash", highestAverage |-> "Chord",
   upInPhase2 |-> {"Chord", "Koorde"}, downInPhase2 |-> {"Simple Hash"},
   failures |-> 0]

\* The "Latency-critical systems" row of the final recommendation.
LatencyPick == "Koorde"

\* The chart files the report embeds with ![...](name).
ReportLinks ==
  {"hit_rate_comparison.png", "failures_comparison.png",
   "latency_comparison.png", "summary_comparison.png"}

-----------------------------------------------------------------------------
(***************************************************************************)
(* main.                                                                   *)
(***************************************************************************)

\* Mutant: create_latency_chart saves under another name.
OutputFileRenamed ==
  [o \in {"hit_rate", "failures", "latency", "summary", "report"} |->
     CASE o = "hit_rate" -> "hit_rate_comparison.png"
       [] o = "failures" -> "failures_comparison.png"
       [] o = "latency"  -> "latency_chart.png"
       [] o = "summary"  -> "summary_comparison.png"
       [] o = "report"   -> "performance_report.md"]

\* The file each output step writes into output_dir.
OutputFile ==
  [o \in {"hit_rate", "failures", "latency", "summary", "report"} |->
     CASE o = "hit_rate" -> "hit_rate_comparison.png"
       [] o = "failures" -> "failures_comparison.png"
       [] o = "latency"  -> "latency_comparison.png"
       [] o = "summary"  -> "summary_comparison.png"
       [] o = "report"   -> "performance_report.md"]

\* The files of output_dir the model follows: those main writes and those
\* the report links.
Files == Range(OutputFile) \cup ReportLinks

\* The output steps of main, in order.
Outputs == << "hit_rate", "failures", "latency", "summary", "report" >>

\* The step after output o.
NextStep(o) ==
  LET i == CHOOSE i \in 1..Len(Outputs) : Outputs[i] = o
  IN  IF i < Len(Outputs) THEN Outputs[i + 1] ELSE "done"

VARIABLES
  pc,     \* the next step of main, "done", "crashed", or "idle" before a run
  run,    \* runs started so far
  disk    \* disk[f]: NoFile, or the run that wrote f and whether completely

vars == << pc, run, disk >>

Init ==
  /\ pc = "idle"
  /\ run = 0
  /\ disk = [f \in Files |-> NoFile]

\* python3 generate-report.py, once more.
Launch ==
  /\ pc \in {"idle", "done", "crashed"}
  /\ run < MaxRuns
  /\ pc' = "makedirs"
  /\ run' = run + 1
  /\ UNCHANGED disk

\* os.makedirs(output_dir, exist_ok=True): an existing directory is no
\* error, another OSError ends the script.
MakeDirs ==
  /\ pc = "makedirs"
  /\ pc' \in {"style", "crashed"}
  /\ UNCHANGED << run, disk >>

\* setup_style: plt.style.use raises when the style is not installed.
SetupStyle ==
  /\ pc = "style"
  /\ pc' \in {Outputs[1], "crashed"}
  /\ UNCHANGED << run, disk >>

\* Mutant: a chart already in output_dir is kept, not drawn again.
WriteOutputSkipExisting(o) ==
  /\ pc = o
  /\ IF o # "report" /\ disk[OutputFile[o]] # NoFile
       THEN UNCHANGED disk
       ELSE disk' = [disk EXCEPT ![OutputFile[o]] = [run |-> run, complete |-> TRUE]]
  /\ pc' = NextStep(o)
  /\ UNCHANGED run

\* The output step o succeeds: its savefig, or generate_markdown_report's
\* open and write, leaves in the file this run's output.
WriteOutput(o) ==
  /\ pc = o
  /\ disk' = [disk EXCEPT ![OutputFile[o]] = [run |-> run, complete |-> TRUE]]
  /\ pc' = NextStep(o)
  /\ UNCHANGED run

\* The write raises: before the file is opened nothing changes, after it
\* the file is left truncated; the exception ends the script.
WriteFails(o) ==
  /\ pc = o
  /\ \/ UNCHANGED disk
     \/ disk' = [disk EXCEPT ![OutputFile[o]] = [run |-> run, complete |-> FALSE]]
  /\ pc' = "crashed"
  /\ UNCHANGED run

\* The functions of the script that write a file: everything before the
\* write only builds the figure or the text.
CreateHitRateChart == WriteOutput("hit_rate") \/ WriteFails("hit_rate")
CreateFailuresChart == WriteOutput("failures") \/ WriteFails("failures")
CreateLatencyChart == WriteOutput("latency") \/ WriteFails("latency")
CreateSummaryChart == WriteOutput("summary") \/ WriteFails("summary")
GenerateMarkdownReport == WriteOutput("report") \/ WriteFails("report")

Next ==
  \/ Launch
  \/ MakeDirs
  \/ SetupStyle
  \/ CreateHitRateChart
  \/ CreateFailuresChart
  \/ CreateLatencyChart
  \/ CreateSummaryChart
  \/ GenerateMarkdownReport

Spec == Init /\ [][Next]_vars

-----------------------------------------------------------------------------
\* The report is in output_dir.
ReportOnDisk == disk["performance_report.md"] # NoFile

\* Every image the report on disk embeds is a file in the output
\* directory, however many runs of main crashed after any of its writes.
ReportLinksResolve ==
  ReportOnDisk => \A f \in ReportLinks : disk[f] # NoFile

\* A step that writes the report completely finds every chart the report
\* embeds written, completely, by the same run.
FreshReportStep ==
  disk'["performance_report.md"] # disk["performance_report.md"]
  /\ disk'["performance_report.md"].complete =>
    \A f \in ReportLinks : disk[f] = [run |-> run, complete |-> TRUE]

\* When main writes the report, every chart the report embeds has been
\* written, completely, by the same run: the report never goes out beside
\* a chart of an earlier run or a truncated one.
ReportEmbedsFreshCharts == [][FreshReportStep]_vars

\* The FINAL RANKING table of the report ranks the protocols as the
\* summary chart's labels do, and that is the order of the efficiency
\* score the chart computes from the figures (best first).
ReportRankingMatchesScores ==
  ReportOnDisk =>
    \A k \in 1..3 :
      /\ ReportRanking[k] = ChartRanking[k]
      /\ k < 3 => Efficiency(ReportRanking[k]) > Efficiency(ReportRanking[k + 1])

\* The observations the report states as fact agree with the figures it
\* was written from: Simple Hash lowest in every phase, Chord highest on
\* average, Chord and Koorde up and Simple Hash down from phase 1 to
\* phase 2, no failure anywhere, and the average hit rates of the ranking
\* table in descending order.
ObservationsMatchData ==
  ReportOnDisk =>
    /\ \A p \in Protocol \ {ReportClaims.lowestEveryPhase}, i \in 1..3 :
         HitRates[ReportClaims.lowestEveryPhase][i] < HitRates[p][i]
    /\ \A p \in Protocol \ {ReportClaims.highestAverage} :
         HitSum(p) < HitSum(ReportClaims.highestAverage)
    /\ \A p \in ReportClaims.upInPhase2 : HitRates[p][2] > HitRates[p][1]
    /\ \A p \in ReportClaims.downInPhase2 : HitRates[p][2] < HitRates[p][1]
    /\ \A p \in Protocol, i \in 1..3 : Failures[p][i] = ReportClaims.failures
    /\ \A k \in 1..2 : HitSum(ReportRanking[k]) > HitSum(ReportRanking[k + 1])

\* The protocol the report recommends for latency-critical systems, for
\* its "slightly lower latency", has the lowest latency of the three, at
\* the average and at the tail (P99).
LatencyRecommendationMatchesData ==
  ReportOnDisk =>
    \A p \in Protocol \ {LatencyPick} :
      /\ Latency[LatencyPick].avg < Latency[p].avg
      /\ Latency[LatencyPick].p99 < Latency[p].p99

=============================================================================
