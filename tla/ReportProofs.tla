--------------------------- MODULE ReportProofs ---------------------------
(***************************************************************************)
(* Proofs about ReportGenerator, for every number of runs: the report on  *)
(* disk never links a chart that is missing, and the report is written    *)
(* only beside charts that the same run wrote completely.                 *)
(***************************************************************************)
EXTENDS ReportGenerator, TLAPS

\* A chart written completely by the current run.
Fresh(f) == disk[f] = [run |-> run, complete |-> TRUE]

(***************************************************************************)
(* The inductive invariant.  Within a run, each chart step finds the      *)
(* charts of the steps before it fresh; no step removes a file; and the   *)
(* report, once on disk, has all its links on disk.                       *)
(***************************************************************************)
ChainInv ==
  /\ pc \in {"failures", "latency", "summary", "report"} => Fresh("hit_rate_comparison.png")
  /\ pc \in {"latency", "summary", "report"} => Fresh("failures_comparison.png")
  /\ pc \in {"summary", "report"} => Fresh("latency_comparison.png")
  /\ pc = "report" => Fresh("summary_comparison.png")

DiskType == disk \in [Files -> FileState \cup {NoFile}] /\ run \in Nat

IInv == DiskType /\ ChainInv /\ ReportLinksResolve

\* The facts of ReportAssumption the proofs use.
LEMMA NoFileNotAFile == NoFile \notin FileState
BY ReportAssumption

\* The step after each output.
LEMMA NextStepValues ==
  /\ NextStep("hit_rate") = "failures"
  /\ NextStep("failures") = "latency"
  /\ NextStep("latency") = "summary"
  /\ NextStep("summary") = "report"
  /\ NextStep("report") = "done"
<1>1. Len(Outputs) = 5
  BY DEF Outputs
<1>2. ASSUME NEW o \in Range(Outputs), NEW k \in 1..5, Outputs[k] = o
      PROVE  (CHOOSE i \in 1..Len(Outputs) : Outputs[i] = o) = k
  BY <1>1, <1>2 DEF Outputs
<1>. QED
  BY <1>1, <1>2 DEF NextStep, Outputs, Range

\* The links of the report, which are the chart files main writes.
LEMMA LinkFiles ==
  /\ ReportLinks = {OutputFile["hit_rate"], OutputFile["failures"],
                    OutputFile["latency"], OutputFile["summary"]}
  /\ OutputFile["report"] = "performance_report.md"
  /\ "performance_report.md" \notin ReportLinks
  /\ ReportLinks \subseteq Files
  /\ "performance_report.md" \in Files
BY DEF ReportLinks, OutputFile, Files, Range

LEMMA InitIInv == Init => IInv
<1> SUFFICES ASSUME Init PROVE IInv
  OBVIOUS
<1>1. DiskType
  BY DEF Init, DiskType
<1>2. ChainInv
  BY DEF Init, ChainInv
<1>3. ReportLinksResolve
  BY LinkFiles DEF Init, ReportLinksResolve, ReportOnDisk
<1>. QED
  BY <1>1, <1>2, <1>3 DEF IInv


\* A write puts a file state, never NoFile, under the name of its output:
\* what is on disk stays on disk, and the other files keep their state.
LEMMA WriteEffect ==
  ASSUME DiskType, NEW o \in Range(Outputs), NEW v \in FileState,
         disk' = [disk EXCEPT ![OutputFile[o]] = v]
  PROVE  /\ disk' \in [Files -> FileState \cup {NoFile}]
         /\ disk'[OutputFile[o]] = v
         /\ \A f \in Files : f # OutputFile[o] => disk'[f] = disk[f]
         /\ \A f \in Files : disk[f] # NoFile => disk'[f] # NoFile
<1>1. OutputFile[o] \in Files
  BY DEF OutputFile, Files, Range, Outputs
<1>. QED
  BY <1>1, NoFileNotAFile DEF DiskType

\* The successful write of output o keeps the invariant.
LEMMA WriteOutputIInv ==
  ASSUME IInv, NEW o \in Range(Outputs), WriteOutput(o)
  PROVE  IInv'
<1>0. /\ DiskType /\ ChainInv /\ ReportLinksResolve
      /\ pc = o /\ pc' = NextStep(o) /\ run' = run
      /\ [run |-> run, complete |-> TRUE] \in FileState
  BY DEF IInv, WriteOutput, DiskType, FileState
<1>1. /\ disk' \in [Files -> FileState \cup {NoFile}]
      /\ disk'[OutputFile[o]] = [run |-> run, complete |-> TRUE]
      /\ \A f \in Files : f # OutputFile[o] => disk'[f] = disk[f]
      /\ \A f \in Files : disk[f] # NoFile => disk'[f] # NoFile
  BY <1>0, WriteEffect DEF WriteOutput
<1>2. DiskType'
  BY <1>0, <1>1 DEF DiskType
<1>3. o \in {"hit_rate", "failures", "latency", "summary", "report"}
  BY DEF Outputs, Range
<1>4. ChainInv'
  <2>1. CASE o = "hit_rate"
    BY <1>0, <1>1, <2>1, NextStepValues DEF ChainInv, Fresh, OutputFile
  <2>2. CASE o = "failures"
    BY <1>0, <1>1, <2>2, NextStepValues, LinkFiles DEF ChainInv, Fresh, OutputFile
  <2>3. CASE o = "latency"
    BY <1>0, <1>1, <2>3, NextStepValues, LinkFiles DEF ChainInv, Fresh, OutputFile
  <2>4. CASE o = "summary"
    BY <1>0, <1>1, <2>4, NextStepValues, LinkFiles DEF ChainInv, Fresh, OutputFile
  <2>5. CASE o = "report"
    BY <1>0, <2>5, NextStepValues DEF ChainInv
  <2>. QED
    BY <1>3, <2>1, <2>2, <2>3, <2>4, <2>5
<1>5. ReportLinksResolve'
  <2>1. CASE o = "report"
    <3>1. \A f \in ReportLinks : disk[f] # NoFile
      BY <1>0, <2>1, NoFileNotAFile, LinkFiles DEF ChainInv, Fresh, OutputFile, FileState
    <3>. QED
      BY <1>1, <3>1, LinkFiles DEF ReportLinksResolve, ReportOnDisk
  <2>2. CASE o # "report"
    <3>1. OutputFile[o] # "performance_report.md"
      BY <1>3, <2>2 DEF OutputFile
    <3>. QED
      BY <1>0, <1>1, <3>1, LinkFiles DEF ReportLinksResolve, ReportOnDisk
  <2>. QED
    BY <2>1, <2>2
<1>. QED
  BY <1>2, <1>4, <1>5 DEF IInv


\* A failed write keeps the invariant: it ends the run, and what it may
\* leave behind is a truncated file, which is still on disk.
LEMMA WriteFailsIInv ==
  ASSUME IInv, NEW o \in Range(Outputs), WriteFails(o)
  PROVE  IInv'
<1>0. /\ DiskType /\ ChainInv /\ ReportLinksResolve
      /\ pc = o /\ pc' = "crashed" /\ run' = run
  BY DEF IInv, WriteFails
<1>1. ChainInv'
  BY <1>0 DEF ChainInv
<1>2. CASE UNCHANGED disk
  BY <1>0, <1>1, <1>2 DEF IInv, DiskType, ReportLinksResolve, ReportOnDisk
<1>3. CASE disk' = [disk EXCEPT ![OutputFile[o]] = [run |-> run, complete |-> FALSE]]
  <2>0. [run |-> run, complete |-> FALSE] \in FileState
    BY <1>0 DEF DiskType, FileState
  <2>1. /\ disk' \in [Files -> FileState \cup {NoFile}]
        /\ \A f \in Files : f # OutputFile[o] => disk'[f] = disk[f]
        /\ \A f \in Files : disk[f] # NoFile => disk'[f] # NoFile
    BY <1>0, <1>3, <2>0, WriteEffect
  <2>2. DiskType'
    BY <1>0, <2>1 DEF DiskType
  <2>3. ReportLinksResolve'
    <3>1. CASE o = "report"
      <4>0. [run |-> run, complete |-> TRUE] \in FileState
        BY <1>0 DEF DiskType, FileState
      <4>1. \A f \in ReportLinks : disk[f] # NoFile
        BY <1>0, <3>1, <4>0, NoFileNotAFile, LinkFiles DEF ChainInv, Fresh, OutputFile
      <4>. QED
        BY <2>1, <4>1, LinkFiles DEF ReportLinksResolve, ReportOnDisk
    <3>2. CASE o # "report"
      <4>1. OutputFile[o] # "performance_report.md"
        BY <3>2 DEF OutputFile, Outputs, Range
      <4>. QED
        BY <1>0, <2>1, <4>1, LinkFiles DEF ReportLinksResolve, ReportOnDisk
    <3>. QED
      BY <3>1, <3>2
  <2>. QED
    BY <1>1, <2>2, <2>3 DEF IInv
<1>. QED
  BY <1>2, <1>3 DEF WriteFails

LEMMA NextIInv == IInv /\ [Next]_vars => IInv'
<1> SUFFICES ASSUME IInv, [Next]_vars PROVE IInv'
  OBVIOUS
<1>1. CASE Launch
  BY <1>1 DEF Launch, IInv, DiskType, ChainInv, ReportLinksResolve, ReportOnDisk
<1>2. CASE MakeDirs
  BY <1>2 DEF MakeDirs, IInv, DiskType, ChainInv, ReportLinksResolve, ReportOnDisk
<1>3. CASE SetupStyle
  BY <1>3 DEF SetupStyle, Outputs, IInv, DiskType, ChainInv, ReportLinksResolve,
             ReportOnDisk
<1>4. ASSUME NEW o \in Range(Outputs), WriteOutput(o) \/ WriteFails(o)
      PROVE  IInv'
  BY <1>4, WriteOutputIInv, WriteFailsIInv
<1>5. CASE UNCHANGED vars
  BY <1>5 DEF vars, IInv, DiskType, ChainInv, Fresh, ReportLinksResolve, ReportOnDisk
<1>6. "hit_rate" \in Range(Outputs) /\ "failures" \in Range(Outputs)
      /\ "latency" \in Range(Outputs) /\ "summary" \in Range(Outputs)
      /\ "report" \in Range(Outputs)
  BY DEF Outputs, Range
<1>. QED
  BY <1>1, <1>2, <1>3, <1>4, <1>5, <1>6
     DEF Next, CreateHitRateChart, CreateFailuresChart, CreateLatencyChart,
         CreateSummaryChart, GenerateMarkdownReport

\* However many runs of generate-report.py crash, and after whichever of
\* their writes, the report in output_dir never embeds a chart that is
\* not there.
THEOREM LinksResolve == Spec => []ReportLinksResolve
<1>1. IInv => ReportLinksResolve
  BY DEF IInv
<1>. QED
  BY InitIInv, NextIInv, <1>1, PTL DEF Spec


\* Every step of main either leaves the report as it is, writes it
\* truncated, or writes it completely from pc = "report", where the chain
\* of the invariant finds the four charts fresh.
LEMMA StepFresh == IInv /\ [Next]_vars => [FreshReportStep]_vars
<1> SUFFICES ASSUME IInv, [Next]_vars PROVE [FreshReportStep]_vars
  OBVIOUS
<1>0. /\ DiskType /\ ChainInv
      /\ "hit_rate" \in Range(Outputs) /\ "failures" \in Range(Outputs)
      /\ "latency" \in Range(Outputs) /\ "summary" \in Range(Outputs)
      /\ "report" \in Range(Outputs)
  BY DEF IInv, Outputs, Range
<1>1. CASE UNCHANGED disk
  BY <1>1 DEF FreshReportStep
<1>3. CASE WriteOutput("report")
  BY <1>0, <1>3, LinkFiles DEF WriteOutput, ChainInv, Fresh, FreshReportStep, OutputFile
<1>4. CASE WriteFails("report")
  <2>1. CASE UNCHANGED disk
    BY <1>1, <2>1
  <2>2. CASE disk' = [disk EXCEPT ![OutputFile["report"]] = [run |-> run, complete |-> FALSE]]
    BY <1>0, <2>2, LinkFiles DEF FreshReportStep, DiskType
  <2>. QED
    BY <1>4, <2>1, <2>2 DEF WriteFails
<1>5. ASSUME NEW o \in Range(Outputs), o # "report", WriteOutput(o) \/ WriteFails(o)
      PROVE  FreshReportStep
  <2>0. OutputFile[o] # "performance_report.md" /\ OutputFile[o] \in Files
    BY <1>5 DEF OutputFile, Outputs, Range, Files
  <2>1. CASE WriteOutput(o)
    <3>1. disk' = [disk EXCEPT ![OutputFile[o]] = [run |-> run, complete |-> TRUE]]
      BY <2>1 DEF WriteOutput
    <3>. QED
      BY <1>0, <2>0, <3>1, LinkFiles DEF FreshReportStep, DiskType
  <2>2. CASE WriteFails(o) /\ UNCHANGED disk
    BY <2>2 DEF FreshReportStep
  <2>3. CASE WriteFails(o) /\ disk' = [disk EXCEPT ![OutputFile[o]] = [run |-> run, complete |-> FALSE]]
    BY <1>0, <2>0, <2>3, LinkFiles DEF FreshReportStep, DiskType
  <2>. QED
    BY <1>5, <2>1, <2>2, <2>3 DEF WriteFails
<1>. QED
  BY <1>0, <1>1, <1>3, <1>4, <1>5
     DEF Next, Launch, MakeDirs, SetupStyle, CreateHitRateChart, CreateFailuresChart,
         CreateLatencyChart, CreateSummaryChart, GenerateMarkdownReport, vars

\* A run of generate-report.py writes the report only beside charts that
\* the same run has just written completely, whatever earlier runs left.
THEOREM FreshCharts == Spec => ReportEmbedsFreshCharts
BY InitIInv, NextIInv, StepFresh, PTL DEF Spec, ReportEmbedsFreshCharts

=============================================================================
