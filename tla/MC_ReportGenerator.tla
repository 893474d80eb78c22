------------------------ MODULE MC_ReportGenerator ------------------------
(***************************************************************************)
(* The report generator run up to three times over the same directory,    *)
(* each run free to fail at any step that touches the file system.        *)
(***************************************************************************)
EXTENDS ReportGenerator
=============================================================================
