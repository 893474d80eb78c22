-------------------------- MODULE MC_LocustAnalysis --------------------------
(***************************************************************************)
(* LocustAnalysis for TLC: two endpoint names, request counts 1 and 3,    *)
(* averages 2 and 5 ms, one or two rows per file.  Counts that differ     *)
(* make the request-weighted mean differ from the plain mean; equal and   *)
(* unequal averages across the files give ties, increases and decreases. *)
(***************************************************************************)
EXTENDS LocustAnalysis

MCEndpoints == {"/cache", "/health"}

=============================================================================
