---------------------------- MODULE RoutingCheck ----------------------------
(***************************************************************************)
(* What test_routing promises, stated without the ring, the hashing or     *)
(* the HTTP requests: the URLs of its list are judged one at a time, in   *)
(* list order, each exactly once and never revised; a URL whose answer    *)
(* named a node is judged MATCH exactly when that node is the owner the   *)
(* script predicted for it; and the SUMMARY, printed only once every URL  *)
(* has been judged, gives the number of MATCH verdicts over the number of *)
(* URLs compared.  The script may also die (an exception outside its try *)
(* block) before the summary.                                             *)
(*                                                                         *)
(* A verdict is a record: its status, the node the answer named (NoOwner  *)
(* when there was none) and the node predicted.  VerifyRouting implements *)
(* this specification (VerifyRouting!Check).                              *)
(***************************************************************************)
EXTENDS Naturals, FiniteSets

CONSTANTS
  UrlCount,   \* the length of the URL list
  NoOwner     \* the answer of a URL whose response named no node

VARIABLES
  verdict,    \* verdict[u]: what was concluded about URL u
  phase,      \* "running", "done" (summary printed) or "crashed"
  summary     \* << matches, compared >> once printed, << >> before

chvars == << verdict, phase, summary >>

UrlIdx == 1..UrlCount

Judged(u)   == verdict[u].status # "pending"
Compared(u) == verdict[u].status \in {"match", "mismatch"}

\* URL u is the first one not judged yet.
NextUrl(u) == ~Judged(u) /\ \A w \in 1..(u - 1) : Judged(w)

\* A verdict on a URL whose answer named a node is MATCH exactly when that
\* node is the predicted one.
Faithful(v) ==
  v.status \in {"match", "mismatch"} /\ v.answer # NoOwner =>
     (v.status = "match" <=> v.answer = v.predicted)

Init ==
  /\ DOMAIN verdict = UrlIdx
  /\ \A u \in UrlIdx : ~Judged(u)
  /\ phase = "running"
  /\ summary = << >>

\* The next URL is requested and judged: not verified (the request
\* failed), or compared with the predicted owner.
Judge(u) ==
  /\ phase = "running"
  /\ NextUrl(u)
  /\ verdict'[u].status \in {"match", "mismatch", "unverifiable"}
  /\ Faithful(verdict'[u])
  /\ verdict' = [verdict EXCEPT ![u] = verdict'[u]]
  /\ UNCHANGED << phase, summary >>

\* Every URL judged, the SUMMARY line counts the verdicts.
Finish ==
  /\ phase = "running"
  /\ \A u \in UrlIdx : Judged(u)
  /\ phase' = "done"
  /\ summary' = << Cardinality({u \in UrlIdx : verdict[u].status = "match"}),
                   Cardinality({u \in UrlIdx : Compared(u)}) >>
  /\ UNCHANGED verdict

\* An uncaught exception ends the script.
Crash ==
  /\ phase = "running"
  /\ phase' = "crashed"
  /\ UNCHANGED << verdict, summary >>

Next == (\E u \in UrlIdx : Judge(u)) \/ Finish \/ Crash

Spec == Init /\ [][Next]_chvars

=============================================================================
