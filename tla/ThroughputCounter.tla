------------------------- MODULE ThroughputCounter -------------------------
(***************************************************************************)
(* What one Locust process of the ECS throughput test promises, stated    *)
(* without greenlets, Stats objects or the other processes: between a     *)
(* test_start and a test_stop on the process it counts the responses its  *)
(* users receive by outcome, and at the test_stop it prints the result of *)
(* exactly those responses.  The result is derived here from the outcome *)
(* counts alone: the requests are the responses of every outcome, the     *)
(* hit rate is the share of hits among the 200 responses (hits and        *)
(* misses), rounded to hundredths of a percent by Share.                  *)
(*                                                                         *)
(* ThroughputTest implements this specification once for every process   *)
(* (ThroughputTest!Counter(p)).                                            *)
(***************************************************************************)
EXTENDS Naturals

CONSTANTS
  NoReport,     \* what the process has printed before its first test_stop
  Share(_, _)   \* Share(n, d): n / d rounded to an integer

VARIABLES
  phase,     \* "ready" before the first test, "running" or "stopped"
  received,  \* received[o]: responses of outcome o in the current run
  printed    \* the result printed at the last test_stop

cvars == << phase, received, printed >>

\* The outcomes cache_request tells apart.
Outcomes == {"hits", "misses", "errors"}

\* No response yet.
NoneReceived == [o \in Outcomes |-> 0]

\* The result of a run in which the responses r were received.
RunResult(r) ==
  LET ok == r["hits"] + r["misses"]
  IN  [requests |-> ok + r["errors"],
       hits     |-> r["hits"],
       misses   |-> r["misses"],
       errors   |-> r["errors"],
       hitRate  |-> IF ok > 0 THEN Share(r["hits"] * 10000, ok) ELSE 0]

Init ==
  /\ phase = "ready"
  /\ received = NoneReceived
  /\ printed = NoReport

\* test_start: the process starts counting from nothing.
Start ==
  /\ phase \in {"ready", "stopped"}
  /\ phase' = "running"
  /\ received' = NoneReceived
  /\ UNCHANGED printed

\* A user of the process receives a response of outcome o.
Receive(o) ==
  /\ phase = "running"
  /\ received' = [received EXCEPT ![o] = @ + 1]
  /\ UNCHANGED << phase, printed >>

\* test_stop: the result of the run is printed, and the run is over.
Stop ==
  /\ phase = "running"
  /\ phase' = "stopped"
  /\ printed' = RunResult(received)
  /\ received' = NoneReceived

Next == Start \/ (\E o \in Outcomes : Receive(o)) \/ Stop

Spec == Init /\ [][Next]_cvars

=============================================================================
