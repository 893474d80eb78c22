------------------------- MODULE ThroughputProofs -------------------------
(***************************************************************************)
(* Proofs about ThroughputTest, for every set of processes and users, every *)
(* placement of the users and every bound: the type invariant, and that    *)
(* once a test is over every process that took part in it has printed     *)
(* exactly the responses of its own users during that test.               *)
(***************************************************************************)
EXTENDS ThroughputTest, TLAPS

-----------------------------------------------------------------------------
(***************************************************************************)
(* Helpers.                                                                *)
(***************************************************************************)

\* The facts of ThroughputAssumption the proofs use: every user runs in
\* one of the processes, the Runner is no worker, the bounds are numbers.
LEMMA Constants ==
  /\ Host \in [Users -> Procs]
  /\ Runner \notin Workers
  /\ MaxRequests \in Nat /\ MaxTests \in Nat
<1>1. Host \in [Users -> IF Workers = {} THEN {Runner} ELSE Workers]
  BY ThroughputAssumption, Zenon
<1>2. (IF Workers = {} THEN {Runner} ELSE Workers) \subseteq Procs
  BY DEF Procs
<1>. QED
  BY <1>1, <1>2, ThroughputAssumption, Zenon

\* Every user runs in one of the processes.
LEMMA HostInProcs ==
  ASSUME NEW u \in Users
  PROVE  Host[u] \in Procs
BY Constants

\* Recording an outcome keeps a Stats object a Stats object.
LEMMA RecordType ==
  ASSUME NEW s \in Counters, NEW f \in {"hits", "misses", "errors"}
  PROVE  Record(s, f) \in Counters
BY DEF Record, Counters

\* on_stop's result of a Stats object is a result; the rounding of the
\* hit rate stays in Nat.
LEMMA OnStopResultType ==
  ASSUME NEW s \in Counters
  PROVE  OnStopResult(s) \in Results
<1>1. ASSUME NEW n \in Nat, NEW d \in Nat \ {0}
      PROVE  RoundDiv(n, d) \in Nat
  BY <1>1 DEF RoundDiv
<1>2. HitRate(s) \in Nat
  BY <1>1 DEF HitRate, Counters
<1>. QED
  BY <1>2 DEF OnStopResult, Counters, Results

\* The counter cache_request bumps is one of the three outcome counters.
LEMMA CodeOutcomeField ==
  ASSUME NEW status, NEW hdr
  PROVE  CodeOutcome(status, hdr) \in {"hits", "misses", "errors"}
BY DEF CodeOutcome

\* Under the cache's X-Cache contract the counter cache_request bumps is
\* the one of the response's true outcome.
LEMMA OutcomeAgrees ==
  ASSUME NEW status, NEW cached \in BOOLEAN, NEW hdr \in XCache[cached]
  PROVE  CodeOutcome(status, hdr) = TrueOutcome(status, cached)
<1>1. IsHitHeader(hdr) <=> cached
  BY XCacheContract
<1>. QED
  BY <1>1 DEF CodeOutcome, TrueOutcome

-----------------------------------------------------------------------------
(***************************************************************************)
(* Type correctness.                                                       *)
(***************************************************************************)

LEMMA InitTypeOK == Init => TypeOK
BY Constants DEF Init, TypeOK, ZeroStats, Counters

LEMMA NextTypeOK == TypeOK /\ [Next]_vars => TypeOK'
<1> SUFFICES ASSUME TypeOK, [Next]_vars PROVE TypeOK'
  OBVIOUS
<1>1. CASE StartTest
  BY <1>1, Constants DEF StartTest, TypeOK, ZeroStats, Counters, Procs
<1>2. ASSUME NEW w \in Workers, WorkerStart(w)
      PROVE  TypeOK'
  BY <1>2 DEF WorkerStart, TypeOK, ZeroStats, Counters, Procs
<1>3. ASSUME NEW w \in Workers, WorkerStop(w)
      PROVE  TypeOK'
  <2>1. OnStopResult(stats[w]) \in Results
    BY OnStopResultType DEF TypeOK, Procs
  <2>. QED
    BY <1>3, <2>1 DEF WorkerStop, KillUsers, TypeOK, Procs
<1>4. ASSUME NEW u \in Users, SendRequest(u)
      PROVE  TypeOK'
  BY <1>4, Constants DEF SendRequest, TypeOK
<1>5. ASSUME NEW u \in Users, NEW status \in Statuses, NEW cached \in BOOLEAN,
             NEW hdr \in XCache[cached], Respond(u, status, cached, hdr)
      PROVE  TypeOK'
  <2>1. Host[u] \in Procs
    BY HostInProcs
  <2>2. Record(stats[Host[u]], CodeOutcome(status, hdr)) \in Counters
    BY <2>1, RecordType, CodeOutcomeField DEF TypeOK
  <2>3. TrueOutcome(status, cached) \in {"hits", "misses", "errors"}
    BY DEF TrueOutcome
  <2>4. Record(tally[Host[u]], TrueOutcome(status, cached)) \in Counters
    BY <2>1, <2>3, RecordType DEF TypeOK
  <2>. QED
    BY <1>5, <2>1, <2>2, <2>4 DEF Respond, TypeOK
<1>6. CASE StopTest
  BY <1>6 DEF StopTest, KillUsers, TypeOK, Procs
<1>7. CASE RunnerStopped
  <2>1. OnStopResult(stats[Runner]) \in Results
    BY OnStopResultType DEF TypeOK, Procs
  <2>. QED
    BY <1>7, <2>1 DEF RunnerStopped, TypeOK, Procs
<1>8. CASE UNCHANGED vars
  BY <1>8 DEF vars, TypeOK
<1>. QED
  BY <1>1, <1>2, <1>3, <1>4, <1>5, <1>6, <1>7, <1>8 DEF Next

\* ThroughputTest's state keeps its type in every step Locust and the
\* locustfile can take: Stats objects, results and user states.
THEOREM TypeCorrect == Spec => []TypeOK
BY InitTypeOK, NextTypeOK, PTL DEF Spec

-----------------------------------------------------------------------------
(***************************************************************************)
(* Each process reports its own users.                                    *)
(*                                                                         *)
(* ProcessReportsOwnUsers is not inductive: it speaks only of the state   *)
(* once the test is over.  The strengthening says what holds of every     *)
(* process p all along:                                                    *)
(*  - while p runs users (or, for the Runner, is stopping), its Stats      *)
(*    equal the true outcomes its users received in the current test;    *)
(*  - once p has stopped in the current test, its printed result is that  *)
(*    of those outcomes, and the Runner is no longer running (so p cannot *)
(*    be started again in this test);                                    *)
(*  - a process that has not taken part in the current test has had no   *)
(*    response in it;                                                     *)
(*  - only the Runner passes through "stopping", a process still "ready" *)
(*    has never taken part, and no process has taken part in a later     *)
(*    test than the current one;                                          *)
(* and of every user: a request is in flight only while its process runs. *)
(***************************************************************************)
ProcInv(p) ==
  /\ epoch[p] <= tests
  /\ state[p] = "ready" => epoch[p] = 0
  /\ state[p] = "stopping" => p = Runner
  /\ state[p] \in {"running", "stopping"} => epoch[p] = tests /\ stats[p] = tally[p]
  /\ state[p] = "stopped" /\ epoch[p] = tests =>
        /\ report[p] = OnStopResult(tally[p])
        /\ state[Runner] # "running"
  /\ epoch[p] # tests => tally[p] = ZeroStats

InflightOnRunning ==
  \A u \in Users : upc[u] = "inflight" => state[Host[u]] = "running"

\* Once started, the Runner took part in the current test.
RunnerCurrent ==
  state[Runner] # "ready" => tests > 0 /\ epoch[Runner] = tests

IInv ==
  /\ TypeOK
  /\ InflightOnRunning
  /\ RunnerCurrent
  /\ \A p \in Procs : ProcInv(p)

LEMMA InitIInv == Init => IInv
<1> SUFFICES ASSUME Init PROVE IInv
  OBVIOUS
<1>1. TypeOK
  BY InitTypeOK
<1>2. InflightOnRunning
  BY DEF Init, InflightOnRunning
<1>3. RunnerCurrent
  BY DEF Init, RunnerCurrent, Procs
<1>4. ASSUME NEW p \in Procs PROVE ProcInv(p)
  BY DEF Init, ProcInv
<1>. QED
  BY <1>1, <1>2, <1>3, <1>4 DEF IInv


LEMMA NextIInv == IInv /\ [Next]_vars => IInv'
<1> SUFFICES ASSUME IInv, [Next]_vars PROVE IInv'
  OBVIOUS
<1>0. /\ TypeOK /\ InflightOnRunning /\ RunnerCurrent
      /\ \A p \in Procs : ProcInv(p)
      /\ TypeOK'
      /\ Host \in [Users -> Procs] /\ Runner \in Procs /\ Runner \notin Workers
  BY NextTypeOK, Constants DEF IInv, Procs
<1>1. CASE StartTest
  <2>1. InflightOnRunning'
    BY <1>0, <1>1 DEF StartTest, InflightOnRunning
  <2>2. RunnerCurrent'
    BY <1>0, <1>1 DEF StartTest, RunnerCurrent, TypeOK
  <2>3. ASSUME NEW p \in Procs PROVE ProcInv(p)'
    <3>1. CASE p = Runner
      BY <1>0, <1>1, <3>1 DEF StartTest, ProcInv, TypeOK
    <3>2. CASE p # Runner
      <4>1. p \in Workers /\ state[p] # "running" /\ state[p] # "stopping"
        BY <1>0, <1>1, <3>2 DEF StartTest, ProcInv, Procs
      <4>. QED
        BY <1>0, <1>1, <3>2, <4>1 DEF StartTest, ProcInv, TypeOK
    <3>. QED
      BY <3>1, <3>2
  <2>. QED
    BY <1>0, <2>1, <2>2, <2>3 DEF IInv
<1>2. ASSUME NEW w \in Workers, WorkerStart(w)
      PROVE  IInv'
  <2>1. epoch[w] # tests
    BY <1>0, <1>2 DEF WorkerStart, RunnerCurrent, ProcInv, TypeOK, Procs
  <2>2. InflightOnRunning'
    BY <1>0, <1>2 DEF WorkerStart, InflightOnRunning
  <2>3. RunnerCurrent'
    BY <1>0, <1>2 DEF WorkerStart, RunnerCurrent
  <2>4. ASSUME NEW p \in Procs PROVE ProcInv(p)'
    BY <1>0, <1>2, <2>1 DEF WorkerStart, ProcInv, TypeOK, Procs
  <2>. QED
    BY <1>0, <2>2, <2>3, <2>4 DEF IInv
<1>3. ASSUME NEW w \in Workers, WorkerStop(w)
      PROVE  IInv'
  <2>1. InflightOnRunning'
    BY <1>0, <1>3 DEF WorkerStop, KillUsers, InflightOnRunning
  <2>2. RunnerCurrent'
    BY <1>0, <1>3 DEF WorkerStop, RunnerCurrent
  <2>3. ASSUME NEW p \in Procs PROVE ProcInv(p)'
    BY <1>0, <1>3 DEF WorkerStop, ProcInv, TypeOK, Procs
  <2>. QED
    BY <1>0, <2>1, <2>2, <2>3 DEF IInv
<1>4. ASSUME NEW u \in Users, SendRequest(u)
      PROVE  IInv'
  BY <1>0, <1>4 DEF SendRequest, IInv, InflightOnRunning, RunnerCurrent, ProcInv
<1>5. ASSUME NEW u \in Users, NEW status \in Statuses, NEW cached \in BOOLEAN,
             NEW hdr \in XCache[cached], Respond(u, status, cached, hdr)
      PROVE  IInv'
  <2> DEFINE h == Host[u]
  <2>1. h \in Procs /\ state[h] = "running"
    BY <1>0, <1>5 DEF Respond, InflightOnRunning
  <2>2. epoch[h] = tests /\ stats[h] = tally[h]
    BY <1>0, <2>1 DEF ProcInv
  <2>3. CodeOutcome(status, hdr) = TrueOutcome(status, cached)
    BY OutcomeAgrees
  <2>4. stats'[h] = tally'[h]
    BY <1>0, <1>5, <2>1, <2>2, <2>3 DEF Respond, TypeOK
  <2>5. InflightOnRunning'
    BY <1>0, <1>5 DEF Respond, InflightOnRunning
  <2>6. RunnerCurrent'
    BY <1>0, <1>5 DEF Respond, RunnerCurrent
  <2>7. ASSUME NEW p \in Procs PROVE ProcInv(p)'
    <3>1. CASE p = h
      BY <1>0, <1>5, <2>1, <2>2, <2>4, <3>1 DEF Respond, ProcInv, TypeOK
    <3>2. CASE p # h
      BY <1>0, <1>5, <3>2 DEF Respond, ProcInv, TypeOK
    <3>. QED
      BY <3>1, <3>2
  <2>. QED
    BY <1>0, <2>5, <2>6, <2>7 DEF IInv
<1>6. CASE StopTest
  <2>1. InflightOnRunning'
    BY <1>0, <1>6 DEF StopTest, KillUsers, InflightOnRunning
  <2>2. RunnerCurrent'
    BY <1>0, <1>6 DEF StopTest, RunnerCurrent
  <2>3. ASSUME NEW p \in Procs PROVE ProcInv(p)'
    BY <1>0, <1>6 DEF StopTest, ProcInv, TypeOK
  <2>. QED
    BY <1>0, <2>1, <2>2, <2>3 DEF IInv
<1>7. CASE RunnerStopped
  <2>1. InflightOnRunning'
    BY <1>0, <1>7 DEF RunnerStopped, InflightOnRunning
  <2>2. RunnerCurrent'
    BY <1>0, <1>7 DEF RunnerStopped, RunnerCurrent
  <2>3. ASSUME NEW p \in Procs PROVE ProcInv(p)'
    BY <1>0, <1>7 DEF RunnerStopped, ProcInv, TypeOK
  <2>. QED
    BY <1>0, <2>1, <2>2, <2>3 DEF IInv
<1>8. CASE UNCHANGED vars
  BY <1>0, <1>8 DEF vars, IInv, InflightOnRunning, RunnerCurrent, ProcInv
<1>. QED
  BY <1>1, <1>2, <1>3, <1>4, <1>5, <1>6, <1>7, <1>8 DEF Next

\* The strengthening gives the property: when the test is over, a process
\* that took part in it is neither ready nor running nor stopping, so it
\* has stopped in this test and printed its own users' outcomes.
LEMMA IInvOwnReports == IInv => ProcessReportsOwnUsers
<1> SUFFICES ASSUME IInv, Over, tests > 0, NEW p \in Procs, epoch[p] = tests
             PROVE  report[p] = OnStopResult(tally[p])
  BY DEF ProcessReportsOwnUsers
<1>1. state[p] = "stopped"
  BY DEF IInv, ProcInv, Over, TypeOK, Procs
<1>. QED
  BY <1>1 DEF IInv, ProcInv

\* on_stop's THROUGHPUT RESULTS, in every process that took part in a test,
\* are those of its own users' responses during that test, for any number
\* of workers, users, requests and tests.
THEOREM OwnReports == Spec => []ProcessReportsOwnUsers
BY InitIInv, NextIInv, IInvOwnReports, PTL DEF Spec

=============================================================================
