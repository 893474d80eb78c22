----------------------- MODULE ThroughputRefinement -----------------------
(***************************************************************************)
(* Proof that ThroughputTest implements ThroughputCounter for every        *)
(* process, under the mapping of ThroughputTest!Counter(p), for every set  *)
(* of workers and users, every placement of the users and every bound.    *)
(*                                                                         *)
(* The invariant IInv of ThroughputProofs gives most of what a step needs: *)
(* a process that runs users (or, the Runner, is stopping) has Stats equal *)
(* to its users' true outcomes, a response arrives only at a running     *)
(* process, and a worker that starts has had no response in the test.    *)
(* What the mapping adds is the requests counter: on_stop prints          *)
(* stats.requests where the abstract result has the sum of the outcomes,  *)
(* so CountsAdd records that every record_* bumps requests with exactly   *)
(* one outcome counter.                                                   *)
(***************************************************************************)
EXTENDS ThroughputProofs

\* total_requests is the sum of hits, misses and errors.
CountsAdd ==
  \A p \in Procs : tally[p].requests = tally[p].hits + tally[p].misses + tally[p].errors

RInv == IInv /\ CountsAdd

-----------------------------------------------------------------------------
(***************************************************************************)
(* The mapping of one process.                                             *)
(***************************************************************************)

\* The outcome counters of a Stats object, as the abstract counter holds
\* them.
ByOutcome(s) == [o \in {"hits", "misses", "errors"} |-> s[o]]

\* on_stop prints, for Stats whose requests add up, the result the
\* abstract counter derives from the outcome counts alone.
LEMMA ResultAgrees ==
  ASSUME NEW p, NEW s \in Counters, s.requests = s.hits + s.misses + s.errors
  PROVE  OnStopResult(s) = Counter(p)!RunResult(ByOutcome(s))
BY DEF OnStopResult, HitRate, Counter!RunResult, ByOutcome, Counters

\* record_hit / record_miss / record_error bump the outcome counter the
\* abstract counter bumps, and keep the requests adding up.
LEMMA RecordAgrees ==
  ASSUME NEW s \in Counters, NEW o \in {"hits", "misses", "errors"}
  PROVE  /\ ByOutcome(Record(s, o)) = [ByOutcome(s) EXCEPT ![o] = @ + 1]
         /\ s.requests = s.hits + s.misses + s.errors =>
               Record(s, o).requests =
                 Record(s, o).hits + Record(s, o).misses + Record(s, o).errors
<1>1. Record(s, o) = [requests |-> s.requests + 1,
                      hits     |-> IF o = "hits" THEN s.hits + 1 ELSE s.hits,
                      misses   |-> IF o = "misses" THEN s.misses + 1 ELSE s.misses,
                      errors   |-> IF o = "errors" THEN s.errors + 1 ELSE s.errors]
  BY DEF Record, Counters
<1>2. ASSUME NEW f \in {"hits", "misses", "errors"}
      PROVE  Record(s, o)[f] = IF f = o THEN s[f] + 1 ELSE s[f]
  BY <1>1
<1>3. ByOutcome(Record(s, o)) = [ByOutcome(s) EXCEPT ![o] = @ + 1]
  BY <1>2 DEF ByOutcome
<1>4. Record(s, o).requests = s.requests + 1
      /\ Record(s, o).hits + Record(s, o).misses + Record(s, o).errors
           = s.hits + s.misses + s.errors + 1
  BY <1>1 DEF Counters
<1>. QED
  BY <1>3, <1>4

\* Received(p) is the outcome counters of p's true outcomes while it runs,
\* and none otherwise.
LEMMA ReceivedDef ==
  ASSUME NEW p \in Procs
  PROVE  Received(p) = IF state[p] \in {"running", "stopping"}
                         THEN ByOutcome(tally[p])
                         ELSE Counter(p)!NoneReceived
BY DEF Received, ByOutcome, Counter!NoneReceived, Counter!Outcomes

-----------------------------------------------------------------------------
LEMMA InitRInv == Init => RInv
BY InitIInv DEF Init, RInv, CountsAdd, ZeroStats

LEMMA NextRInv == RInv /\ [Next]_vars => RInv'
<1> SUFFICES ASSUME RInv, [Next]_vars PROVE RInv'
  OBVIOUS
<1>1. IInv'
  BY NextIInv DEF RInv
<1>2. /\ TypeOK /\ Host \in [Users -> Procs]
      /\ \A p \in Procs : tally[p].requests = tally[p].hits + tally[p].misses + tally[p].errors
  BY Constants DEF RInv, IInv, CountsAdd
<1>3. ASSUME NEW u \in Users, NEW status \in Statuses, NEW cached \in BOOLEAN,
             NEW hdr \in XCache[cached], Respond(u, status, cached, hdr)
      PROVE  CountsAdd'
  <2>1. TrueOutcome(status, cached) \in {"hits", "misses", "errors"}
    BY DEF TrueOutcome
  <2>2. Host[u] \in Procs /\ tally[Host[u]] \in Counters
    BY <1>2 DEF TypeOK
  <2>3. tally'[Host[u]] = Record(tally[Host[u]], TrueOutcome(status, cached))
    BY <1>2, <1>3, <2>2 DEF Respond, TypeOK
  <2>4. tally'[Host[u]].requests = tally'[Host[u]].hits + tally'[Host[u]].misses
                                   + tally'[Host[u]].errors
    BY <1>2, <2>1, <2>2, <2>3, RecordAgrees
  <2>. QED
    BY <1>2, <1>3, <2>4 DEF Respond, CountsAdd, TypeOK
<1>4. ASSUME StartTest PROVE CountsAdd'
  BY <1>4 DEF StartTest, CountsAdd, ZeroStats
<1>5. ASSUME UNCHANGED tally PROVE CountsAdd'
  BY <1>2, <1>5 DEF CountsAdd
<1>. QED
  <2>1. CountsAdd'
    <3>1. ASSUME NEW w \in Workers, WorkerStart(w) \/ WorkerStop(w)
          PROVE  UNCHANGED tally
      BY <3>1 DEF WorkerStart, WorkerStop
    <3>2. ASSUME NEW u \in Users, SendRequest(u) PROVE UNCHANGED tally
      BY <3>2 DEF SendRequest
    <3>3. StopTest \/ RunnerStopped \/ UNCHANGED vars => UNCHANGED tally
      BY DEF StopTest, RunnerStopped, vars
    <3>. QED
      BY <1>3, <1>4, <1>5, <3>1, <3>2, <3>3 DEF Next
  <2>. QED
    BY <1>1, <2>1 DEF RInv

-----------------------------------------------------------------------------
(***************************************************************************)
(* The steps of one process under the mapping.                            *)
(***************************************************************************)

\* A step that keeps p's phase and printed result, and its tally while it
\* runs, is a stuttering step of p's counter.
LEMMA CounterStutter ==
  ASSUME NEW p \in Procs, Phase(p)' = Phase(p), report'[p] = report[p],
         state'[p] \in {"running", "stopping"} <=> state[p] \in {"running", "stopping"},
         state[p] \in {"running", "stopping"} => tally'[p] = tally[p]
  PROVE  UNCHANGED Counter(p)!cvars
BY DEF Counter!cvars, Received

\* on_start on p, with p's tally empty: the counter starts.
LEMMA CounterStart ==
  ASSUME NEW p \in Procs, state[p] \in {"ready", "stopped"},
         state'[p] = "running", tally'[p] = ZeroStats, report'[p] = report[p]
  PROVE  Counter(p)!Start
BY DEF Counter!Start, Phase, Received, Counter!NoneReceived, Counter!Outcomes,
       ZeroStats

\* A response of outcome o to a user of the running process p.
LEMMA CounterReceive ==
  ASSUME NEW p \in Procs, state[p] = "running", state'[p] = "running",
         tally[p] \in Counters, NEW o \in {"hits", "misses", "errors"},
         tally'[p] = Record(tally[p], o), report'[p] = report[p]
  PROVE  Counter(p)!Receive(o)
<1>1. Received(p) = ByOutcome(tally[p]) /\ Received(p)' = ByOutcome(tally'[p])
  BY DEF Received, ByOutcome
<1>2. ByOutcome(tally'[p]) = [ByOutcome(tally[p]) EXCEPT ![o] = @ + 1]
  BY RecordAgrees
<1>. QED
  BY <1>1, <1>2 DEF Counter!Receive, Phase

\* on_stop on p, whose Stats are its users' true outcomes: the counter
\* stops and prints the result of the run.
LEMMA CounterStop ==
  ASSUME NEW p \in Procs, state[p] \in {"running", "stopping"},
         state'[p] = "stopped", tally[p] \in Counters,
         tally[p].requests = tally[p].hits + tally[p].misses + tally[p].errors,
         report'[p] = OnStopResult(tally[p])
  PROVE  Counter(p)!Stop
<1>1. Received(p) = ByOutcome(tally[p])
  BY DEF Received, ByOutcome
<1>2. report'[p] = Counter(p)!RunResult(ByOutcome(tally[p]))
  BY ResultAgrees
<1>. QED
  BY <1>1, <1>2 DEF Counter!Stop, Phase, Received, Counter!NoneReceived,
                    Counter!Outcomes

-----------------------------------------------------------------------------
(***************************************************************************)
(* Every step of ThroughputTest is, for every process p, a step of p's    *)
(* counter or a stuttering step of it.                                    *)
(***************************************************************************)
LEMMA InitCounter ==
  ASSUME Init, NEW p \in Procs
  PROVE  Counter(p)!Init
BY DEF Init, Counter!Init, Phase, Received, Counter!NoneReceived,
       Counter!Outcomes, ZeroStats

LEMMA StepCounter ==
  ASSUME RInv, [Next]_vars, NEW p \in Procs
  PROVE  [Counter(p)!Next]_(Counter(p)!cvars)
<1>0. /\ TypeOK /\ InflightOnRunning /\ RunnerCurrent /\ ProcInv(p)
      /\ \A q \in Procs : ProcInv(q)
      /\ tally[p].requests = tally[p].hits + tally[p].misses + tally[p].errors
      /\ Host \in [Users -> Procs] /\ Runner \in Procs
  BY Constants DEF RInv, IInv, CountsAdd, Procs
<1>1. CASE StartTest
  <2>1. CASE p = Runner
    <3>1. Counter(p)!Start
      BY <1>0, <1>1, <2>1, CounterStart DEF StartTest, TypeOK
    <3>. QED
      BY <3>1 DEF Counter!Next
  <2>2. CASE p # Runner
    <3>1. state[p] \notin {"running", "stopping"}
      BY <1>0, <1>1, <2>2 DEF StartTest, ProcInv, Procs
    <3>. QED
      BY <1>0, <1>1, <2>2, <3>1, CounterStutter DEF StartTest, Phase, TypeOK
  <2>. QED
    BY <2>1, <2>2
<1>2. ASSUME NEW w \in Workers, WorkerStart(w)
      PROVE  [Counter(p)!Next]_(Counter(p)!cvars)
  <2>1. CASE p = w
    <3>1. epoch[w] # tests
      BY <1>0, <1>2 DEF WorkerStart, RunnerCurrent, ProcInv, TypeOK, Procs
    <3>2. tally'[w] = ZeroStats
      BY <1>0, <1>2, <3>1 DEF WorkerStart, ProcInv, Procs
    <3>3. Counter(p)!Start
      BY <1>0, <1>2, <2>1, <3>2, CounterStart DEF WorkerStart, TypeOK, Procs
    <3>. QED
      BY <3>3 DEF Counter!Next
  <2>2. CASE p # w
    BY <1>0, <1>2, <2>2, CounterStutter DEF WorkerStart, Phase, TypeOK
  <2>. QED
    BY <2>1, <2>2
<1>3. ASSUME NEW w \in Workers, WorkerStop(w)
      PROVE  [Counter(p)!Next]_(Counter(p)!cvars)
  <2>1. CASE p = w
    <3>1. stats[w] = tally[w] /\ tally[w] \in Counters
      BY <1>0, <1>3, <2>1 DEF WorkerStop, ProcInv, TypeOK
    <3>2. Counter(p)!Stop
      BY <1>0, <1>3, <2>1, <3>1, CounterStop DEF WorkerStop, TypeOK, Procs
    <3>. QED
      BY <3>2 DEF Counter!Next
  <2>2. CASE p # w
    BY <1>0, <1>3, <2>2, CounterStutter DEF WorkerStop, Phase, TypeOK
  <2>. QED
    BY <2>1, <2>2
<1>4. ASSUME NEW u \in Users, SendRequest(u)
      PROVE  [Counter(p)!Next]_(Counter(p)!cvars)
  BY <1>4, CounterStutter DEF SendRequest, Phase
<1>5. ASSUME NEW u \in Users, NEW status \in Statuses, NEW cached \in BOOLEAN,
             NEW hdr \in XCache[cached], Respond(u, status, cached, hdr)
      PROVE  [Counter(p)!Next]_(Counter(p)!cvars)
  <2>1. CASE p = Host[u]
    <3> DEFINE o == TrueOutcome(status, cached)
    <3>1. o \in {"hits", "misses", "errors"}
      BY DEF TrueOutcome
    <3>2. state[p] = "running" /\ tally[p] \in Counters
      BY <1>0, <1>5, <2>1 DEF Respond, InflightOnRunning, TypeOK
    <3>3. tally'[p] = Record(tally[p], o)
      BY <1>0, <1>5, <2>1 DEF Respond, TypeOK
    <3>4. Counter(p)!Receive(o)
      BY <1>5, <3>1, <3>2, <3>3, CounterReceive DEF Respond
    <3>. QED
      BY <3>1, <3>4 DEF Counter!Next, Counter!Outcomes
  <2>2. CASE p # Host[u]
    BY <1>0, <1>5, <2>2, CounterStutter DEF Respond, Phase, TypeOK
  <2>. QED
    BY <2>1, <2>2
<1>6. CASE StopTest
  BY <1>0, <1>6, CounterStutter DEF StopTest, Phase, TypeOK
<1>7. CASE RunnerStopped
  <2>1. CASE p = Runner
    <3>1. stats[p] = tally[p] /\ tally[p] \in Counters
      BY <1>0, <1>7, <2>1 DEF RunnerStopped, ProcInv, TypeOK
    <3>2. Counter(p)!Stop
      BY <1>0, <1>7, <2>1, <3>1, CounterStop DEF RunnerStopped, TypeOK
    <3>. QED
      BY <3>2 DEF Counter!Next
  <2>2. CASE p # Runner
    BY <1>0, <1>7, <2>2, CounterStutter DEF RunnerStopped, Phase, TypeOK
  <2>. QED
    BY <2>1, <2>2
<1>8. CASE UNCHANGED vars
  BY <1>8, CounterStutter DEF vars, Phase
<1>. QED
  BY <1>1, <1>2, <1>3, <1>4, <1>5, <1>6, <1>7, <1>8 DEF Next

\* For every set of workers and users, every placement of the users and
\* every bound, each Locust process is an ideal counter of its users'
\* responses: on_start starts it from nothing, nothing is counted outside
\* a run, and on_stop prints the run's outcomes, their sum as the requests
\* and the share of hits among the 200 responses as the hit rate.
THEOREM ImplementsCounter == Spec => ProcessesImplementCounter
<1>1. Init => \A p \in Procs : Counter(p)!Init
  BY InitCounter
<1>2. RInv /\ [Next]_vars => \A p \in Procs : [Counter(p)!Next]_(Counter(p)!cvars)
  BY StepCounter
<1>. QED
  BY <1>1, <1>2, InitRInv, NextRInv, PTL DEF Spec, ProcessesImplementCounter

\* The same, stated process by process as the refinement of Counter(p)!Spec.
THEOREM Refinement == Spec => \A p \in Procs : Counter(p)!Spec
<1> SUFFICES ASSUME NEW p \in Procs PROVE Spec => Counter(p)!Spec
  OBVIOUS
<1>1. Init => Counter(p)!Init
  BY InitCounter
<1>2. RInv /\ [Next]_vars => [Counter(p)!Next]_(Counter(p)!cvars)
  BY StepCounter
<1>. QED
  BY <1>1, <1>2, InitRInv, NextRInv, PTL DEF Spec, Counter!Spec

-----------------------------------------------------------------------------
(***************************************************************************)
(* The Runner's report in local mode.                                      *)
(*                                                                         *)
(* With no workers the Runner is the only process, so the totals over all *)
(* processes are its own counters; once it has stopped in the current     *)
(* test, ProcInv says it printed OnStopResult of its true outcomes, and   *)
(* CountsAdd turns Stats.hit_rate's hits + misses into the requests that  *)
(* were not errors.  In distributed mode the Runner (the master) prints   *)
(* its own Stats, which count none of the workers' responses: the run     *)
(* throughput_distributed shows ReportCoversTest violated there.          *)
(***************************************************************************)

\* The sum of a function over a single point is its value there.
LEMMA SumSingleton ==
  ASSUME NEW r, NEW v \in Nat
  PROVE  SumFunction([p \in {r} |-> v]) = v
<1> DEFINE fun == [p \in {r} |-> v]
           Body(g) == [s \in SUBSET {r} |->
                         IF s = {} THEN 0
                         ELSE LET x == CHOOSE x \in s : TRUE IN fun[x] + g[s \ {x}]]
           it == CHOOSE iter : iter = Body(iter)
<1>1. SumFunction(fun) = it[{r}]
  BY DEF SumFunction, SumFunctionOnSet, FoldFunctionOnSet, MapThenFoldSet
<1>2. \E g : g = Body(g)
  <2> DEFINE g0 == [s \in SUBSET {r} |-> IF s = {} THEN 0 ELSE v]
  <2>1. g0 = Body(g0)
    <3>1. (CHOOSE x \in {r} : TRUE) = r
      OBVIOUS
    <3>2. SUBSET {r} = {{}, {r}}
      OBVIOUS
    <3>. QED
      BY <3>1, <3>2
  <2>. QED
    BY <2>1
<1>3. it = Body(it)
  BY <1>2
<1>4. it[{r}] = v
  <2>1. it[{}] = 0
    <3>1. {} \in SUBSET {r}
      OBVIOUS
    <3>. QED
      BY <1>3, <3>1
  <2>2. it[{r}] = fun[r] + it[{r} \ {r}]
    <3>1. {r} \in SUBSET {r} /\ {r} # {} /\ (CHOOSE x \in {r} : TRUE) = r
      OBVIOUS
    <3>. QED
      BY <1>3, <3>1
  <2>3. {r} \ {r} = {} /\ fun[r] = v
    BY DEF fun
  <2>4. it[{r} \ {r}] = 0
    BY <2>1, <2>3, Zenon
  <2>. QED
    BY <2>2, <2>3, <2>4
<1>. QED
  BY <1>1, <1>4

\* With the Runner alone, Total is the Runner's own counters.
LEMMA TotalLocal ==
  ASSUME Workers = {}, TypeOK,
         NEW f \in {"requests", "hits", "misses", "errors"}
  PROVE  Total(tally)[f] = tally[Runner][f]
<1>1. DOMAIN tally = {Runner}
  BY DEF TypeOK, Procs
<1>2. tally[Runner][f] \in Nat
  BY DEF TypeOK, Procs, Counters
<1>3. [p \in DOMAIN tally |-> tally[p][f]] = [p \in {Runner} |-> tally[Runner][f]]
  BY <1>1
<1>4. SumFunction([p \in {Runner} |-> tally[Runner][f]]) = tally[Runner][f]
  BY <1>2, SumSingleton
<1>. QED
  BY <1>3, <1>4 DEF Total

\* For Stats whose requests add up, Stats.hit_rate is the true hit rate.
LEMMA HitRateTrue ==
  ASSUME NEW s \in Counters, s.requests = s.hits + s.misses + s.errors
  PROVE  HitRate(s) = TrueHitRate(s)
BY DEF HitRate, TrueHitRate, Counters

LEMMA LocalReport ==
  ASSUME Workers = {}, RInv
  PROVE  ReportCoversTest
<1> DEFINE t == Total(tally)
           s == tally[Runner]
<1> SUFFICES ASSUME Over, tests > 0
             PROVE  /\ report[Runner] # NoReport
                    /\ report[Runner].requests = t.requests
                    /\ report[Runner].hits = t.hits
                    /\ report[Runner].misses = t.misses
                    /\ report[Runner].errors = t.errors
                    /\ report[Runner].hitRate = TrueHitRate(t)
  BY DEF ReportCoversTest
<1>1. TypeOK /\ Runner \in Procs
  BY DEF RInv, IInv, Procs
<1>2. s \in Counters /\ s.requests = s.hits + s.misses + s.errors
  BY <1>1 DEF TypeOK, RInv, CountsAdd
<1>3. state[Runner] = "stopped" /\ epoch[Runner] = tests
  BY DEF Over, RInv, IInv, RunnerCurrent
<1>4. report[Runner] = OnStopResult(s)
  BY <1>1, <1>3 DEF RInv, IInv, ProcInv
<1>5. /\ t.requests = s.requests /\ t.hits = s.hits
      /\ t.misses = s.misses /\ t.errors = s.errors
  BY <1>1, TotalLocal
<1>6. report[Runner] \in Results
  BY <1>2, <1>4, OnStopResultType
<1>7. report[Runner] # NoReport
  BY <1>6, NoReportAssumption
<1>8. report[Runner].hitRate = TrueHitRate(t)
  <2>1. report[Runner].hitRate = HitRate(s)
    BY <1>4 DEF OnStopResult
  <2>2. TrueHitRate(t) = TrueHitRate(s)
    BY <1>5 DEF TrueHitRate
  <2>. QED
    BY <1>2, <2>1, <2>2, HitRateTrue
<1>. QED
  BY <1>4, <1>5, <1>7, <1>8 DEF OnStopResult

\* In local mode (no workers), once the test is over the THROUGHPUT
\* RESULTS on_stop prints on the Runner count exactly the responses the
\* users received in that test, and its hit rate is the true one.
THEOREM ReportCoversLocal ==
  ASSUME Workers = {}
  PROVE  Spec => []ReportCoversTest
<1>1. RInv => ReportCoversTest
  BY LocalReport
<1>. QED
  BY <1>1, InitRInv, NextRInv, PTL DEF Spec

=============================================================================
