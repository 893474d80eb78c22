--------------------------- MODULE ThroughputTest ---------------------------
(***************************************************************************)
(* The ECS throughput load test, src/deploy/ecs/locustfile.py, run by      *)
(* Locust.  Every Locust process imports the locustfile and so has its own *)
(* module-level Stats object.  The user greenlets of a process share that  *)
(* object: each ThroughputUser repeatedly sends GET /cache and, when the  *)
(* response arrives, records a hit, a miss or an error in it.  The         *)
(* test_start listener (on_start) resets the process's Stats, the          *)
(* test_stop listener (on_stop) prints its counters as the test's result.  *)
(*                                                                         *)
(* Locust itself is the environment, as its documentation describes it:    *)
(* test_start and test_stop fire on every process; in local mode the       *)
(* Runner process runs the users, in distributed mode the Runner is the    *)
(* master, which runs none, and the workers run them; stopping a process  *)
(* kills its user greenlets, so a request still in flight is never         *)
(* recorded.  Greenlets switch only while a request or a wait is pending, *)
(* so everything cache_request does after the response arrives is one     *)
(* step.  The cache is the environment too: it answers 200 or an error     *)
(* status and, for a 200, reports the true outcome (hit or miss) in        *)
(* X-Cache in one of the spellings XCache allows.                          *)
(***************************************************************************)
EXTENDS Naturals, Sequences, SequencesExt

CONSTANTS
  Runner,       \* the process the test is started from (local or master)
  Workers,      \* worker processes; {} in local mode
  Users,        \* ThroughputUser instances (greenlets)
  Host,         \* Host[u]: the process user u runs in
  Statuses,     \* status codes the cache may answer with
  XCache,       \* XCache[b]: the X-Cache values sent for a hit (b) or a miss
  MaxRequests,  \* requests a user may send in a behaviour
  MaxTests,     \* tests that may be started in a behaviour
  NoReport      \* what a process has printed before its first on_stop

Procs == {Runner} \cup Workers

ASSUME ThroughputAssumption ==
  /\ Runner \notin Workers
  /\ Host \in [Users -> IF Workers = {} THEN {Runner} ELSE Workers]
  /\ 200 \in Statuses /\ Statuses \subseteq Nat
  /\ XCache \in [BOOLEAN -> SUBSET Seq(STRING)]
  /\ MaxRequests \in Nat /\ MaxTests \in Nat

VARIABLES
  state,    \* state[p]: the runner state of process p
  stats,    \* stats[p]: the module-level Stats object of process p
  upc,      \* upc[u]: "idle" (waiting or between tasks) or "inflight"
  sent,     \* sent[u]: requests user u has sent (bounded by MaxRequests)
  tally,    \* tally[p]: the true outcomes of the responses the users of p
            \* received in this test
  report,   \* report[p]: the result the last on_stop of p printed
  tests,    \* tests started so far
  epoch     \* epoch[p]: the last test in which test_start fired on p

vars == << state, stats, upc, sent, tally, report, tests, epoch >>

Counters == [requests : Nat, hits : Nat, misses : Nat, errors : Nat]

\* The figures of the result dict on_stop prints; the hit rate in
\* hundredths of a percent.
Results == [requests : Nat, hits : Nat, misses : Nat, errors : Nat, hitRate : Nat]

\* Before its first on_stop a process has printed no result.
ASSUME NoReportAssumption == NoReport \notin Results

\* Mutant: a reset that forgets the errors counter.
ZeroStatsPartial == [requests |-> 0, hits |-> 0, misses |-> 0]

\* Stats.reset: all counters zero.
ZeroStats == [requests |-> 0, hits |-> 0, misses |-> 0, errors |-> 0]

\* Stats.record_hit / record_miss / record_error: requests and one of the
\* three outcome counters go up together.
Record(s, field) ==
  LET bump(f) == IF f = field THEN 1 ELSE 0
  IN  [requests |-> s.requests + 1,   hits   |-> s.hits + bump("hits"),
       misses   |-> s.misses + bump("misses"), errors |-> s.errors + bump("errors")]

\* round(n / d, 2) * 100 for n, d in Nat, d > 0: Python rounds a tie to
\* the even neighbour (the binary representation of the float is not
\* modelled).
RoundDiv(n, d) ==
  LET q == n \div d
      r == n % d
  IN  IF 2 * r > d \/ (2 * r = d /\ q % 2 = 1) THEN q + 1 ELSE q

\* Mutant: the hit rate taken over all requests, errors included.
HitRateOverRequests(s) ==
  IF s.requests > 0 THEN RoundDiv(s.hits * 10000, s.requests) ELSE 0

\* Stats.hit_rate, rounded by on_stop: hits over hits + misses, guarded
\* against a test without a successful response.
HitRate(s) ==
  LET total == s.hits + s.misses
  IN  IF total > 0 THEN RoundDiv(s.hits * 10000, total) ELSE 0

\* The result dict on_stop builds from the Stats (duration and throughput,
\* which depend on the clock, are left out).
OnStopResult(s) ==
  [requests |-> s.requests, hits |-> s.hits, misses |-> s.misses,
   errors |-> s.errors, hitRate |-> HitRate(s)]

\* str.upper() over the letters X-Cache values are made of.
LetterCases == { <<"h", "H">>, <<"i", "I">>, <<"t", "T">>,
                 <<"m", "M">>, <<"s", "S">> }
UpperChar(c) ==
  IF \E lc \in LetterCases : lc[1] = c
    THEN (CHOOSE lc \in LetterCases : lc[1] = c)[2]
    ELSE c
ToUpper(s) == [k \in DOMAIN s |-> UpperChar(s[k])]

\* Mutant: the header tested without .upper().
IsHitHeaderCaseSensitive(h) == <<"H", "I", "T">> \in SubSeqs(h)

\* "HIT" in cache_status.upper(): a substring test.
IsHitHeader(h) == <<"H", "I", "T">> \in SubSeqs(ToUpper(h))

\* The cache's side of the X-Cache contract: a hit is reported in a
\* spelling that contains HIT in some letter case, a miss in one that does
\* not.
ASSUME XCacheContract ==
  \A b \in BOOLEAN : \A h \in XCache[b] : IsHitHeader(h) <=> b

\* The counter cache_request bumps for a response: record_hit when the
\* status is 200 and X-Cache mentions HIT, record_miss for any other 200,
\* record_error otherwise.
CodeOutcome(status, hdr) ==
  IF status = 200
    THEN IF IsHitHeader(hdr) THEN "hits" ELSE "misses"
    ELSE "errors"

\* The counters of all the processes added up field by field.
Total(t) ==
  [f \in {"requests", "hits", "misses", "errors"} |->
     SumFunction([p \in DOMAIN t |-> t[p][f]])]

\* What the response really was.
TrueOutcome(status, cached) ==
  IF status = 200 THEN IF cached THEN "hits" ELSE "misses" ELSE "errors"

-----------------------------------------------------------------------------
\* Import of the locustfile in every process: stats = Stats() resets.
Init ==
  /\ state = [p \in Procs |-> "ready"]
  /\ stats = [p \in Procs |-> ZeroStats]
  /\ upc = [u \in Users |-> "idle"]
  /\ sent = [u \in Users |-> 0]
  /\ tally = [p \in Procs |-> ZeroStats]
  /\ report = [p \in Procs |-> NoReport]
  /\ tests = 0
  /\ epoch = [p \in Procs |-> 0]

\* Mutant: on_start does not reset the stats.
StartTestNoReset ==
  /\ state[Runner] \in {"ready", "stopped"}
  /\ \A w \in Workers : state[w] # "running"
  /\ tests < MaxTests
  /\ state' = [state EXCEPT ![Runner] = "running"]
  /\ tally' = [p \in Procs |-> ZeroStats]
  /\ tests' = tests + 1
  /\ epoch' = [epoch EXCEPT ![Runner] = tests + 1]
  /\ UNCHANGED << stats, upc, sent, report >>

\* A test is started on the Runner: test_start fires there, and on_start
\* resets its Stats.
StartTest ==
  /\ state[Runner] \in {"ready", "stopped"}
  /\ \A w \in Workers : state[w] # "running"
  /\ tests < MaxTests
  /\ state' = [state EXCEPT ![Runner] = "running"]
  /\ stats' = [stats EXCEPT ![Runner] = ZeroStats]
  /\ tally' = [p \in Procs |-> ZeroStats]
  /\ tests' = tests + 1
  /\ epoch' = [epoch EXCEPT ![Runner] = tests + 1]
  /\ UNCHANGED << upc, sent, report >>

\* Mutant: on_start on a worker does not reset its stats.
WorkerStartNoReset(w) ==
  /\ state[Runner] = "running"
  /\ state[w] \in {"ready", "stopped"}
  /\ state' = [state EXCEPT ![w] = "running"]
  /\ epoch' = [epoch EXCEPT ![w] = tests]
  /\ UNCHANGED << stats, upc, sent, tally, report, tests >>

\* A worker receives its first spawn message of the test: test_start fires
\* on it and on_start resets the worker's Stats.
WorkerStart(w) ==
  /\ state[Runner] = "running"
  /\ state[w] \in {"ready", "stopped"}
  /\ state' = [state EXCEPT ![w] = "running"]
  /\ stats' = [stats EXCEPT ![w] = ZeroStats]
  /\ epoch' = [epoch EXCEPT ![w] = tests]
  /\ UNCHANGED << upc, sent, tally, report, tests >>

\* cache_request up to the blocking client.get: a URL is chosen and the
\* request sent; the greenlet yields until the response arrives.
SendRequest(u) ==
  /\ state[Host[u]] = "running"
  /\ upc[u] = "idle"
  /\ sent[u] < MaxRequests
  /\ upc' = [upc EXCEPT ![u] = "inflight"]
  /\ sent' = [sent EXCEPT ![u] = @ + 1]
  /\ UNCHANGED << state, stats, tally, report, tests, epoch >>

\* The response arrives and the rest of cache_request runs without a
\* switch: the status and X-Cache decide which counter of the user's
\* process is bumped.
Respond(u, status, cached, hdr) ==
  /\ upc[u] = "inflight"
  /\ upc' = [upc EXCEPT ![u] = "idle"]
  /\ stats' = [stats EXCEPT ![Host[u]] = Record(@, CodeOutcome(status, hdr))]
  /\ tally' = [tally EXCEPT ![Host[u]] = Record(@, TrueOutcome(status, cached))]
  /\ UNCHANGED << state, sent, report, tests, epoch >>

\* The users of process p are killed: a request in flight is abandoned.
KillUsers(p) == [u \in Users |-> IF Host[u] = p THEN "idle" ELSE upc[u]]

\* The test is stopped on the Runner: its own users are killed and, in
\* distributed mode, the workers are told to stop.
StopTest ==
  /\ state[Runner] = "running"
  /\ state' = [state EXCEPT ![Runner] = "stopping"]
  /\ upc' = KillUsers(Runner)
  /\ UNCHANGED << stats, sent, tally, report, tests, epoch >>

\* test_stop fires on the Runner: on_stop prints its Stats.
RunnerStopped ==
  /\ state[Runner] = "stopping"
  /\ state' = [state EXCEPT ![Runner] = "stopped"]
  /\ report' = [report EXCEPT ![Runner] = OnStopResult(stats[Runner])]
  /\ UNCHANGED << stats, upc, sent, tally, tests, epoch >>

\* A worker handles the stop message: its users are killed, test_stop
\* fires on it and on_stop prints the worker's Stats.
WorkerStop(w) ==
  /\ state[Runner] \in {"stopping", "stopped"}
  /\ state[w] = "running"
  /\ state' = [state EXCEPT ![w] = "stopped"]
  /\ upc' = KillUsers(w)
  /\ report' = [report EXCEPT ![w] = OnStopResult(stats[w])]
  /\ UNCHANGED << stats, sent, tally, tests, epoch >>

Next ==
  \/ StartTest
  \/ \E w \in Workers : WorkerStart(w) \/ WorkerStop(w)
  \/ \E u \in Users : SendRequest(u)
  \/ \E u \in Users, status \in Statuses, cached \in BOOLEAN :
        \E hdr \in XCache[cached] : Respond(u, status, cached, hdr)
  \/ StopTest
  \/ RunnerStopped

Spec == Init /\ [][Next]_vars

-----------------------------------------------------------------------------
TypeOK ==
  /\ state \in [Procs -> {"ready", "running", "stopping", "stopped"}]
  /\ stats \in [Procs -> Counters]
  /\ upc \in [Users -> {"idle", "inflight"}]
  /\ sent \in [Users -> 0..MaxRequests]
  /\ tally \in [Procs -> Counters]
  /\ report \in [Procs -> Results \cup {NoReport}]
  /\ tests \in 0..MaxTests
  /\ epoch \in [Procs -> 0..MaxTests]

\* The test is over: the Runner has printed its result and no worker is
\* still running users.
Over == state[Runner] = "stopped" /\ \A w \in Workers : state[w] # "running"

\* The share of cached responses among the responses with status 200, in
\* hundredths of a percent, rounded (0 when there was none).
TrueHitRate(t) ==
  IF t.requests - t.errors > 0
    THEN RoundDiv(t.hits * 10000, t.requests - t.errors)
    ELSE 0

\* The THROUGHPUT RESULTS that on_stop prints on the Runner, once the test
\* is over, count exactly the responses the users received during that
\* test: every request, hit, miss and error, whatever the spelling of
\* X-Cache, nothing from an earlier test and nothing abandoned at the stop;
\* and the hit rate is the share of hits among the 200 responses.
ReportCoversTest ==
  LET t == Total(tally)
  IN  Over /\ tests > 0 =>
        /\ report[Runner] # NoReport
        /\ report[Runner].requests = t.requests
        /\ report[Runner].hits = t.hits
        /\ report[Runner].misses = t.misses
        /\ report[Runner].errors = t.errors
        /\ report[Runner].hitRate = TrueHitRate(t)

\* Once the test is over, every process on which test_start fired in this
\* test has printed exactly the responses its own users received during
\* the test: nothing carried over from an earlier test it took part in,
\* nothing abandoned at the stop, whatever the order in which the Runner
\* and the workers stop.
ProcessReportsOwnUsers ==
  Over /\ tests > 0 =>
    \A p \in Procs : epoch[p] = tests => report[p] = OnStopResult(tally[p])


-----------------------------------------------------------------------------
(***************************************************************************)
(* Refinement.  Every process p implements ThroughputCounter: its phase   *)
(* is its runner state, with the Runner's "stopping" (users killed,       *)
(* test_stop not yet fired) still part of the run; what it has received  *)
(* is the true outcomes of its users' responses while it runs users, and *)
(* nothing otherwise; what it has printed is report[p].  The rounding is  *)
(* Python's, RoundDiv.  Requests in flight, Stats objects, the test count *)
(* and the other processes are hidden.                                    *)
(***************************************************************************)
Phase(p) == IF state[p] = "stopping" THEN "running" ELSE state[p]

Received(p) ==
  [o \in {"hits", "misses", "errors"} |->
     IF state[p] \in {"running", "stopping"} THEN tally[p][o] ELSE 0]

Counter(p) == INSTANCE ThroughputCounter
                WITH phase <- Phase(p), received <- Received(p),
                     printed <- report[p], Share <- RoundDiv

\* Every Locust process, the Runner and each worker, behaves as an ideal
\* counter of its own users' responses: test_start (on_start) starts it
\* from nothing, no response is counted outside a run, and on_stop prints
\* exactly the run's responses by outcome, their total as the requests,
\* and the share of hits among the 200 responses as the hit rate.  This is
\* \A p \in Procs : Counter(p)!Spec, written as its initial condition and
\* its step, so that TLC can check it.
ProcessesImplementCounter ==
  /\ \A p \in Procs : Counter(p)!Init
  /\ [][\A p \in Procs : [Counter(p)!Next]_(Counter(p)!cvars)]_vars

====
