# KoordeDHT web cache tooling: TLA+ models

This directory holds TLA+ models of the tooling in `src/`, TLC configurations that
model-check them on small instances, and TLAPS proofs of their main invariants.
The DHT itself (nodes, De Bruijn routing, cache storage) lives in another system.
The tooling talks to it over HTTP (`GET /cache?url=...`, headers `X-Node-ID` and
`X-Cache`). Here the DHT is always the *environment*: every answer the code
accepts is allowed.

## 1. Inventory of the system

| Part | Source | State | Operations | Interacts with |
|---|---|---|---|---|
| Routing verifier | `src/test/verify_routing.py` `load_config`, `get_node_ids`, `test_routing` | globals `NUM_NODES`, `ID_BITS`, `BYTE_LEN`; locals `node_ids`, `match_count`, `total_count`, the URL loop | read config, build the ring, for each URL: key, expected owner, blocking GET, compare the header, count; print the summary | the live cache (one GET per URL), an optional JSON config |
| Ownership oracle | same file, `get_id_from_string`, `get_responsible_node` | none (pure) | SHA-1 prefix of `BYTE_LEN` bytes, first-byte mask, hex; string sort; successor scan with wrap-around | used by the verifier |
| ECS throughput test | `src/deploy/ecs/locustfile.py` | module-level `Stats` (requests, hits, misses, errors, start_time) shared by all user greenlets of one process | `cache_request` task, `test_start` resets, `test_stop` computes rps and hit rate | the cache (GET, `X-Cache`), the Locust runner (events, greenlets, master/workers) |
| Latency test | `src/test/locustfile.py` | globals `total_latency`, `request_count` | four weighted tasks; `on_request` listener; `on_test_stop` summary | the cache, the Locust runner |
| Result analysis | `src/test/analyze_locust_results.py`, `src/test/analyze_results_simple.py` | none (scripts over CSV files) | weighted averages, percentage differences, Markdown tables | Locust CSV output |
| Report generator | `src/scripts/generate-report.py` | the output directory (four PNG charts, one Markdown report) | efficiency scores and ranking from constant data, four charts, the report, in that order; any write may raise | matplotlib, the file system |

What makes each part correct, and what is hard about it:

* **Ownership oracle.** The key of a URL belongs to its successor on the ring of
  node ids. The code sorts the ids as *strings* but scans them as *integers*.
  The two orders agree only because all ids have the same width. The `>=` boundary
  and the wrap-around decide the owner of keys that equal a node id or lie above
  every node. The mask keeps exactly `ID_BITS` bits only when
  `BYTE_LEN = (ID_BITS + 7) // 8`.
* **Routing verifier.** Its verdict (MATCH, MISMATCH, could-not-verify) must
  reflect the cache's real routing. This holds whatever the node's rendering of
  its id (`0x` prefix, dropped leading zeros, padding). Failed requests are
  "could not verify", which is not a mismatch (spec §Task B, `compareOwnership`).
  The summary `match_count/total_count` must count the verdicts. The run must
  end: there is one outbound call per key, and no call can hold it forever.
* **Load tests.** The counters must add up. `requests = hits + misses + errors`
  must hold at `test_stop`, and the per-process stats must relate to what the
  workers did. The rates guard their divisions by zero.
* **Analysis scripts.** Their divisions and the signs in their percentage
  differences.
* **Report generator.** The report's ranking, verdicts, observations and
  recommendation are literal text beside figures computed from the data; they
  must agree with the data and with the summary chart. The report embeds the
  charts by file name, so it must only be written beside them, also when an
  earlier run crashed half-way.

## 2. Modules

| Module | Models | Notes |
|---|---|---|
| `RoutingOracle` | `get_id_from_string`, `get_node_ids`' sort, `get_responsible_node`, `zfill` | pure operators; `HexVal` is a recursive *function*, so TLAPS can use the module |
| `VerifyRouting` | `load_config` + `test_routing` | one action per step of the script and per kind of cache answer |
| `MC_VerifyRouting` | TLC instance | three node names, two URLs, three 2-byte digests |
| `VerifyRoutingProofs` | TLAPS proofs | type correctness and the summary counters |
| `RoutingVerdictProofs` | TLAPS proofs | `VerdictFaithful`, for IDs that fit in the digest |
| `RoutingCheck` | what `test_routing` promises | abstract: URLs judged in order, once each, faithfully; a summary that counts the verdicts |
| `RoutingRefinement` | TLAPS proofs | `VerifyRouting` implements `RoutingCheck` |
| `ThroughputTest` | `src/deploy/ecs/locustfile.py` under Locust | processes (Runner and workers), user greenlets, the per-process `Stats` |
| `MC_ThroughputTest` | TLC instance | one Runner, two workers or none, two users |
| `LatencyTest` | `src/test/locustfile.py` under Locust, one process | the four tasks, `on_request`, `on_test_stop` |
| `MC_LatencyTest` | TLC instance | two users, one request each |
| `LocustAnalysis` | `analyze_results_simple.py`, `analyze_locust_results.py` | the scripts as operators over a Locust CSV, and one action per script |
| `MC_LocustAnalysis` | TLC instance | two endpoints, counts {1,3}, averages {2,5} |
| `ThroughputCounter` | what one Locust process of the throughput test promises | abstract: start from zero, count responses by outcome, print their result at the stop |
| `ThroughputProofs` | TLAPS proofs | type correctness and `ProcessReportsOwnUsers` |
| `ThroughputRefinement` | TLAPS proofs | `ThroughputTest` implements `ThroughputCounter` for every process; `ReportCoversTest` in local mode |
| `ReportGenerator` | `src/scripts/generate-report.py` | the data, the scores and ranking, the report's claims, and `main` as a sequence of writes that may fail |
| `MC_ReportGenerator` | TLC instance | up to three runs over the same directory |
| `ReportProofs` | TLAPS proofs | `ReportLinksResolve` and `ReportEmbedsFreshCharts` |

### How the hex strings are represented

A hex string produced by `bytes.hex()` is the sequence of its digit values
0..15 (`Hex == Seq(0..15)`). The digits are lowercase, and '0' < ... < '9' <
'a' < ... < 'f' in character order. Python's string `<=` on such strings is
therefore the lexicographic order of the digit sequences (`HexLeq`), and
`int(x, 16)` is `HexVal(x)`. SHA-1 is not computed. Each name's digest is chosen
at `Init` from `DigestChoices` (`digest \in [Names -> DigestChoices]`). TLC
therefore explores every assignment of digests to names, collisions included. The
digest length is the constant `DigestLen`: 20 in the code, 2 in the runs. Masking
with `0xFF >> e` is written `% 2^(8-e)`, which is the same function on bytes.

### VerifyRouting: state and actions

| Variable | Code |
|---|---|
| `numNodes`, `idBits`, `byteLen` | globals `NUM_NODES`, `ID_BITS`, `BYTE_LEN` |
| `nodeIds` | `node_ids` |
| `i`, `key`, `expected` | the loop over `urls`, `key_hex`, `expected_node` |
| `matchCount`, `totalCount` | `match_count`, `total_count` |
| `result[u]` | what is printed for URL u (status, key, expected, actual), and `owner`: the node the cache really meant (history, for the properties) |
| `pc` | `load`, `ring`, `loop`, `wait` (inside `requests.get`), `done`, `crashed` |

| Action | Code |
|---|---|
| `LoadConfigDefaults` | `load_config` with no file, or with a json failure (lines 28-36) |
| `LoadConfigRead(hn, n, hb, b)` | the overrides and the recomputed `BYTE_LEN` (38-43) |
| `GetNodeIds` | `get_node_ids` (61-68): `sorted` is `nodeIds' \in SortedPermutations(ids)`, a singleton |
| `SendRequest` | key, expected owner (the scan as `ScanStopsAt`) and the GET (110-119) |
| `LookupRaises` | `int('', 16)` or `node_ids[0]` of an empty list raising outside the `try` |
| `RequestFailed` | non-200 `continue`, or an exception caught (120-122, 139-140) |
| `ResponseOk` | 200 with `X-Node-ID` naming a ring node, in any rendering: leading zeros dropped, or padded to `2*BYTE_LEN`; then `replace`, `zfill`, compare, count (124-137) |
| `ResponseNoHeader` | 200 without the header (`headers.get` gives `""`), when `MissingHeader` |
| `Summary` | the summary after the last URL (142-144) |

The cache's answers are nondeterministic. Failing or answering at all is the
cache's choice, and so is naming the right or a wrong node. The model therefore
checks the verifier's *judgement*, not the cache.

**Refinement.** `RoutingCheck` states what the script promises. It has no
ring, hashing or HTTP. Its state is a verdict per URL (status, the node the
answer named, the node predicted), a phase and the printed summary. Its steps:
* `Judge(u)` gives the first unjudged URL a final verdict. A verdict on an
  answer that named a node must be `Faithful`: MATCH exactly when the named
  node is the predicted one.
* `Finish` prints the summary once every URL is judged. The summary is the
  number of MATCH verdicts over the number of compared URLs.
* `Crash` is an exception that ends the script.

`VerifyRouting!Check` maps the script onto it. The verdict of URL u is
`result[u]`'s status, owner and expected node. The phase is `pc` once it is
"done" or "crashed", and "running" before. The summary is
`<< matchCount, totalCount >>` once printed. Under this mapping:
* `RequestFailed`, `ResponseOk` and `ResponseNoHeader` are `Judge(i)`;
* `Summary` is `Finish`;
* `LookupRaises` is `Crash`;
* loading the configuration, building the ring and sending a request leave
  the image unchanged.

### ThroughputTest: state and actions

Every Locust process imports the locustfile, so `stats` is per process. The
environment is Locust as its documentation describes it: `test_start` and
`test_stop` fire on every process; the master runs no users; stopping a process
kills its greenlets, so an in-flight request is never recorded; greenlets switch
only inside `client.get` and the wait, so everything after the response is one step.

| Variable | Code / meaning |
|---|---|
| `state[p]` | the Locust runner state of process p |
| `stats[p]` | the module-level `Stats` of process p (requests, hits, misses, errors) |
| `upc[u]`, `sent[u]` | user u idle or with a request in flight; requests sent (bounded) |
| `tally[p]`, `epoch[p]`, `tests` | history: the true outcomes delivered to p's users in this test, the last test p took part in, tests started |
| `report[p]` | the counters p's last `on_stop` printed |

| Action | Code |
|---|---|
| `StartTest`, `WorkerStart(w)` | `test_start` on the Runner or a worker: `on_start` resets `stats`; its prints are left out (116-125) |
| `SendRequest(u)` | `cache_request` up to `client.get`; the Zipf choice of the URL and the wait are abstracted (77-100) |
| `Respond(u, status, cached, hdr)` | the rest of `cache_request`: 200 and `"HIT" in X-Cache.upper()` is a hit, other 200 a miss, else an error (101-112) |
| `StopTest`, `RunnerStopped`, `WorkerStop(w)` | Locust stopping; `on_stop` prints the counters and the hit rate (128-152) |

`on_stop`'s result is `OnStopResult`: the four counters and `HitRate`, which is
`Stats.hit_rate` (hits over hits + misses, 0 when there are none) rounded by
`round(..., 2)`. It is kept in hundredths of a percent, and `RoundDiv` rounds
half to even as Python does. The duration and the rps depend on the clock and
are left out.

**Refinement.** `ThroughputCounter` states what one process promises without
greenlets, `Stats` objects or the other processes. `Start` (from "ready" or
"stopped") clears the counts. `Receive(o)` bumps outcome `o` while running.
`Stop` prints `RunResult` of the counts, which derives `requests` from the
three outcomes and the hit rate from hits and misses.
`ThroughputTest!Counter(p)` maps process p onto it:
* `phase` is `state[p]`, with "stopping" seen as still "running". The
  Runner's stop is two steps in the model and one in the abstract spec.
* `received` is p's true outcomes `tally[p]` while p runs, and nothing
  otherwise.
* `printed` is `report[p]`.

Under this mapping:
* a `Respond` of a user of p is `Receive` of the true outcome;
* a `WorkerStart` or `StartTest` is `Start`;
* `RunnerStopped` and `WorkerStop` are `Stop`;
* every other step leaves p's image unchanged.

That each process prints what its own users received follows from the
refinement. The run `throughput_workers` checks the refinement itself
(`ProcessesImplementCounter`). TLC cannot check
`\A p \in Procs : Counter(p)!Spec` directly. The property is therefore stated
as the initial condition plus `[][\A p : [Counter(p)!Next]_...]_vars`.

### LatencyTest: state and actions

`phase`, `upc`, `sent`; `totalLatency`, `requestCount` (the globals);
`completed` (history: requests the request event reported without exception);
`summary` (the count `on_test_stop` printed). `SendRequest(u, task)` picks a
task; `Complete(u, status, xcache, hdr)` runs the task's success test
(`TaskSucceeds`: a 200, and for the Zipf task "HIT" or "MISS" in X-Cache,
case-sensitive) and then `on_request` (`OnRequest`), in one step. `StopTest`
is `on_test_stop`. The request context Locust hands to the listener is a dict,
so `ContextHasHeaders` is `FALSE`.

### LocustAnalysis

A Locust stats CSV is its endpoint rows followed by the Aggregated row (`Type`
empty, `Name` "Aggregated", the figures of all requests), built by `LocustCsv`.
Numbers are exact rationals `[num, den]`. `round(x, 2)` is `Round2`, which rounds
half to even. The percentile columns go through the same code as the average
column, so the average stands for them. `Init` chooses one or two endpoint rows
for the Local and the AWS file. `AnalyzeSimple` runs `load_stats_file`,
`analyze_directory` and the interpretation of `compare_environments`.
`AnalyzeLocust` runs `load_stats`, `calculate_percentiles` and `calc_diff`.

### ReportGenerator

The figures of the script (`failures`, `hit_rates`, `latency`) are kept exactly,
in hundredths. `create_summary_chart`'s score `0.6 * mean hit rate + 0.4 *
max(0, 100 - p99)` is kept as 300 times its value (`Efficiency`), an integer
with the same order. `SortedProtocols` is Python's stable ascending sort by that
score, and `RankLabel` gives the label of the i-th bar ("#3 WORST", "#2",
"#1 BEST"). What `generate_markdown_report` writes that does not come from the
figures is literal text, and it is kept as the facts it states:
`ReportRanking`, `ReportClaims`, `LatencyPick` and the links `ReportLinks`.
Layout, colours and wording are left out.

| Variable | Code / meaning |
|---|---|
| `pc` | the next step of `main`: `makedirs`, `style`, the four charts, `report`, then `done`, `crashed`, or `idle` before a run |
| `run` | runs of the script started so far |
| `disk[f]` | the file `f` of `output_dir`: `NoFile`, or the run that wrote it and whether the write completed |

| Action | Code |
|---|---|
| `Launch` | `python3 generate-report.py` (535-539), once more, up to `MaxRuns` |
| `MakeDirs` | `os.makedirs(..., exist_ok=True)`; an existing directory is no error, another `OSError` ends the run (541-545) |
| `SetupStyle` | `plt.style.use` raises when the style is missing (67-75) |
| `CreateHitRateChart` ... `CreateSummaryChart` | each chart function, of which only its `savefig` touches state: it succeeds, fails before opening the file, or leaves it truncated (77-329) |
| `GenerateMarkdownReport` | `open(..., 'w')` and `write` of the report, with the same three outcomes (331-529) |

The order of the writes is `Outputs` (550-559).

## 3. Runs

All runs use `MC_VerifyRouting` with `DigestLen = 2`, three node names, two URLs
and digests from `{<<240,0>>, <<15,255>>, <<128,15>>}`. These digests give ids
with leading zero nibbles, ids that differ only in a masked bit, and equal
ids (collisions). `DefaultNodes = 2`, `DefaultBits = 12`, and the config may give
`NUM_NODES \in {0, 3}`.

| Run | cfg | Expect | Checks | Shows |
|---|---|---|---|---|
| `routing_core` | `MC_VerifyRouting.cfg` (`ConfigBits = {0,4,16}`, header may be missing) | pass | `TypeOK`, `SummaryCountsVerdicts`, `ExpectedIsSuccessor`, `VerdictFaithful`, `RoutingImplementsCheck` | the expected owner is the numeric successor on the ring, although the sort is a string sort; a named owner is judged MATCH exactly when it is the expected one, in every rendering; the counters equal the verdicts; the script implements `RoutingCheck` (URLs judged in order, once each, and the summary only after the last) |
| `missing_header` | `MC_VerifyRouting_nohdr.cfg` | violation | `NoHeaderNeverVerified` | a 200 without `X-Node-ID` is counted as a verified MISMATCH (finding) |
| `no_timeout` | `MC_VerifyRouting_hang.cfg`, `FairSpec` | violation | `Termination` | `requests.get` has no timeout, so the summary may never come (finding) |

| `throughput_local` | `MC_ThroughputTest.cfg` (no workers) | pass | `TypeOK`, `ReportCoversTest` | over two tests, with errors, hits spelled `HIT` or `hit` and requests abandoned at the stop, the printed result equals the responses of that test |
| `throughput_workers` | `MC_ThroughputTest_workers.cfg` (master + 2 workers) | pass | `ProcessesImplementCounter` | every process, master and workers, implements `ThroughputCounter`: it starts from zero, counts exactly its own users' responses by their true outcome, and prints their result at its stop, whatever order the processes start and stop in |
| `throughput_distributed` | `MC_ThroughputTest_dist.cfg` | violation | `ReportCoversTest` | the master prints 0 requests: the result ignores the workers (finding) |
| `latency_summary` | `MC_LatencyTest.cfg` | violation | `SummaryCountsCompleted` | `on_request` never counts, so the summary says "No requests completed" (finding) |
| `analysis_simple` | `MC_LocustAnalysis.cfg` | pass | `SimpleMatchesLocustAggregate` | the simple script's totals, max and rounded weighted average equal Locust's Aggregated row |
| `analysis_aggregated_row` | `MC_LocustAnalysis_type.cfg` | violation | `LocustStatsOverEndpoints` | `load_stats` keeps the Aggregated row, so its mean includes it (finding) |
| `analysis_direction` | `MC_LocustAnalysis_direction.cfg` | violation | `DirectionStated` | the scripts misstate the direction of the change: `calc_diff` prints `+-` for a decrease, and equal averages are called "slower" (findings) |
| `report_content` | `MC_ReportGenerator.cfg` (3 runs) | pass | `ReportLinksResolve`, `ReportRankingMatchesScores`, `ObservationsMatchData`, `ReportEmbedsFreshCharts` (action property) | the report on disk links only charts on disk; its ranking is the summary chart's, which is the order of the scores; its observations hold of the figures; and it is written only when the same run has just written all four charts completely |
| `report_latency_pick` | `MC_ReportGenerator_latency.cfg` (1 run) | violation | `LatencyRecommendationMatchesData` | the report recommends Koorde for latency-critical systems, but Chord's figures are lower at the average and at P99 (finding) |

**Bounds.** With 12 and 16 bits, ids have 3 and 4 digits. With 4 bits, the mask
clears the high nibble of the first byte. With 0 bits, ids are empty and the
lookup raises. Zero nodes make the ring empty. Two URLs are enough for a
failed request to be followed by a counted one. Three nodes with three digest
choices give collisions, wrap-around keys and keys equal to a node id.

For the load tests, two users with two requests each and two tests are enough
for a request in flight at a stop, a second test in the same process, and a
worker that took part in one test and not the next; statuses 0 (connection
error), 200 and 503 give tests with only errors, where the hit rate must be 0.
For the report generator, three runs are enough for a crashed run between two
others, so that a report of run 1 meets charts of runs 2 and 3. For the analysis, counts 1
and 3 make the weighted mean differ from the plain mean. Averages 2 and 5 give
ties, increases and decreases between the files.

**Fairness.** Only the script's own steps are weakly fair: reading the config,
building the ring, the loop head and the summary. The answer to `requests.get` is
not fair, because the call has no timeout, and that is what `no_timeout` shows.

## 4. Proofs

### `VerifyRoutingProofs`

* `TypeCorrect == Spec => []TypeOK`. The inductive invariant is
  `TypeInv == TypeOK /\ byteLen = ByteLenOf(idBits) /\ numNodes \in ConfigNodes \cup {DefaultNodes} /\ (pc = "wait" => i \in UrlIdx)`.
  The second conjunct is what makes `get_id_from_string` produce hex: with
  `BYTE_LEN = (ID_BITS+7)//8`, `extra_bits \in 0..7`, so the mask is `% 2^k` with
  k in 1..7 (lemma `MaskFirstByteType`, on top of `PowTwoSmall`). The third lets
  `get_node_ids` read `NodeNames[k]`. The lemmas `ToHexType`, `IdType`,
  `ZFillType`, `RenderingsType` and `SortedType` give the type of each helper.
* `SummaryCounts == Spec => []SummaryCountsVerdicts`. The invariant is
  strengthened by `PendingFromI`: the URLs still pending are exactly those from
  `i` on. A `Compare` step therefore adds a URL that was not counted
  (`FS_AddElement`), and a failed request changes neither set.

The proofs hold for every value of the constants under the assumptions
`DigestLenAssumption` and `ConstantsAssumption`.

### `ThroughputProofs`

* `TypeCorrect == Spec => []TypeOK`, for any workers, users, placement and
  bounds. It rests on `RecordType` and `OnStopResultType` (the rounding stays in
  `Nat`), and on the assumption `ThroughputAssumption`.
* `OwnReports == Spec => []ProcessReportsOwnUsers`. The property only speaks
  of a finished test, so it is strengthened to `IInv`. While a process runs
  users (or the Runner is stopping), its `stats` equal its `tally`, the true
  outcomes its users received in the current test. A process that stopped in
  the current test printed `OnStopResult(tally[p])`, and the Runner is no
  longer running. A process that did not take part has an empty tally. A
  request is in flight only while its process runs, only the Runner passes
  through "stopping", and once started the Runner is in the current test
  (`RunnerCurrent`). A `Respond` step keeps `stats = tally` because of
  `OutcomeAgrees`: under the cache's X-Cache contract (`XCacheContract`,
  checked by TLC on every run), the counter the code bumps is the true outcome.
  A worker that starts has not taken part in the current test, so its tally is
  empty when its stats are reset. `IInv` was first checked by TLC on both
  throughput instances.

### `RoutingVerdictProofs`

* `VerdictsFaithful == ASSUME WidthsFit PROVE Spec => []VerdictFaithful`.
  `WidthsFit` says that every `ID_BITS` the run can use (`ConfigBits` and the
  default) fits in the digest. The hypothesis is needed: without it the
  theorem is false. `h[:BYTE_LEN]` is then shorter than `BYTE_LEN`, and
  `zfill` pads a correct answer to a width no expected id has (section 5).
* The inductive invariant `VInv` extends `TypeInv` with two facts. Every id on
  the ring has `2 * byteLen` digits (`RingWidth`, from `IdLength`). The ring
  is empty before it is built.
* The key lemma is `NormaliseRendering`: `zfill` of any rendering of an id,
  at the id's width, gives the id back. It rests on `RefillDropped`: stripping
  leading zeros and padding again is the identity.

### `RoutingRefinement`

* `ImplementsCheck == ASSUME WidthsFit PROVE Spec => RoutingImplementsCheck`,
  that is `Spec => Check!Spec`. It holds for every node list, URL list,
  digest and cache behaviour whose `ID_BITS` fit in the digest.
* The invariant `RefInv` is the conjunction of the two invariants proved
  before, and needs no new strengthening:
  * `CountInv` says the URLs from `i` on are exactly the pending ones. That
    makes URL `i` the next URL to judge (`JudgeStep`). It also means every
    URL is judged when `Summary` runs. Its counter equations give the
    printed summary.
  * `VInv` gives `VerdictFaithful` in the next state, which is what `Judge`
    asks of the new verdict.
* `StepCheck` has one case per kind of step.
* One detail of the proof: `RoutingCheck`'s `Cardinality` is an instance of
  `FiniteSets` of its own. It is identified with the script's by expanding
  both definitions.

### `ThroughputRefinement`

* `ImplementsCounter == Spec => ProcessesImplementCounter`, for any workers,
  users, placement and bounds. `Refinement == Spec => \A p \in Procs : Counter(p)!Spec`
  follows from it.
* The invariant is `RInv == IInv /\ CountsAdd`.
  * `IInv` of `ThroughputProofs` gives that a running process's Stats are its
    true outcomes.
  * `CountsAdd` says that `requests` is the sum of the three outcome
    counters, because each `record_*` bumps both (lemma `RecordAgrees`).
  * With `CountsAdd`, `on_stop`'s result equals `RunResult` of the outcomes
    (`ResultAgrees`).
* `StepCounter` has one case per action. Each case splits on whether p is the
  process the action is about.
* `ReportCoversLocal == ASSUME Workers = {} PROVE Spec => []ReportCoversTest`.
  * With no workers, the totals over all processes are the Runner's own
    counters (`TotalLocal`, from `SumSingleton` on the fold behind
    `SumFunction`).
  * Once the Runner has stopped in the current test, `IInv` says it printed
    `OnStopResult(tally[Runner])`.
  * `CountsAdd` turns `hit_rate`'s hits + misses into requests minus errors
    (`HitRateTrue`).
  * The report differs from `NoReport` by `NoReportAssumption`.
  * In distributed mode the theorem is false, and `throughput_distributed`
    shows it.

### `ReportProofs`

* `LinksResolve == Spec => []ReportLinksResolve`, for any number of runs. The
  invariant `ChainInv` says that within a run each step finds the charts of
  the steps before it written completely by this run. A write never puts
  `NoFile` under a name (`NoFile \notin FileState`, from
  `ReportAssumption`), so nothing on disk disappears. When the report is
  written, at `pc = "report"`, all four links are therefore on disk.
* `FreshCharts == Spec => ReportEmbedsFreshCharts`, the action property. It
  follows from the same invariant (`StepFresh`): the only step that writes the
  report completely is taken at `pc = "report"`.

What these do not say: a later run that crashes while rewriting a chart leaves
the report of an earlier run beside a truncated chart. This is reachable in the
model (`WriteFails` leaves the file truncated), and the script promises nothing
about it.

**Only model-checked:**
* `ExpectedIsSuccessor`. It says that the string sort of the hex ids is their
  numeric order (`HexVal`). Proving that the two agree for ids of equal width
  needs induction over the length of the digit string. The provers cannot
  instantiate the library's induction theorems.
* `SimpleMatchesLocustAggregate`. It relates sums and a weighted mean over an
  arbitrary list of CSV rows, which again needs induction over the rows.
* `ReportRankingMatchesScores` and `ObservationsMatchData`. They are about the
  figures hard-coded in `generate-report.py`, which have no constant to vary.
  TLC's run evaluates them on the only data there is, so a theorem would add
  nothing.
* `ReportCoversTest` in distributed mode, where it is violated.
* All liveness (`Termination`), which TLAPS cannot reach here.

The load-test, report and analysis runs have no fairness: they check safety only. The
load tests stop when Locust's run time is over, and the analysis scripts end,
so those runs set `CHECK_DEADLOCK FALSE`.

## 5. Not modelled, and the plan

* Next: `generate_summary_report`'s multi-directory tables and Key Findings
  (the unguarded division at `analyze_results_simple.py:226`; the one at
  `analyze_locust_results.py:118` divides pandas floats, so a zero average
  prints `inf` or `nan` and raises nothing), and `total_latency`/`request_count`
  carried across tests in `LatencyTest`.
* Then the liveness of the stop in distributed mode (every worker eventually
  prints once the master stops).
* Reachable but not checked by a run: an `ID_BITS` wider than the 160-bit
  digest, which `load_config` accepts. It is the hypothesis `WidthsFit` of
  `VerdictsFaithful`. `h[:BYTE_LEN]` is then shorter than
  `BYTE_LEN`, and `zfill` pads a correct answer to a width the expected id never
  has, so every routing is reported MISMATCH. The runs keep `ID_BITS` within
  the digest.
* Not modelled: SHA-1 itself, the text of the prints, the layout of the charts
  (axis limits included), negative configuration values, the letter case of the
  header in `verify_routing.py`, and Locust's timing (wait times, rps,
  duration).
