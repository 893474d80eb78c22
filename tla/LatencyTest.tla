---------------------------- MODULE LatencyTest ----------------------------
(***************************************************************************)
(* The latency load test, src/test/locustfile.py, in one Locust process.  *)
(* KoordeCacheUser greenlets run four weighted tasks; each task sends one *)
(* GET with catch_response=True and marks the response a success or a     *)
(* failure.  When the with-block ends, Locust fires the request event     *)
(* with exception = None for a success and the failure otherwise, and the *)
(* on_request listener adds the X-Latency-Ms header to the module globals *)
(* total_latency and request_count.  When the test stops Locust kills the *)
(* users (a request in flight is abandoned) and on_test_stop prints the   *)
(* count and the average.                                                  *)
(*                                                                         *)
(* The task weights and the Zipf choice of URL decide only which task and *)
(* URL come next, so they are a nondeterministic choice here.  The cache  *)
(* answers any status, any X-Cache value of XCacheValues, and an          *)
(* X-Latency-Ms that is a number, absent, or not a number.                *)
(***************************************************************************)
EXTENDS Naturals, Sequences, SequencesExt

CONSTANTS
  Users,         \* KoordeCacheUser greenlets
  Statuses,      \* status codes the cache may answer with (200 among them)
  XCacheValues,  \* X-Cache values the cache may send (character sequences)
  Latencies,     \* X-Latency-Ms values that parse as numbers (ms, in Nat)
  BadLatency,    \* an X-Latency-Ms value float() rejects (not a number)
  NoHeader,      \* X-Latency-Ms absent (not a number)
  MaxRequests,   \* requests a user may send in a behaviour
  NoSummary      \* on_test_stop has not printed yet

Tasks == {"cache_request_zipf", "cache_request_random", "health_check",
          "metrics_check"}

\* The request context Locust passes to the listeners is the dict built by
\* HttpSession.request; a dict has no attribute "headers", so
\* hasattr(context, 'headers') is FALSE for every request of this file.
ContextHasHeaders == FALSE

VARIABLES
  phase,         \* the runner: "running" or "stopped"
  upc,           \* upc[u]: "idle" or the task whose request is in flight
  sent,          \* sent[u]: requests user u has sent
  totalLatency,  \* total_latency
  requestCount,  \* request_count
  completed,     \* requests the request event reported without exception
  summary        \* the request count on_test_stop printed (0: "No requests completed")

vars == << phase, upc, sent, totalLatency, requestCount, completed, summary >>

\* The success test of the task whose response arrived: the Zipf task
\* wants a 200 whose X-Cache contains HIT or MISS (case-sensitive), the
\* three others any 200.
TaskSucceeds(task, status, xcache) ==
  /\ status = 200
  /\ task = "cache_request_zipf" =>
        \/ <<"H", "I", "T">> \in SubSeqs(xcache)
        \/ <<"M", "I", "S", "S">> \in SubSeqs(xcache)

\* float(context.headers.get("X-Latency-Ms", "0")): an absent header
\* reads as 0.
LatencyValue(hdr) == IF hdr = NoHeader THEN 0 ELSE hdr

\* on_request: counts a request reported without exception, when the
\* context has headers and X-Latency-Ms parses; a ValueError is ignored.
OnRequest(ok, hdr) ==
  IF ok /\ ContextHasHeaders /\ hdr # BadLatency
    THEN /\ totalLatency' = totalLatency + LatencyValue(hdr)
         /\ requestCount' = requestCount + 1
    ELSE UNCHANGED << totalLatency, requestCount >>

-----------------------------------------------------------------------------
Init ==
  /\ phase = "running"
  /\ upc = [u \in Users |-> "idle"]
  /\ sent = [u \in Users |-> 0]
  /\ totalLatency = 0
  /\ requestCount = 0
  /\ completed = 0
  /\ summary = NoSummary

\* A user picks a task and sends its request; the greenlet yields.
SendRequest(u, task) ==
  /\ phase = "running"
  /\ upc[u] = "idle"
  /\ sent[u] < MaxRequests
  /\ upc' = [upc EXCEPT ![u] = task]
  /\ sent' = [sent EXCEPT ![u] = @ + 1]
  /\ UNCHANGED << phase, totalLatency, requestCount, completed, summary >>

\* The response arrives: the task marks it, the with-block ends and the
\* request event runs on_request, all without a switch.
Complete(u, status, xcache, hdr) ==
  LET ok == TaskSucceeds(upc[u], status, xcache)
  IN  /\ upc[u] \in Tasks
      /\ OnRequest(ok, hdr)
      /\ completed' = IF ok THEN completed + 1 ELSE completed
      /\ upc' = [upc EXCEPT ![u] = "idle"]
      /\ UNCHANGED << phase, sent, summary >>

\* The test stops: the users are killed and on_test_stop prints the count
\* and average latency when request_count > 0, else "No requests
\* completed" (recorded as a count of 0).
StopTest ==
  /\ phase = "running"
  /\ phase' = "stopped"
  /\ upc' = [u \in Users |-> "idle"]
  /\ summary' = requestCount
  /\ UNCHANGED << sent, totalLatency, requestCount, completed >>

Next ==
  \/ \E u \in Users, task \in Tasks : SendRequest(u, task)
  \/ \E u \in Users, status \in Statuses, xcache \in XCacheValues,
        hdr \in Latencies \cup {BadLatency, NoHeader} :
        Complete(u, status, xcache, hdr)
  \/ StopTest

Spec == Init /\ [][Next]_vars

-----------------------------------------------------------------------------
\* The KOORDE CACHE LATENCY TEST SUMMARY reports, as Total Requests, the
\* requests that completed without exception, and prints "No requests
\* completed" only when none did.
SummaryCountsCompleted ==
  summary # NoSummary => summary = completed

=============================================================================
