--------------------------- MODULE VerifyRouting ---------------------------
(***************************************************************************)
(* The routing verifier, src/test/verify_routing.py: load_config          *)
(* followed by test_routing.  The script builds the sorted ring of node   *)
(* identifiers, then for every URL of its list computes the expected      *)
(* owner, asks the live cache (GET /cache?url=...) and compares the       *)
(* X-Node-ID header with the prediction, counting matches and verified    *)
(* URLs.                                                                   *)
(*                                                                         *)
(* The live cache is the environment: for each request it either fails   *)
(* (non-200 status or an exception from requests.get), or answers 200    *)
(* naming some node of the ring, with or without zero padding, and, when *)
(* MissingHeader is TRUE, possibly without the header at all.  An        *)
(* optional 0x prefix is deleted by .replace("0x", "") before anything   *)
(* else, and hex digits never contain "0x", so it is not represented.    *)
(* The owner the cache meant is recorded in the result as "owner", so    *)
(* that the properties can compare the script's verdict with the truth.  *)
(***************************************************************************)
EXTENDS RoutingOracle

CONSTANTS
  DefaultNodes,   \* NUM_NODES = 8 at module level
  DefaultBits,    \* ID_BITS = 66 at module level
  ConfigNodes,    \* values a verify_routing_config.json may give NUM_NODES
  ConfigBits,     \* values it may give ID_BITS
  NodeNames,      \* NodeNames[i + 1] is the name "koorde-node-<i>"
  Urls,           \* the list of URLs test_routing verifies
  DigestChoices,  \* the digests a name may have
  MissingHeader,  \* may a 200 response lack the X-Node-ID header?
  NoOwner         \* the owner of a response that carries no header

ASSUME ConstantsAssumption ==
  /\ DefaultNodes \in Nat /\ DefaultBits \in Nat
  /\ ConfigNodes \subseteq Nat /\ ConfigBits \subseteq Nat
  /\ NodeNames \in Seq(Range(NodeNames))
  /\ Urls \in Seq(Range(Urls))
  /\ \A n \in ConfigNodes \cup {DefaultNodes} : n <= Len(NodeNames)
  /\ DigestChoices # {}
  /\ DigestChoices \subseteq [1..DigestLen -> Byte]
  /\ MissingHeader \in BOOLEAN
  /\ NoOwner \notin Hex

VARIABLES
  digest,      \* SHA-1 digest of every name (fixed for the run)
  numNodes,    \* NUM_NODES
  idBits,      \* ID_BITS
  byteLen,     \* BYTE_LEN
  pc,          \* where test_routing is
  nodeIds,     \* node_ids: the sorted ring
  i,           \* index of the URL being verified
  key,         \* key_hex of the current URL
  expected,    \* expected_node of the current URL
  matchCount,  \* match_count
  totalCount,  \* total_count
  result       \* per URL: what was printed about it, and the true owner

vars == << digest, numNodes, idBits, byteLen, pc, nodeIds, i, key, expected,
           matchCount, totalCount, result >>

UrlIdx == 1..Len(Urls)
Names  == Range(NodeNames) \cup Range(Urls)
Status == {"pending", "match", "mismatch", "unverifiable"}

\* The identifier of a name under the current globals.
IdOf(name) == GetIdFromString(digest[name], byteLen, idBits)

\* The digit strings a 200 response may carry in X-Node-ID for the node
\* whose identifier is x: x with some of its leading zeros dropped (at
\* least one digit kept), or x zero-padded to w digits.
LeadingZeroCounts(x) == { d \in 0..(Len(x) - 1) : \A k \in 1..d : x[k] = 0 }
PadTo(x, w) == [k \in 1..(w - Len(x)) |-> 0] \o x
Renderings(x, w) ==
  { SubSeq(x, d + 1, Len(x)) : d \in LeadingZeroCounts(x) } \cup { PadTo(x, w) }

-----------------------------------------------------------------------------
Init ==
  /\ digest \in [Names -> DigestChoices]
  /\ numNodes = DefaultNodes
  /\ idBits = DefaultBits
  /\ byteLen = ByteLenOf(DefaultBits)
  /\ pc = "load"
  /\ nodeIds = << >>
  /\ i = 1
  /\ key = << >>
  /\ expected = << >>
  /\ matchCount = 0
  /\ totalCount = 0
  /\ result = [u \in UrlIdx |->
                 [status |-> "pending", key |-> << >>, expected |-> << >>,
                  actual |-> << >>, owner |-> NoOwner]]

\* load_config when the file does not exist or json.load fails: the
\* defaults stay.
LoadConfigDefaults ==
  /\ pc = "load"
  /\ pc' = "ring"
  /\ UNCHANGED << digest, numNodes, idBits, byteLen, nodeIds, i, key, expected,
                  matchCount, totalCount, result >>

\* load_config with a readable file: each field present overrides its
\* global, and BYTE_LEN is recomputed from ID_BITS.
LoadConfigRead(hasNodes, n, hasBits, b) ==
  /\ pc = "load"
  /\ numNodes' = IF hasNodes THEN n ELSE numNodes
  /\ idBits' = IF hasBits THEN b ELSE idBits
  /\ byteLen' = ByteLenOf(idBits')
  /\ pc' = "ring"
  /\ UNCHANGED << digest, nodeIds, i, key, expected, matchCount, totalCount, result >>

\* get_node_ids: the ids of koorde-node-0 .. koorde-node-(NUM_NODES-1),
\* sorted as strings.
GetNodeIds ==
  /\ pc = "ring"
  /\ nodeIds' \in SortedPermutations([k \in 1..numNodes |-> IdOf(NodeNames[k])])
  /\ pc' = "loop"
  /\ UNCHANGED << digest, numNodes, idBits, byteLen, i, key, expected,
                  matchCount, totalCount, result >>

\* Loop head for URL i: key and expected owner are computed, then the
\* blocking requests.get is issued.
SendRequest ==
  /\ pc = "loop"
  /\ i <= Len(Urls)
  /\ ~ScanRaises(IdOf(Urls[i]), nodeIds)
  /\ key' = IdOf(Urls[i])
  /\ \E j \in DOMAIN nodeIds :
        /\ ScanStopsAt(j, key', nodeIds)
        /\ expected' = nodeIds[j]
  /\ pc' = "wait"
  /\ UNCHANGED << digest, numNodes, idBits, byteLen, nodeIds, i, matchCount,
                  totalCount, result >>

\* get_responsible_node raises (zero-byte ids or an empty ring) outside the
\* try block: the script dies before any comparison of that URL.
LookupRaises ==
  /\ pc = "loop"
  /\ i <= Len(Urls)
  /\ ScanRaises(IdOf(Urls[i]), nodeIds)
  /\ pc' = "crashed"
  /\ UNCHANGED << digest, numNodes, idBits, byteLen, nodeIds, i, key, expected,
                  matchCount, totalCount, result >>

\* Mutant: total_count incremented before the status check.
RequestFailedCounted ==
  /\ pc = "wait"
  /\ result' = [result EXCEPT ![i] = [@ EXCEPT !.status = "unverifiable",
                                              !.key = key,
                                              !.expected = expected]]
  /\ totalCount' = totalCount + 1
  /\ i' = i + 1
  /\ pc' = "loop"
  /\ UNCHANGED << digest, numNodes, idBits, byteLen, nodeIds, key, expected,
                  matchCount >>

\* A non-200 status (continue) or an exception from requests.get (caught):
\* the URL is reported as a failed request and not counted.
RequestFailed ==
  /\ pc = "wait"
  /\ result' = [result EXCEPT ![i] = [@ EXCEPT !.status = "unverifiable",
                                              !.key = key,
                                              !.expected = expected]]
  /\ i' = i + 1
  /\ pc' = "loop"
  /\ UNCHANGED << digest, numNodes, idBits, byteLen, nodeIds, key, expected,
                  matchCount, totalCount >>

\* A 200 response whose X-Node-ID names the node with identifier owner (or no
\* header: owner = NoOwner, and headers.get gives "").  The prefix is
\* removed, the rest zero-filled to BYTE_LEN * 2 and compared as a string.
Compare(owner, digits) ==
  LET actual == ZFill(digits, byteLen * 2)
      same   == actual = expected
  IN  /\ result' = [result EXCEPT ![i] =
                      [status |-> IF same THEN "match" ELSE "mismatch",
                       key |-> key, expected |-> expected,
                       actual |-> actual, owner |-> owner]]
      /\ matchCount' = IF same THEN matchCount + 1 ELSE matchCount
      /\ totalCount' = totalCount + 1
      /\ i' = i + 1
      /\ pc' = "loop"
      /\ UNCHANGED << digest, numNodes, idBits, byteLen, nodeIds, key, expected >>

ResponseOk ==
  /\ pc = "wait"
  /\ \E owner \in Range(nodeIds) :
        \E digits \in Renderings(owner, 2 * byteLen) : Compare(owner, digits)

ResponseNoHeader ==
  /\ pc = "wait"
  /\ MissingHeader
  /\ Compare(NoOwner, << >>)

\* Mutant: the summary printed without waiting for the end of the loop.
SummaryEarly ==
  /\ pc = "loop"
  /\ pc' = "done"
  /\ UNCHANGED << digest, numNodes, idBits, byteLen, nodeIds, i, key, expected,
                  matchCount, totalCount, result >>

\* After the last URL the summary is printed and the script ends.
Summary ==
  /\ pc = "loop"
  /\ i > Len(Urls)
  /\ pc' = "done"
  /\ UNCHANGED << digest, numNodes, idBits, byteLen, nodeIds, i, key, expected,
                  matchCount, totalCount, result >>

Next ==
  \/ LoadConfigDefaults
  \/ \E hn \in BOOLEAN, n \in ConfigNodes, hb \in BOOLEAN, b \in ConfigBits :
        LoadConfigRead(hn, n, hb, b)
  \/ GetNodeIds
  \/ SendRequest
  \/ LookupRaises
  \/ RequestFailed
  \/ ResponseOk
  \/ ResponseNoHeader
  \/ Summary

Spec == Init /\ [][Next]_vars

\* The script's own steps are taken whenever they can be; the responses of
\* the live cache are not promised (requests.get is called without a
\* timeout).
Fairness ==
  /\ WF_vars(LoadConfigDefaults \/ \E hn \in BOOLEAN, n \in ConfigNodes,
               hb \in BOOLEAN, b \in ConfigBits : LoadConfigRead(hn, n, hb, b))
  /\ WF_vars(GetNodeIds)
  /\ WF_vars(SendRequest \/ LookupRaises)
  /\ WF_vars(Summary)

FairSpec == Spec /\ Fairness

-----------------------------------------------------------------------------
(***************************************************************************)
(* Properties.                                                             *)
(***************************************************************************)

Result == [status : Status, key : Hex, expected : Hex, actual : Hex,
           owner : Hex \cup {NoOwner}]

TypeOK ==
  /\ digest \in [Names -> DigestChoices]
  /\ numNodes \in Nat /\ idBits \in Nat /\ byteLen \in Nat
  /\ pc \in {"load", "ring", "loop", "wait", "done", "crashed"}
  /\ nodeIds \in Seq(Hex)
  /\ i \in 1..(Len(Urls) + 1)
  /\ key \in Hex /\ expected \in Hex
  /\ matchCount \in Nat /\ totalCount \in Nat
  /\ result \in [UrlIdx -> Result]

Verified(u) == result[u].status \in {"match", "mismatch"}
Matched(u)  == result[u].status = "match"

\* The SUMMARY line of test_routing, "match_count/total_count matches",
\* counts exactly the URLs reported MATCH over the URLs that got a 200
\* answer and were compared: a failed request is "could not verify" and
\* adds to neither count, whatever happened to the URLs before it.
SummaryCountsVerdicts ==
  /\ matchCount = Cardinality({u \in UrlIdx : Matched(u)})
  /\ totalCount = Cardinality({u \in UrlIdx : Verified(u)})

\* The owner get_responsible_node predicts after get_node_ids sorted the
\* node ids as strings is the successor of the key on the numeric ring:
\* the node whose arc (predecessor, node] holds the key, the smallest node
\* taking the keys above the largest.
ExpectedIsSuccessor ==
  \A u \in UrlIdx :
     result[u].status # "pending" =>
        /\ result[u].expected \in Range(nodeIds)
        /\ OwnsKey(HexVal(result[u].expected), HexVal(result[u].key),
                   RingValues(nodeIds))

\* A URL whose 200 answer named a node is reported MATCH exactly when that
\* node is the predicted owner: the 0x stripping and zero filling of the
\* X-Node-ID header neither hide a wrong owner nor reject a right one.
VerdictFaithful ==
  \A u \in UrlIdx :
     Verified(u) /\ result[u].owner # NoOwner =>
        (Matched(u) <=> result[u].owner = result[u].expected)

\* A 200 response without an X-Node-ID header cannot show which node
\* served the URL, so the URL is never counted as verified (spec: a
\* missing header is "could not verify", not a routing mismatch).
NoHeaderNeverVerified ==
  \A u \in UrlIdx : result[u].owner = NoOwner => ~Verified(u)

\* test_routing eventually prints its summary (or dies on a bad
\* configuration): no request can hold it up forever.
Termination == <>(pc \in {"done", "crashed"})


-----------------------------------------------------------------------------
(***************************************************************************)
(* Refinement: test_routing implements RoutingCheck.  The verdict on URL u *)
(* is its status with the owner the answer named and the owner predicted; *)
(* every step before the summary, and every step that only prepares a     *)
(* request, is seen as "running"; the summary is the two counters once   *)
(* printed.                                                               *)
(***************************************************************************)
Verdicts == [u \in UrlIdx |-> [status    |-> result[u].status,
                                answer    |-> result[u].owner,
                                predicted |-> result[u].expected]]

Check == INSTANCE RoutingCheck WITH
           UrlCount <- Len(Urls),
           verdict  <- Verdicts,
           phase    <- IF pc \in {"done", "crashed"} THEN pc ELSE "running",
           summary  <- IF pc = "done" THEN << matchCount, totalCount >> ELSE << >>

\* test_routing does what RoutingCheck promises: it judges the URLs in list
\* order, each once and never again, a named owner is MATCH exactly when it
\* is the predicted one, and the SUMMARY comes only after the last URL and
\* counts the MATCH verdicts over the compared URLs.
RoutingImplementsCheck == Check!Spec

=============================================================================
