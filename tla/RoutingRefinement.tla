------------------------- MODULE RoutingRefinement -------------------------
(***************************************************************************)
(* Proof that VerifyRouting implements RoutingCheck under the mapping      *)
(* VerifyRouting!Check, for every node list, URL list, digest and cache   *)
(* behaviour whose ID_BITS fit in the digest (WidthsFit).                 *)
(*                                                                         *)
(* The invariant is the conjunction of the two already proved:            *)
(*  - CountInv (VerifyRoutingProofs): the URLs from i on are exactly the  *)
(*    pending ones, which makes URL i the next URL to judge and every URL *)
(*    judged once i is past the list, and the counters equal the numbers  *)
(*    of MATCH and compared verdicts, which is what the summary prints;   *)
(*  - VInv (RoutingVerdictProofs): the verdicts are faithful, which is    *)
(*    what a Judge step demands of the new verdict.                       *)
(* The steps that only load the configuration, build the ring or prepare  *)
(* a request leave the image unchanged.                                   *)
(***************************************************************************)
EXTENDS RoutingVerdictProofs

RefInv == VInv /\ CountInv

LEMMA InitRefInv == Init => RefInv
BY InitVInv, InitCountInv DEF RefInv

LEMMA NextRefInv ==
  ASSUME WidthsFit
  PROVE  RefInv /\ [Next]_vars => RefInv'
BY NextVInv, NextCountInv DEF RefInv

-----------------------------------------------------------------------------
(***************************************************************************)
(* The image of the state.                                                 *)
(***************************************************************************)

\* The abstract URL indices are the script's.
LEMMA UrlIdxAgrees == Check!UrlIdx = UrlIdx
BY DEF Check!UrlIdx, UrlIdx

\* The judgement of URL u in the image is the status the script reported.
LEMMA JudgedAgrees ==
  ASSUME NEW u \in UrlIdx
  PROVE  /\ Check!Judged(u) <=> result[u].status # "pending"
         /\ Check!Compared(u) <=> Verified(u)
         /\ Check!Judged(u)' <=> result'[u].status # "pending"
         /\ Check!Compared(u)' <=> Verified(u)'
BY DEF Check!Judged, Check!Compared, Verdicts, Verified

LEMMA InitCheck == Init => Check!Init
<1> SUFFICES ASSUME Init PROVE Check!Init
  OBVIOUS
<1>1. DOMAIN Verdicts = Check!UrlIdx
  BY UrlIdxAgrees DEF Verdicts
<1>2. \A u \in UrlIdx : result[u].status = "pending"
  BY DEF Init
<1>. QED
  BY <1>1, <1>2, UrlIdxAgrees, JudgedAgrees DEF Check!Init, Init

-----------------------------------------------------------------------------
(***************************************************************************)
(* The steps.                                                              *)
(***************************************************************************)

\* A step that gives URL i its verdict, at pc = "wait", is Judge(i) when
\* the new verdict is one of the three final ones and faithful.
LEMMA JudgeStep ==
  ASSUME RefInv, pc = "wait", pc' = "loop",
         result' \in [UrlIdx -> Result],
         result'[i].status \in {"match", "mismatch", "unverifiable"},
         \A u \in UrlIdx \ {i} : result'[u] = result[u],
         result'[i].status \in {"match", "mismatch"} /\ result'[i].owner # NoOwner
           => (result'[i].status = "match" <=> result'[i].owner = result'[i].expected)
  PROVE  Check!Judge(i)
<1>1. i \in UrlIdx /\ result \in [UrlIdx -> Result]
  BY DEF RefInv, VInv, TypeInv, TypeOK
<1>2. Check!NextUrl(i)
  <2>1. result[i].status = "pending"
    BY <1>1 DEF RefInv, CountInv, PendingFromI, UrlIdx
  <2>2. ASSUME NEW w \in 1..(i - 1) PROVE result[w].status # "pending"
    <3>1. w \in UrlIdx /\ ~(i <= w)
      BY <1>1 DEF UrlIdx
    <3>. QED
      BY <3>1 DEF RefInv, CountInv, PendingFromI
  <2>3. \A w \in 1..(i - 1) : w \in UrlIdx
    BY <1>1 DEF UrlIdx
  <2>. QED
    BY <1>1, <2>1, <2>2, <2>3, JudgedAgrees DEF Check!NextUrl
<1>3. Verdicts'[i].status \in {"match", "mismatch", "unverifiable"}
  BY <1>1 DEF Verdicts
<1>4. Verdicts' = [Verdicts EXCEPT ![i] = Verdicts'[i]]
  BY <1>1 DEF Verdicts
<1>5. Check!Faithful(Verdicts'[i])
  BY <1>1 DEF Check!Faithful, Verdicts
<1>. QED
  BY <1>2, <1>3, <1>4, <1>5 DEF Check!Judge

\* Every step of the script is a step of RoutingCheck or leaves its image
\* unchanged.
LEMMA StepCheck ==
  ASSUME WidthsFit, RefInv, [Next]_vars
  PROVE  [Check!Next]_(Check!chvars)
<1>0. RefInv'
  BY NextRefInv
<1>1. i \in 1..(Len(Urls) + 1) /\ result \in [UrlIdx -> Result]
      /\ result' \in [UrlIdx -> Result] /\ (pc = "wait" => i \in UrlIdx)
  BY <1>0 DEF RefInv, VInv, TypeInv, TypeOK
\* Loading the configuration, building the ring, preparing a request.
<1>2. CASE UNCHANGED << result, matchCount, totalCount >>
           /\ pc \in {"load", "ring", "loop"} /\ pc' \in {"ring", "loop", "wait"}
  BY <1>2 DEF Check!chvars, Verdicts
<1>3. CASE LookupRaises
  BY <1>3 DEF LookupRaises, Check!Next, Check!Crash, Verdicts
<1>4. CASE Summary
  <2>1. \A u \in UrlIdx : result[u].status # "pending"
    BY <1>1, <1>4 DEF Summary, RefInv, CountInv, PendingFromI, UrlIdx
  <2>2. /\ {u \in Check!UrlIdx : Verdicts[u].status = "match"} = MatchedSet
        /\ {u \in Check!UrlIdx : Check!Compared(u)} = VerifiedSet
    BY UrlIdxAgrees, JudgedAgrees DEF Verdicts, MatchedSet, VerifiedSet, Matched
  <2>3. << matchCount, totalCount >>
          = << Cardinality(MatchedSet), Cardinality(VerifiedSet) >>
    BY DEF RefInv, CountInv, SummaryCountsVerdicts, MatchedSet, VerifiedSet
  <2>4. \A u \in Check!UrlIdx : Check!Judged(u)
    BY <2>1, UrlIdxAgrees, JudgedAgrees
  <2>5. UNCHANGED << result, matchCount, totalCount >> /\ pc = "loop" /\ pc' = "done"
    BY <1>4 DEF Summary
  <2>6. Verdicts' = Verdicts
    BY <2>5 DEF Verdicts
  <2>7. /\ Check!Cardinality(MatchedSet) = Cardinality(MatchedSet)
        /\ Check!Cardinality(VerifiedSet) = Cardinality(VerifiedSet)
    BY DEF Check!Cardinality, Cardinality
  <2>8. Check!Finish
    BY <2>2, <2>3, <2>4, <2>5, <2>6, <2>7 DEF Check!Finish
  <2>. QED
    BY <2>8 DEF Check!Next
<1>5. CASE RequestFailed
  <2>1. /\ result'[i].status = "unverifiable"
        /\ \A u \in UrlIdx \ {i} : result'[u] = result[u]
    BY <1>1, <1>5 DEF RequestFailed
  <2>3. Check!Judge(i)
    BY <1>1, <1>5, <2>1, JudgeStep DEF RequestFailed
  <2>. QED
    BY <1>1, <1>5, <2>3, UrlIdxAgrees DEF RequestFailed, Check!Next
\* A compared answer, with or without the header.
<1>6. CASE pc = "wait" /\ \E owner, digits : Compare(owner, digits)
  <2>1. PICK owner, digits : Compare(owner, digits)
    BY <1>6
  <2>2. /\ result'[i].status \in {"match", "mismatch"}
        /\ result'[i].owner = owner
        /\ \A u \in UrlIdx \ {i} : result'[u] = result[u]
    BY <1>1, <1>6, <2>1 DEF Compare
  <2>3. result'[i].status \in {"match", "mismatch"} /\ result'[i].owner # NoOwner
          => (result'[i].status = "match" <=> result'[i].owner = result'[i].expected)
    BY <1>0, <1>1, <1>6 DEF RefInv, VInv, VerdictFaithful, Verified, Matched
  <2>4. Check!Judge(i)
    BY <1>1, <1>6, <2>1, <2>2, <2>3, JudgeStep DEF Compare
  <2>. QED
    BY <1>1, <1>6, <2>1, <2>4, UrlIdxAgrees DEF Compare, Check!Next
<1>7. CASE UNCHANGED vars
  BY <1>7 DEF vars, Check!chvars, Verdicts
<1>. QED
  <2>1. CASE LoadConfigDefaults \/ GetNodeIds \/ SendRequest
    BY <1>2, <2>1 DEF LoadConfigDefaults, GetNodeIds, SendRequest
  <2>2. ASSUME NEW hn, NEW n, NEW hb, NEW b, LoadConfigRead(hn, n, hb, b)
        PROVE  [Check!Next]_(Check!chvars)
    BY <1>2, <2>2 DEF LoadConfigRead
  <2>3. CASE ResponseOk \/ ResponseNoHeader
    BY <1>6, <2>3 DEF ResponseOk, ResponseNoHeader
  <2>. QED
    BY <1>3, <1>4, <1>5, <1>7, <2>1, <2>2, <2>3 DEF Next

\* For every configuration whose ID_BITS fits in the digest, every node
\* list, URL list and cache behaviour, test_routing implements
\* RoutingCheck: URLs judged in order, once each, faithfully, and a summary
\* that comes after the last URL and counts the verdicts.
THEOREM ImplementsCheck ==
  ASSUME WidthsFit
  PROVE  Spec => RoutingImplementsCheck
<1>1. Init => Check!Init
  BY InitCheck
<1>2. RefInv /\ [Next]_vars => [Check!Next]_(Check!chvars)
  BY StepCheck
<1>3. Init => RefInv
  BY InitRefInv
<1>4. RefInv /\ [Next]_vars => RefInv'
  BY NextRefInv
<1>. QED
  BY <1>1, <1>2, <1>3, <1>4, PTL DEF Spec, RoutingImplementsCheck, Check!Spec

=============================================================================
