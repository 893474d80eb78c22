------------------------ MODULE VerifyRoutingProofs ------------------------
(***************************************************************************)
(* Proofs about VerifyRouting: the type invariant, and the agreement of   *)
(* the SUMMARY counters with the per-URL verdicts, for every value of the *)
(* constants.                                                              *)
(***************************************************************************)
EXTENDS VerifyRouting, SequenceTheorems, FiniteSetTheorems, TLAPS

-----------------------------------------------------------------------------
(***************************************************************************)
(* Identifier derivation yields hex strings.                               *)
(***************************************************************************)

\* The slice h[:n] of a byte string is a byte string.
LEMMA DigestPrefixType ==
  ASSUME NEW h \in Seq(Byte), NEW n \in Nat
  PROVE  DigestPrefix(h, n) \in Seq(Byte)
<1>1. \A k \in 1..(IF n < Len(h) THEN n ELSE Len(h)) : h[k] \in Byte
  BY ElementOfSeq
<1>. QED
  BY <1>1, SubSeqProperties DEF DigestPrefix

\* The masks 0xFF >> e for e in 1..7 keep 1..7 low bits: 2^(8-e) in 2..128.
LEMMA PowTwoSmall ==
  ASSUME NEW e \in 1..7
  PROVE  2 ^ e \in 2..128
<1>1. e = 1 \/ e = 2 \/ e = 3 \/ e = 4 \/ e = 5 \/ e = 6 \/ e = 7
  OBVIOUS
<1>2. CASE e = 1  BY <1>2
<1>3. CASE e = 2  BY <1>3
<1>4. CASE e = 3  BY <1>4
<1>5. CASE e = 4  BY <1>5
<1>6. CASE e = 5  BY <1>6
<1>7. CASE e = 6  BY <1>7
<1>8. CASE e = 7  BY <1>8
<1>. QED
  BY <1>1, <1>2, <1>3, <1>4, <1>5, <1>6, <1>7, <1>8

\* buf[0] &= mask keeps a byte a byte.
LEMMA ModIsByte ==
  \A x \in Byte, m \in 1..256 : x % m \in Byte
BY DEF Byte

\* With BYTE_LEN = (ID_BITS + 7) // 8, extra_bits lies in 0..7, so masking
\* the first byte with 0xFF >> extra_bits leaves a byte string.
LEMMA MaskFirstByteType ==
  ASSUME NEW buf \in Seq(Byte), NEW b \in Nat
  PROVE  MaskFirstByte(buf, ByteLenOf(b), b) \in Seq(Byte)
<1> DEFINE extra == ByteLenOf(b) * 8 - b
<1>1. extra \in 0..7
  BY DEF ByteLenOf
<1>2. CASE extra > 0
  <2>1. 8 - extra \in 1..7
    BY <1>1, <1>2
  <2>2. PICK m \in 2..128 : m = 2 ^ (8 - extra)
    BY <2>1, PowTwoSmall
  <2>3. buf \in [1..Len(buf) -> Byte] /\ Len(buf) \in Nat
    BY LenProperties
  <2>4. \A x \in Byte : x % m \in Byte
    BY ModIsByte
  <2>5. [buf EXCEPT ![1] = @ % m] \in Seq(Byte)
    <3>1. [buf EXCEPT ![1] = @ % m] \in [1..Len(buf) -> Byte]
      BY <2>3, <2>4
    <3>. QED
      BY <3>1, <2>3, SeqDef
  <2>. QED
    BY <2>5, <2>2, <1>2, Zenon DEF MaskFirstByte
<1>3. CASE ~(extra > 0)
  BY <1>3 DEF MaskFirstByte
<1>. QED
  BY <1>2, <1>3

\* bytes.hex() of a byte string is a string of hex digits.
LEMMA ToHexType ==
  ASSUME NEW buf \in Seq(Byte)
  PROVE  ToHex(buf) \in Hex
<1>1. Len(buf) \in Nat /\ buf \in [1..Len(buf) -> Byte]
  BY LenProperties
<1>2. \A k \in 1..(2 * Len(buf)) :
        /\ (k + 1) \div 2 \in 1..Len(buf)
        /\ k \div 2 \in 1..Len(buf) \/ k % 2 = 1
  BY <1>1
<1>3. \A x \in Byte : x \div 16 \in Nibble /\ x % 16 \in Nibble
  BY DEF Byte, Nibble
<1>4. ToHex(buf) \in [1..(2 * Len(buf)) -> Nibble]
  BY <1>1, <1>2, <1>3 DEF ToHex
<1>. QED
  BY <1>1, <1>4, SeqDef DEF Hex

\* get_id_from_string gives a hex string whenever BYTE_LEN matches ID_BITS.
LEMMA IdType ==
  ASSUME NEW h \in [1..DigestLen -> Byte], NEW b \in Nat
  PROVE  GetIdFromString(h, ByteLenOf(b), b) \in Hex
<1>1. h \in Seq(Byte)
  BY DigestLenAssumption, SeqDef
<1>2. ByteLenOf(b) \in Nat
  BY DEF ByteLenOf
<1>3. DigestPrefix(h, ByteLenOf(b)) \in Seq(Byte)
  BY <1>1, <1>2, DigestPrefixType
<1>4. MaskFirstByte(DigestPrefix(h, ByteLenOf(b)), ByteLenOf(b), b) \in Seq(Byte)
  BY <1>3, MaskFirstByteType
<1>. QED
  BY <1>4, ToHexType DEF GetIdFromString

\* A run of '0' digits, of any (possibly non-positive) requested width, is
\* a hex string: the padding written by .zfill and by a node's rendering.
LEMMA ZerosType ==
  ASSUME NEW n \in Int
  PROVE  [k \in 1..n |-> 0] \in Hex
<1>1. CASE n \in Nat
  BY <1>1, SeqDef DEF Hex, Nibble
<1>2. CASE n \notin Nat
  <2>1. 1..n = {}
    BY <1>2
  <2>2. [k \in 1..n |-> 0] = << >>
    BY <2>1
  <2>. QED
    BY <2>2, EmptySeq DEF Hex
<1>. QED
  BY <1>1, <1>2

\* .zfill keeps a hex string a hex string.
LEMMA ZFillType ==
  ASSUME NEW x \in Hex, NEW w \in Int
  PROVE  ZFill(x, w) \in Hex
<1>1. Len(x) \in Nat
  BY LenProperties DEF Hex
<1>2. [k \in 1..(w - Len(x)) |-> 0] \in Hex
  BY <1>1, ZerosType
<1>. QED
  BY <1>2, ConcatProperties DEF ZFill, Hex

\* Every header a live node may send is a hex string.
LEMMA RenderingsType ==
  ASSUME NEW x \in Hex, NEW w \in Int
  PROVE  Renderings(x, w) \subseteq Hex
<1>1. Len(x) \in Nat /\ \A k \in 1..Len(x) : x[k] \in Nibble
  BY LenProperties DEF Hex
<1>2. ASSUME NEW d \in LeadingZeroCounts(x)
      PROVE  SubSeq(x, d + 1, Len(x)) \in Hex
  <2>1. d + 1 \in Int /\ \A k \in (d + 1)..Len(x) : x[k] \in Nibble
    BY <1>1 DEF LeadingZeroCounts
  <2>. QED
    BY <1>1, <2>1, SubSeqProperties DEF Hex
<1>3. PadTo(x, w) \in Hex
  <2>1. [k \in 1..(w - Len(x)) |-> 0] \in Hex
    BY <1>1, ZerosType
  <2>. QED
    BY <2>1, ConcatProperties DEF PadTo, Hex
<1>. QED
  BY <1>2, <1>3 DEF Renderings

\* sorted() returns a sequence of the strings it was given.
LEMMA SortedType ==
  ASSUME NEW ids \in Seq(Hex)
  PROVE  SortedPermutations(ids) \subseteq Seq(Hex)
<1>1. Range(ids) \subseteq Hex /\ Len(ids) \in Nat
  BY LenProperties DEF Range
<1>. QED
  BY <1>1, SeqDef DEF SortedPermutations

-----------------------------------------------------------------------------
(***************************************************************************)
(* Type correctness.  TypeOK alone is not inductive: a step of the loop   *)
(* computes identifiers with the current BYTE_LEN and ID_BITS, which give *)
(* hex strings only when BYTE_LEN = (ID_BITS + 7) // 8 (load_config keeps *)
(* them so); get_node_ids reads NodeNames[k] for k <= NUM_NODES, which    *)
(* needs NUM_NODES to be one of the values the configuration can give;    *)
(* and the response of URL i advances i only while i names a URL.        *)
(***************************************************************************)
TypeInv ==
  /\ TypeOK
  /\ byteLen = ByteLenOf(idBits)
  /\ numNodes \in ConfigNodes \cup {DefaultNodes}
  /\ pc = "wait" => i \in UrlIdx

\* The identifier of a name of the run is a hex string.
LEMMA IdOfType ==
  ASSUME TypeInv, NEW name \in Names
  PROVE  IdOf(name) \in Hex
<1>1. digest[name] \in [1..DigestLen -> Byte]
  BY ConstantsAssumption DEF TypeInv, TypeOK
<1>2. idBits \in Nat /\ byteLen = ByteLenOf(idBits)
  BY DEF TypeInv, TypeOK
<1>. QED
  BY <1>1, <1>2, IdType DEF IdOf

LEMMA InitTypeInv == Init => TypeInv
<1> SUFFICES ASSUME Init PROVE TypeInv
  OBVIOUS
<1>1. << >> \in Hex
  BY EmptySeq DEF Hex
<1>2. << >> \in Seq(Hex)
  BY EmptySeq
<1>3. result \in [UrlIdx -> Result]
  BY <1>1, ConstantsAssumption DEF Init, Result, Status
<1>4. Len(Urls) \in Nat
  BY ConstantsAssumption, LenProperties
<1>. QED
  BY <1>1, <1>2, <1>3, <1>4, ConstantsAssumption
  DEF Init, TypeInv, TypeOK, ByteLenOf

\* Compare, for an owner and a digit string that are well typed, keeps TypeInv.
LEMMA CompareTypeInv ==
  ASSUME TypeInv, pc = "wait",
         NEW owner \in Hex \cup {NoOwner}, NEW digits \in Hex,
         Compare(owner, digits)
  PROVE  TypeInv'
<1>1. i \in UrlIdx /\ Len(Urls) \in Nat
  BY ConstantsAssumption, LenProperties DEF TypeInv
<1>2. ZFill(digits, byteLen * 2) \in Hex
  BY ZFillType DEF TypeInv, TypeOK
<1>3. result' \in [UrlIdx -> Result]
  BY <1>1, <1>2 DEF Compare, TypeInv, TypeOK, Result, Status
<1>4. i' \in 1..(Len(Urls) + 1)
  BY <1>1 DEF Compare, UrlIdx
<1>5. matchCount' \in Nat /\ totalCount' \in Nat
  BY DEF Compare, TypeInv, TypeOK
<1>. QED
  BY <1>3, <1>4, <1>5 DEF Compare, TypeInv, TypeOK

LEMMA NextTypeInv == TypeInv /\ [Next]_vars => TypeInv'
<1> SUFFICES ASSUME TypeInv, [Next]_vars PROVE TypeInv'
  OBVIOUS
<1>0. Len(Urls) \in Nat
  BY ConstantsAssumption, LenProperties
<1>1. CASE LoadConfigDefaults
  BY <1>1 DEF LoadConfigDefaults, TypeInv, TypeOK
<1>2. ASSUME NEW hn \in BOOLEAN, NEW n \in ConfigNodes, NEW hb \in BOOLEAN,
             NEW b \in ConfigBits, LoadConfigRead(hn, n, hb, b)
      PROVE  TypeInv'
  BY <1>2, ConstantsAssumption DEF LoadConfigRead, TypeInv, TypeOK, ByteLenOf
<1>3. CASE GetNodeIds
  <2> DEFINE ids == [k \in 1..numNodes |-> IdOf(NodeNames[k])]
  <2>1. numNodes \in Nat /\ numNodes <= Len(NodeNames)
    BY ConstantsAssumption DEF TypeInv, TypeOK
  <2>2. \A k \in 1..numNodes : NodeNames[k] \in Names
    BY <2>1, ConstantsAssumption, LenProperties DEF Names, Range
  <2>3. ids \in Seq(Hex)
    BY <2>1, <2>2, IdOfType, SeqDef
  <2>4. nodeIds' \in Seq(Hex)
    BY <1>3, <2>3, SortedType DEF GetNodeIds
  <2>. QED
    BY <1>3, <2>4 DEF GetNodeIds, TypeInv, TypeOK
<1>4. CASE SendRequest
  <2>1. i \in UrlIdx
    BY <1>4, <1>0 DEF SendRequest, TypeInv, TypeOK, UrlIdx
  <2>2. Urls[i] \in Names
    BY <2>1, ConstantsAssumption, LenProperties DEF Names, Range, UrlIdx
  <2>3. key' \in Hex
    BY <1>4, <2>2, IdOfType DEF SendRequest
  <2>4. expected' \in Hex
    <3>1. nodeIds \in Seq(Hex)
      BY DEF TypeInv, TypeOK
    <3>2. PICK j \in DOMAIN nodeIds : expected' = nodeIds[j]
      BY <1>4 DEF SendRequest
    <3>. QED
      BY <3>1, <3>2, LenProperties
  <2>. QED
    BY <1>4, <2>1, <2>3, <2>4 DEF SendRequest, TypeInv, TypeOK
<1>5. CASE LookupRaises
  BY <1>5 DEF LookupRaises, TypeInv, TypeOK
<1>6. CASE RequestFailed
  <2>1. i \in UrlIdx
    BY <1>6 DEF RequestFailed, TypeInv
  <2>2. result' \in [UrlIdx -> Result]
    BY <1>6, <2>1 DEF RequestFailed, TypeInv, TypeOK, Result, Status
  <2>. QED
    BY <1>6, <1>0, <2>1, <2>2 DEF RequestFailed, TypeInv, TypeOK, UrlIdx
<1>7. CASE ResponseOk
  <2>1. PICK owner \in Range(nodeIds) :
          \E digits \in Renderings(owner, 2 * byteLen) : Compare(owner, digits)
    BY <1>7 DEF ResponseOk
  <2>2. owner \in Hex
    BY <2>1, LenProperties DEF TypeInv, TypeOK, Range
  <2>3. PICK digits \in Renderings(owner, 2 * byteLen) : Compare(owner, digits)
    BY <2>1
  <2>4. digits \in Hex
    BY <2>2, <2>3, RenderingsType DEF TypeInv, TypeOK
  <2>. QED
    BY <1>7, <2>2, <2>3, <2>4, CompareTypeInv DEF ResponseOk
<1>8. CASE ResponseNoHeader
  <2>1. << >> \in Hex
    BY EmptySeq DEF Hex
  <2>. QED
    BY <1>8, <2>1, CompareTypeInv DEF ResponseNoHeader
<1>9. CASE Summary
  BY <1>9 DEF Summary, TypeInv, TypeOK
<1>10. CASE UNCHANGED vars
  BY <1>10 DEF vars, TypeInv, TypeOK
<1>. QED
  BY <1>1, <1>2, <1>3, <1>4, <1>5, <1>6, <1>7, <1>8, <1>9, <1>10 DEF Next

\* Every state test_routing reaches is well typed: identifiers, keys,
\* expected owners and normalised headers are hex strings, the loop index
\* stays within the URL list plus one, and every URL has a typed verdict.
THEOREM TypeCorrect == Spec => []TypeOK
<1>1. Init => TypeInv
  BY InitTypeInv
<1>2. TypeInv /\ [Next]_vars => TypeInv'
  BY NextTypeInv
<1>3. TypeInv => TypeOK
  BY DEF TypeInv
<1>. QED
  BY <1>1, <1>2, <1>3, PTL DEF Spec

-----------------------------------------------------------------------------
(***************************************************************************)
(* The SUMMARY counters.  SummaryCountsVerdicts is not inductive by       *)
(* itself: a Compare step adds URL i to the set of verified URLs and adds *)
(* one to total_count, which keeps the equation only if URL i was not     *)
(* counted before.  CountInv records why it was not: the URLs from i on   *)
(* are exactly the ones still pending, the loop visiting each URL once.   *)
(***************************************************************************)
MatchedSet  == { u \in UrlIdx : Matched(u) }
VerifiedSet == { u \in UrlIdx : Verified(u) }

PendingFromI == \A u \in UrlIdx : result[u].status = "pending" <=> i <= u

CountInv ==
  /\ TypeInv
  /\ PendingFromI
  /\ SummaryCountsVerdicts

\* Every set of URLs is finite.
LEMMA UrlSetFinite ==
  ASSUME NEW T \in SUBSET UrlIdx
  PROVE  IsFiniteSet(T)
<1>1. IsFiniteSet(UrlIdx)
  BY ConstantsAssumption, LenProperties, FS_Interval DEF UrlIdx
<1>. QED
  BY <1>1, FS_Subset

LEMMA InitCountInv == Init => CountInv
<1> SUFFICES ASSUME Init PROVE CountInv
  OBVIOUS
<1>1. TypeInv
  BY InitTypeInv
<1>2. PendingFromI
  BY DEF Init, PendingFromI, UrlIdx
<1>3. MatchedSet = {} /\ VerifiedSet = {}
  BY DEF Init, MatchedSet, VerifiedSet, Matched, Verified
<1>4. SummaryCountsVerdicts
  BY <1>3, FS_EmptySet DEF Init, SummaryCountsVerdicts, MatchedSet, VerifiedSet
<1>. QED
  BY <1>1, <1>2, <1>4 DEF CountInv

\* A failed request marks URL i unverifiable: neither set changes.
LEMMA RequestFailedCountInv ==
  ASSUME CountInv, RequestFailed
  PROVE  CountInv'
<1>1. TypeInv'
  BY NextTypeInv DEF Next, CountInv
<1>2. i \in UrlIdx /\ result \in [UrlIdx -> Result]
  BY DEF RequestFailed, CountInv, TypeInv, TypeOK
<1>3. /\ result'[i].status = "unverifiable"
      /\ \A u \in UrlIdx \ {i} : result'[u] = result[u]
  BY <1>2 DEF RequestFailed
<1>4. result[i].status = "pending"
  BY <1>2 DEF CountInv, PendingFromI, UrlIdx
<1>5. PendingFromI'
  BY <1>2, <1>3 DEF RequestFailed, CountInv, PendingFromI, UrlIdx
<1>6. MatchedSet' = MatchedSet /\ VerifiedSet' = VerifiedSet
  BY <1>3, <1>4 DEF MatchedSet, VerifiedSet, Matched, Verified
<1>7. SummaryCountsVerdicts'
  BY <1>6 DEF RequestFailed, CountInv, SummaryCountsVerdicts, MatchedSet,
              VerifiedSet
<1>. QED
  BY <1>1, <1>5, <1>7 DEF CountInv

\* A compared response adds URL i, which was pending, to the verified URLs
\* and, on a match, to the matched ones, as it adds to the two counters.
LEMMA CompareCountInv ==
  ASSUME CountInv, pc = "wait",
         NEW owner \in Hex \cup {NoOwner}, NEW digits \in Hex,
         Compare(owner, digits)
  PROVE  CountInv'
<1> DEFINE same == ZFill(digits, byteLen * 2) = expected
<1>1. TypeInv'
  BY CompareTypeInv DEF CountInv
<1>2. i \in UrlIdx /\ result \in [UrlIdx -> Result]
  BY DEF CountInv, TypeInv, TypeOK
<1>3. /\ result'[i].status = IF same THEN "match" ELSE "mismatch"
      /\ \A u \in UrlIdx \ {i} : result'[u] = result[u]
  BY <1>2 DEF Compare
<1>4. result[i].status = "pending"
  BY <1>2 DEF CountInv, PendingFromI, UrlIdx
<1>5. PendingFromI'
  BY <1>2, <1>3 DEF Compare, CountInv, PendingFromI, UrlIdx
<1>6. i \notin MatchedSet /\ i \notin VerifiedSet
  BY <1>4 DEF MatchedSet, VerifiedSet, Matched, Verified
<1>7. VerifiedSet' = VerifiedSet \cup {i}
  BY <1>2, <1>3 DEF VerifiedSet, Verified
<1>8. MatchedSet' = IF same THEN MatchedSet \cup {i} ELSE MatchedSet
  BY <1>2, <1>3, <1>4 DEF MatchedSet, Matched
<1>9. IsFiniteSet(MatchedSet) /\ IsFiniteSet(VerifiedSet)
  BY UrlSetFinite DEF MatchedSet, VerifiedSet
<1>10. totalCount' = Cardinality(VerifiedSet')
  <2>1. Cardinality(VerifiedSet \cup {i}) = Cardinality(VerifiedSet) + 1
    BY <1>6, <1>9, FS_AddElement
  <2>. QED
    BY <1>7, <2>1 DEF Compare, CountInv, SummaryCountsVerdicts, VerifiedSet
<1>11. matchCount' = Cardinality(MatchedSet')
  <2>1. CASE same
    <3>1. Cardinality(MatchedSet \cup {i}) = Cardinality(MatchedSet) + 1
      BY <1>6, <1>9, FS_AddElement
    <3>. QED
      BY <2>1, <1>8, <3>1 DEF Compare, CountInv, SummaryCountsVerdicts,
                                MatchedSet
  <2>2. CASE ~same
    BY <2>2, <1>8 DEF Compare, CountInv, SummaryCountsVerdicts, MatchedSet
  <2>. QED
    BY <2>1, <2>2
<1>. QED
  BY <1>1, <1>5, <1>10, <1>11 DEF CountInv, SummaryCountsVerdicts,
                                   MatchedSet, VerifiedSet

LEMMA NextCountInv == CountInv /\ [Next]_vars => CountInv'
<1> SUFFICES ASSUME CountInv, [Next]_vars PROVE CountInv'
  OBVIOUS
<1>1. TypeInv'
  BY NextTypeInv DEF CountInv
\* The steps that leave result, i and both counters alone.
<1>2. CASE UNCHANGED << result, i, matchCount, totalCount >>
  BY <1>1, <1>2 DEF CountInv, PendingFromI, SummaryCountsVerdicts,
                    MatchedSet, VerifiedSet, Matched, Verified
<1>3. CASE RequestFailed
  BY <1>3, RequestFailedCountInv
<1>4. CASE ResponseOk
  <2>1. PICK owner \in Range(nodeIds) :
          \E digits \in Renderings(owner, 2 * byteLen) : Compare(owner, digits)
    BY <1>4 DEF ResponseOk
  <2>2. owner \in Hex
    BY <2>1, LenProperties DEF CountInv, TypeInv, TypeOK, Range
  <2>3. PICK digits \in Renderings(owner, 2 * byteLen) : Compare(owner, digits)
    BY <2>1
  <2>4. digits \in Hex
    BY <2>2, <2>3, RenderingsType DEF CountInv, TypeInv, TypeOK
  <2>. QED
    BY <1>4, <2>2, <2>3, <2>4, CompareCountInv DEF ResponseOk
<1>5. CASE ResponseNoHeader
  <2>1. << >> \in Hex
    BY EmptySeq DEF Hex
  <2>. QED
    BY <1>5, <2>1, CompareCountInv DEF ResponseNoHeader
<1>. QED
  <2>1. LoadConfigDefaults \/ GetNodeIds \/ SendRequest \/ LookupRaises
        \/ Summary \/ UNCHANGED vars
        => UNCHANGED << result, i, matchCount, totalCount >>
    BY DEF LoadConfigDefaults, GetNodeIds, SendRequest, LookupRaises, Summary,
           vars
  <2>2. ASSUME NEW hn, NEW n, NEW hb, NEW b, LoadConfigRead(hn, n, hb, b)
        PROVE  UNCHANGED << result, i, matchCount, totalCount >>
    BY <2>2 DEF LoadConfigRead
  <2>. QED
    BY <1>2, <1>3, <1>4, <1>5, <2>1, <2>2 DEF Next

\* The SUMMARY line of test_routing is right in every reachable state:
\* match_count is the number of URLs reported MATCH and total_count the
\* number of URLs that were compared, failed requests counting in neither.
THEOREM SummaryCounts == Spec => []SummaryCountsVerdicts
<1>1. Init => CountInv
  BY InitCountInv
<1>2. CountInv /\ [Next]_vars => CountInv'
  BY NextCountInv
<1>3. CountInv => SummaryCountsVerdicts
  BY DEF CountInv
<1>. QED
  BY <1>1, <1>2, <1>3, PTL DEF Spec

=============================================================================
