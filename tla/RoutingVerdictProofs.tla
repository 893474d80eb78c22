------------------------ MODULE RoutingVerdictProofs ------------------------
(***************************************************************************)
(* The verdict of test_routing is faithful: a URL whose 200 answer named a *)
(* node is reported MATCH exactly when that node is the predicted owner.  *)
(*                                                                         *)
(* This rests on the normalisation of X-Node-ID undoing every rendering a *)
(* node may send: .zfill(BYTE_LEN * 2) gives back the node's identifier,  *)
(* which holds when every identifier of the ring has exactly BYTE_LEN * 2 *)
(* digits.  get_id_from_string slices h[:BYTE_LEN], so that is the case    *)
(* exactly when BYTE_LEN <= the digest length, i.e. ID_BITS fits in the   *)
(* digest.  load_config does not check it (a hazard listed in the         *)
(* project); the theorem takes it as its hypothesis, WidthsFit, for the   *)
(* default ID_BITS and every value the configuration file may give.       *)
(***************************************************************************)
EXTENDS VerifyRoutingProofs

\* Every ID_BITS the run may use fits in the DigestLen bytes of the digest.
WidthsFit == \A b \in ConfigBits \cup {DefaultBits} : b <= 8 * DigestLen

-----------------------------------------------------------------------------
(***************************************************************************)
(* Lengths of identifiers.                                                 *)
(***************************************************************************)

\* A sequence whose domain is 1..n has length n.
LEMMA LenFromDomain ==
  ASSUME NEW S, NEW s \in Seq(S), NEW n \in Nat, DOMAIN s = 1..n
  PROVE  Len(s) = n
<1>1. Len(s) \in Nat /\ DOMAIN s = 1..Len(s)
  BY LenProperties
<1>. QED
  BY <1>1

\* With BYTE_LEN within the digest, get_id_from_string gives BYTE_LEN * 2
\* hex digits: the slice keeps BYTE_LEN bytes, the mask keeps the length,
\* and hex() writes two digits per byte.
LEMMA IdLength ==
  ASSUME NEW h \in [1..DigestLen -> Byte], NEW b \in Nat,
         ByteLenOf(b) <= DigestLen
  PROVE  Len(GetIdFromString(h, ByteLenOf(b), b)) = 2 * ByteLenOf(b)
<1> DEFINE n   == ByteLenOf(b)
           buf == DigestPrefix(h, n)
           m   == MaskFirstByte(buf, n, b)
<1>1. n \in Nat /\ h \in Seq(Byte) /\ Len(h) = DigestLen
  BY DigestLenAssumption, LenFromDomain, SeqDef DEF ByteLenOf
<1>2. buf = SubSeq(h, 1, n)
  BY <1>1 DEF DigestPrefix
<1>3. buf \in Seq(Byte) /\ Len(buf) = n
  <2>1. \A k \in 1..n : h[k] \in Byte
    BY <1>1, DigestLenAssumption
  <2>. QED
    BY <1>1, <1>2, <2>1, SubSeqProperties
<1>4. m \in Seq(Byte) /\ DOMAIN m = 1..n
  <2>1. m \in Seq(Byte)
    BY <1>3, MaskFirstByteType
  <2>2. DOMAIN buf = 1..n
    BY <1>3, LenProperties
  <2>. QED
    BY <2>1, <2>2 DEF MaskFirstByte
<1>5. Len(m) = n
  BY <1>1, <1>4, LenFromDomain
<1>6. ToHex(m) \in Hex /\ DOMAIN ToHex(m) = 1..(2 * n)
  BY <1>4, <1>5, ToHexType DEF ToHex
<1>. QED
  BY <1>1, <1>6, LenFromDomain DEF GetIdFromString, Hex

\* A width that fits in the digest gives a BYTE_LEN within it.
LEMMA ByteLenFits ==
  ASSUME NEW b \in Nat, b <= 8 * DigestLen
  PROVE  ByteLenOf(b) <= DigestLen
BY DigestLenAssumption DEF ByteLenOf

-----------------------------------------------------------------------------
(***************************************************************************)
(* The normalisation undoes every rendering.                               *)
(***************************************************************************)

\* Dropping d leading zeros of x and .zfill-ing back to the length of x
\* gives x again.
LEMMA RefillDropped ==
  ASSUME NEW x \in Hex, NEW d \in LeadingZeroCounts(x)
  PROVE  ZFill(SubSeq(x, d + 1, Len(x)), Len(x)) = x
<1> DEFINE rest == SubSeq(x, d + 1, Len(x))
           pad  == [k \in 1..d |-> 0]
<1>1. Len(x) \in Nat /\ d \in 0..(Len(x) - 1) /\ \A k \in 1..d : x[k] = 0
  BY LenProperties DEF LeadingZeroCounts, Hex
<1>2. rest \in Seq(Nibble) /\ Len(rest) = Len(x) - d
  <2>1. \A k \in (d + 1)..Len(x) : x[k] \in Nibble
    BY <1>1, ElementOfSeq DEF Hex
  <2>. QED
    BY <1>1, <2>1, SubSeqProperties
<1>3. CASE d = 0
  <2>1. rest = x
    BY <1>3, SubSeqFull DEF Hex
  <2>. QED
    BY <1>1, <2>1 DEF ZFill
<1>4. CASE d # 0
  <2>1. ZFill(rest, Len(x)) = pad \o rest
    BY <1>1, <1>2, <1>4 DEF ZFill
  <2>2. pad = SubSeq(x, 1, d)
    <3>1. \A k \in 1..d : x[k] \in Nibble
      BY <1>1, ElementOfSeq DEF Hex
    <3>2. SubSeq(x, 1, d) \in Seq(Nibble) /\ Len(SubSeq(x, 1, d)) = d
          /\ \A k \in 1..d : SubSeq(x, 1, d)[k] = 0
      BY <1>1, <3>1, SubSeqProperties
    <3>3. pad \in Seq(Nibble) /\ Len(pad) = d
      BY <1>1, LenFromDomain, SeqDef DEF Nibble
    <3>. QED
      BY <3>2, <3>3, SeqEqual
  <2>3. SubSeq(x, 1, d) \o rest = SubSeq(x, 1, Len(x))
    BY <1>1, ConcatAdjacentSubSeq DEF Hex
  <2>. QED
    BY <2>1, <2>2, <2>3, SubSeqFull DEF Hex
<1>. QED
  BY <1>3, <1>4

\* Whatever rendering of identifier x a node sends in X-Node-ID, the
\* .zfill to the identifier width gives back x.
LEMMA NormaliseRendering ==
  ASSUME NEW x \in Hex, NEW digits \in Renderings(x, Len(x))
  PROVE  ZFill(digits, Len(x)) = x
<1>1. Len(x) \in Nat
  BY LenProperties DEF Hex
<1>2. CASE \E d \in LeadingZeroCounts(x) : digits = SubSeq(x, d + 1, Len(x))
  BY <1>2, RefillDropped
<1>3. CASE digits = PadTo(x, Len(x))
  <2>1. [k \in 1..(Len(x) - Len(x)) |-> 0] = << >>
    BY <1>1
  <2>2. digits = x
    BY <1>3, <2>1, ConcatEmptySeq DEF PadTo, Hex
  <2>. QED
    BY <1>1, <2>2 DEF ZFill
<1>. QED
  BY <1>2, <1>3 DEF Renderings

-----------------------------------------------------------------------------
(***************************************************************************)
(* The inductive invariant.  VerdictFaithful alone is not inductive: the   *)
(* Compare step of URL i needs every node of the ring to have BYTE_LEN * 2 *)
(* digits, which needs BYTE_LEN to come from an ID_BITS that fits, and    *)
(* the ring to be built after load_config has fixed BYTE_LEN for good.    *)
(***************************************************************************)
RingWidth == \A k \in DOMAIN nodeIds : Len(nodeIds[k]) = 2 * byteLen

VInv ==
  /\ TypeInv
  /\ idBits \in ConfigBits \cup {DefaultBits}
  /\ pc = "load" => nodeIds = << >>
  /\ RingWidth
  /\ VerdictFaithful

LEMMA InitVInv == Init => VInv
<1> SUFFICES ASSUME Init PROVE VInv
  OBVIOUS
<1>1. TypeInv
  BY InitTypeInv
<1>2. VerdictFaithful
  BY DEF Init, VerdictFaithful, Verified
<1>. QED
  BY <1>1, <1>2 DEF Init, VInv, RingWidth

\* Every identifier get_node_ids puts in the ring has BYTE_LEN * 2 digits.
LEMMA GetNodeIdsWidth ==
  ASSUME WidthsFit, VInv, GetNodeIds
  PROVE  RingWidth'
<1> DEFINE ids == [k \in 1..numNodes |-> IdOf(NodeNames[k])]
<1>1. numNodes \in Nat /\ numNodes <= Len(NodeNames)
  BY ConstantsAssumption DEF VInv, TypeInv, TypeOK
<1>2. ASSUME NEW k \in 1..numNodes
      PROVE  Len(ids[k]) = 2 * byteLen
  <2>1. NodeNames[k] \in Names
    BY <1>1, ConstantsAssumption, LenProperties DEF Names, Range
  <2>2. digest[NodeNames[k]] \in [1..DigestLen -> Byte]
    BY <2>1, ConstantsAssumption DEF VInv, TypeInv, TypeOK
  <2>3. idBits \in Nat /\ idBits <= 8 * DigestLen /\ byteLen = ByteLenOf(idBits)
    BY DEF WidthsFit, VInv, TypeInv, TypeOK
  <2>4. ByteLenOf(idBits) <= DigestLen
    BY <2>3, ByteLenFits
  <2>. QED
    BY <2>2, <2>3, <2>4, IdLength DEF IdOf
<1>3. \A k \in DOMAIN nodeIds' : nodeIds'[k] \in Range(ids)
  BY DEF GetNodeIds, SortedPermutations
<1>4. \A y \in Range(ids) : Len(y) = 2 * byteLen
  BY <1>2 DEF Range
<1>. QED
  BY <1>3, <1>4 DEF GetNodeIds, RingWidth

\* A compared answer that named node owner of the ring: the normalised
\* header is owner itself, so the verdict is MATCH exactly when owner is
\* the expected node.
LEMMA ResponseOkFaithful ==
  ASSUME VInv, pc = "wait", NEW owner \in Range(nodeIds),
         NEW digits \in Renderings(owner, 2 * byteLen), Compare(owner, digits)
  PROVE  VerdictFaithful'
<1>1. i \in UrlIdx /\ result \in [UrlIdx -> Result]
  BY DEF VInv, TypeInv, TypeOK
<1>2. owner \in Hex /\ Len(owner) = 2 * byteLen
  BY LenProperties DEF VInv, TypeInv, TypeOK, RingWidth, Range
<1>3. ZFill(digits, byteLen * 2) = owner
  BY <1>2, NormaliseRendering DEF VInv, TypeInv, TypeOK
<1>4. owner # NoOwner
  BY <1>2, ConstantsAssumption
<1>5. result'[i] = [status |-> IF owner = expected THEN "match" ELSE "mismatch",
                    key |-> key, expected |-> expected,
                    actual |-> owner, owner |-> owner]
  BY <1>1, <1>3 DEF Compare
<1>6. \A u \in UrlIdx \ {i} : result'[u] = result[u]
  BY <1>1 DEF Compare
<1>. QED
  BY <1>4, <1>5, <1>6 DEF VInv, VerdictFaithful, Verified, Matched

\* An answer without X-Node-ID records no owner: nothing to be faithful to.
LEMMA NoHeaderFaithful ==
  ASSUME VInv, pc = "wait", Compare(NoOwner, << >>)
  PROVE  VerdictFaithful'
<1>1. i \in UrlIdx /\ result \in [UrlIdx -> Result]
  BY DEF VInv, TypeInv, TypeOK
<1>2. result'[i].owner = NoOwner /\ \A u \in UrlIdx \ {i} : result'[u] = result[u]
  BY <1>1 DEF Compare
<1>. QED
  BY <1>2 DEF VInv, VerdictFaithful, Verified, Matched

LEMMA NextVInv ==
  ASSUME WidthsFit
  PROVE  VInv /\ [Next]_vars => VInv'
<1> SUFFICES ASSUME VInv, [Next]_vars PROVE VInv'
  OBVIOUS
<1>0. TypeInv'
  BY NextTypeInv DEF VInv
\* The steps that leave the ring, BYTE_LEN and the verdicts alone.
<1>1. CASE UNCHANGED << idBits, byteLen, nodeIds, result >> /\ pc' # "load"
  BY <1>0, <1>1 DEF VInv, RingWidth, VerdictFaithful, Verified, Matched
<1>2. ASSUME NEW hn \in BOOLEAN, NEW n \in ConfigNodes, NEW hb \in BOOLEAN,
             NEW b \in ConfigBits, LoadConfigRead(hn, n, hb, b)
      PROVE  VInv'
  <2>1. nodeIds' = << >>
    BY <1>2 DEF LoadConfigRead, VInv
  <2>2. RingWidth'
    BY <2>1 DEF RingWidth
  <2>. QED
    BY <1>0, <1>2, <2>2 DEF LoadConfigRead, VInv, VerdictFaithful, Verified,
                            Matched
<1>3. CASE GetNodeIds
  BY <1>0, <1>3, GetNodeIdsWidth DEF GetNodeIds, VInv, VerdictFaithful,
                                     Verified, Matched
<1>4. CASE RequestFailed
  <2>1. i \in UrlIdx /\ result \in [UrlIdx -> Result]
    BY <1>4 DEF RequestFailed, VInv, TypeInv, TypeOK
  <2>2. /\ result'[i].status = "unverifiable"
        /\ \A u \in UrlIdx \ {i} : result'[u] = result[u]
    BY <1>4, <2>1 DEF RequestFailed
  <2>3. VerdictFaithful'
    BY <2>2 DEF VInv, VerdictFaithful, Verified, Matched
  <2>. QED
    BY <1>0, <1>4, <2>3 DEF RequestFailed, VInv, RingWidth
<1>5. CASE ResponseOk
  <2>1. PICK owner \in Range(nodeIds) :
          \E digits \in Renderings(owner, 2 * byteLen) : Compare(owner, digits)
    BY <1>5 DEF ResponseOk
  <2>2. PICK digits \in Renderings(owner, 2 * byteLen) : Compare(owner, digits)
    BY <2>1
  <2>3. VerdictFaithful'
    BY <1>5, <2>2, ResponseOkFaithful DEF ResponseOk
  <2>. QED
    BY <1>0, <2>2, <2>3 DEF Compare, VInv, RingWidth
<1>6. CASE ResponseNoHeader
  <2>1. VerdictFaithful'
    BY <1>6, NoHeaderFaithful DEF ResponseNoHeader
  <2>. QED
    BY <1>0, <1>6, <2>1 DEF ResponseNoHeader, Compare, VInv, RingWidth
<1>7. CASE UNCHANGED vars
  BY <1>7 DEF vars, VInv, TypeInv, TypeOK, RingWidth, VerdictFaithful, Verified,
              Matched
<1>. QED
  <2>1. LoadConfigDefaults \/ SendRequest \/ LookupRaises \/ Summary
        => UNCHANGED << idBits, byteLen, nodeIds, result >> /\ pc' # "load"
    BY DEF LoadConfigDefaults, SendRequest, LookupRaises, Summary
  <2>. QED
    BY <1>1, <1>2, <1>3, <1>4, <1>5, <1>6, <1>7, <2>1 DEF Next

\* For every configuration whose ID_BITS fits in the SHA-1 digest, every
\* number of nodes and URLs and every rendering of X-Node-ID a node may
\* send (leading zeros dropped or padded), test_routing reports MATCH for a
\* URL exactly when the node that answered is the one it predicted.
THEOREM VerdictsFaithful ==
  ASSUME WidthsFit
  PROVE  Spec => []VerdictFaithful
<1>1. VInv => VerdictFaithful
  BY DEF VInv
<1>. QED
  BY InitVInv, NextVInv, <1>1, PTL DEF Spec

=============================================================================
