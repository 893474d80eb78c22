--------------------------- MODULE RoutingOracle ---------------------------
(***************************************************************************)
(* The pure computations of src/test/verify_routing.py: deriving an       *)
(* identifier from the SHA-1 digest of a name (get_id_from_string), the   *)
(* string sort of the node identifiers (get_node_ids) and the successor   *)
(* scan (get_responsible_node), plus the header normalisation done in     *)
(* test_routing before the comparison.                                    *)
(*                                                                         *)
(* A hex string, as produced by bytes.hex(), is modelled as the sequence  *)
(* of its digits' values 0..15.  bytes.hex() writes lowercase digits, and *)
(* the character order '0' < ... < '9' < 'a' < ... < 'f' is the order of  *)
(* the digit values, so Python's string comparison of two such strings is *)
(* the lexicographic order of the digit sequences (HexLeq below).         *)
(* The SHA-1 digest itself is not computed: a name's digest is an input   *)
(* (a sequence of DigestLen bytes) chosen by the module that uses this.   *)
(***************************************************************************)
EXTENDS Integers, Sequences, SequencesExt, FiniteSets

CONSTANT DigestLen    \* bytes in a digest: 20 for hashlib.sha1

ASSUME DigestLenAssumption == DigestLen \in Nat \ {0}

Byte   == 0..255
Nibble == 0..15
Hex    == Seq(Nibble)

\* Mutant: the rounding up done as (ID_BITS - 1) // 8.
ByteLenOfFloor(bits) == (bits - 1) \div 8

\* BYTE_LEN = (ID_BITS + 7) // 8  (module level and in load_config).
ByteLenOf(bits) == (bits + 7) \div 8

\* h[:BYTE_LEN]: the slice stops at the end of the digest.
DigestPrefix(h, byteLen) == SubSeq(h, 1, IF byteLen < Len(h) THEN byteLen ELSE Len(h))

\* extra_bits = BYTE_LEN * 8 - ID_BITS; if extra_bits > 0, the first byte
\* is and-ed with 0xFF >> extra_bits, which keeps its low 8 - extra_bits bits.
MaskFirstByte(buf, byteLen, bits) ==
  LET extra == byteLen * 8 - bits
  IN  IF extra > 0 THEN [buf EXCEPT ![1] = @ % (2 ^ (8 - extra))] ELSE buf

\* bytearray.hex(): two digits per byte, high nibble first.
ToHex(buf) ==
  [k \in 1..(2 * Len(buf)) |->
     IF k % 2 = 1 THEN buf[(k + 1) \div 2] \div 16 ELSE buf[k \div 2] % 16]

\* get_id_from_string(s) for a name whose SHA-1 digest is h, under the
\* module globals BYTE_LEN = byteLen and ID_BITS = bits.
GetIdFromString(h, byteLen, bits) ==
  ToHex(MaskFirstByte(DigestPrefix(h, byteLen), byteLen, bits))

\* int(x, 16): the big-endian value of a digit sequence.
HexVal(x) ==
  LET val[k \in 0..Len(x)] == IF k = 0 THEN 0 ELSE 16 * val[k - 1] + x[k]
  IN  val[Len(x)]

\* Python's a <= b on two strings: equal, a proper prefix of b, or smaller
\* at the first position where they differ.
HexLeq(a, b) ==
  \/ IsPrefix(a, b)
  \/ \E k \in 1..Len(a) :
        /\ k <= Len(b)
        /\ SubSeq(a, 1, k - 1) = SubSeq(b, 1, k - 1)
        /\ a[k] < b[k]

\* sorted(ids): the permutations of ids in string order.  All of them are
\* the same sequence (equal strings are identical), so this set has exactly
\* one element.
SortedPermutations(ids) ==
  { s \in [1..Len(ids) -> Range(ids)] :
      /\ ToBag(s) = ToBag(ids)
      /\ IsSorted(s, HexLeq) }

\* Mutant: the scan tests node_int > key_int.
ScanStopsAtStrict(j, key, ids) ==
  \/ /\ HexVal(ids[j]) > HexVal(key)
     /\ \A l \in 1..(j - 1) : HexVal(ids[l]) <= HexVal(key)
  \/ /\ j = 1
     /\ \A l \in DOMAIN ids : HexVal(ids[l]) <= HexVal(key)

\* The loop of get_responsible_node returns node_ids[j] (1-based here):
\* the first node whose value is >= the key's, or, when there is none, the
\* first node of the list (the wrap-around).
ScanStopsAt(j, key, ids) ==
  \/ /\ HexVal(ids[j]) >= HexVal(key)
     /\ \A l \in 1..(j - 1) : HexVal(ids[l]) < HexVal(key)
  \/ /\ j = 1
     /\ \A l \in DOMAIN ids : HexVal(ids[l]) < HexVal(key)

\* get_responsible_node raises before returning: int('', 16) is a
\* ValueError (a key of zero bytes), node_ids[0] of an empty list an
\* IndexError.
ScanRaises(key, ids) == key = <<>> \/ ids = <<>>

\* Mutant: the header is compared without normalisation.
ZFillMissing(x, w) == x

\* .zfill(w): left-pad with '0' digits to width w; a longer string is kept.
ZFill(x, w) ==
  IF Len(x) >= w THEN x ELSE [k \in 1..(w - Len(x)) |-> 0] \o x

-----------------------------------------------------------------------------
(***************************************************************************)
(* Reference definition of ownership, stated on numbers rather than on    *)
(* the sorted strings: on a ring whose node values form the set R, node o *)
(* owns every key in the half-open arc (predecessor(o), o], the smallest  *)
(* node also owning the keys above the largest node.                      *)
(***************************************************************************)
OwnsKey(o, key, R) ==
  LET below == { n \in R : n < o }
  IN  IF below = {}
        THEN key <= o \/ \A n \in R : n < key
        ELSE (\E p \in below : \A n \in below : n <= p /\ p < key) /\ key <= o

RingValues(ids) == { HexVal(ids[k]) : k \in DOMAIN ids }

=============================================================================
