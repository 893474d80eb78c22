------------------------- MODULE MC_VerifyRouting -------------------------
(***************************************************************************)
(* Small instances of VerifyRouting for TLC.  Digests are 2 bytes instead *)
(* of SHA-1's 20, so the identifier widths of the code (66 bits in 9      *)
(* bytes) are scaled down to 4, 12 and 16 bits in 1 or 2 bytes: a width   *)
(* that is a multiple of 8 (no masking), widths that mask the top nibble, *)
(* the full digest width, and 0 bits (the crash).  The three candidate    *)
(* digests are chosen so that masking makes distinct digests collide, a   *)
(* masked identifier is 0, and a URL can hash onto a node's identifier    *)
(* (the >= boundary of the successor scan).                               *)
(***************************************************************************)
EXTENDS VerifyRouting

CONSTANTS n0, n1, n2, u1, u2

MCNodeNames == << n0, n1, n2 >>
MCUrls == << u1, u2 >>
MCDigestChoices == { << 240, 0 >>, << 15, 255 >>, << 128, 15 >> }

=============================================================================
