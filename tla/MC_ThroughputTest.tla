------------------------- MODULE MC_ThroughputTest -------------------------
(***************************************************************************)
(* Small instances of ThroughputTest: two users, two requests each, two    *)
(* tests, run locally or from a master with two workers.  X-Cache is      *)
(* spelled in upper or lower case for a hit.                              *)
(***************************************************************************)
EXTENDS ThroughputTest

CONSTANTS r, w1, w2, ua, ub

MCHit  == <<"H", "I", "T">>
MCMiss == <<"M", "I", "S", "S">>
MCXCache == [b \in BOOLEAN |-> IF b THEN {MCHit, <<"h", "i", "t">>} ELSE {MCMiss}]

MCLocalWorkers == {}
MCLocalHost == [u \in {ua, ub} |-> r]

MCDistWorkers == {w1, w2}
MCDistHost == [u \in {ua, ub} |-> IF u = ua THEN w1 ELSE w2]
=============================================================================
