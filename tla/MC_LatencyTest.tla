-------------------------- MODULE MC_LatencyTest --------------------------
(***************************************************************************)
(* One Locust process with two users sending one request each; X-Cache   *)
(* says HIT or MISS, or is missing.                                       *)
(***************************************************************************)
EXTENDS LatencyTest

CONSTANTS ua, ub

MCXCacheValues == { <<"H", "I", "T">>, <<"M", "I", "S", "S">>, << >> }
=============================================================================
