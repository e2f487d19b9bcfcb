---------------------------- MODULE MCRedisOutage ----------------------------
(***************************************************************************)
(* Instances of RedisOutage for TLC.                                       *)
(***************************************************************************)
EXTENDS RedisOutageProperties

CONSTANTS c1, c2, c3
=============================================================================
