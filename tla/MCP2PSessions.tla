----------------------------- MODULE MCP2PSessions -----------------------------
(* P2PSessions on small instances; t1, t2 and t3 are the service threads. *)
EXTENDS P2PSessions, TLC

CONSTANTS t1, t2, t3

Alike == Permutations(Thread)
=============================================================================
