------------------------- MODULE MC_JSONRPCBackend -------------------------
(* Instantiates JSONRPCBackend for TLC. Time is scaled so that the       *)
(* ratio of connectTimeout (30 s) to maxRetrySeconds (5 s) is kept: the   *)
(* poll timeout is longer than the whole retry budget.                   *)
EXTENDS JSONRPCBackend

CONSTANTS t1, t2, m1

MCThreads == {t1, t2}
MCMethods == {m1}
=============================================================================
