---------------------------- MODULE MCZkSession ----------------------------
(* ZkSession on small instances: see MCZkSession*.cfg for the bounds. *)
EXTENDS ZkSession, TLC

CONSTANTS a1, a2, s1, w1

\* The asynchronous calls may be exchanged in what is not a liveness property.
AsyncSymmetry == Permutations(Calls \ SyncCalls)
=============================================================================
