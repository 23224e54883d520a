----------------------------- MODULE MCZkClose -----------------------------
(* ZkClose on small instances: see MCZkClose*.cfg for the bounds. *)
EXTENDS ZkClose

CONSTANTS a1, s1, w1
=============================================================================
