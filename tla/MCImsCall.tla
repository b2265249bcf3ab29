----------------------------- MODULE MCImsCall ------------------------------
(* ImsCall with few calls. *)
EXTENDS ImsCall, TLC

CONSTANTS c1, c2, p1, p2, p3

Symmetric == Permutations(CallId) \cup Permutations(Ptr)
=============================================================================
