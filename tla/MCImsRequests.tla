--------------------------- MODULE MCImsRequests ---------------------------
(* ImsRequests with few callers. *)
EXTENDS ImsRequests, TLC

CONSTANTS u1, u2, u3

Symmetric == Permutations(Token)
=============================================================================
