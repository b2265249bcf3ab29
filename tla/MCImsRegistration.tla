------------------------- MODULE MCImsRegistration --------------------------
(* ImsRegistration with few callers. *)
EXTENDS ImsRegistration, TLC

CONSTANTS u1, u2

(* One of each handler that sets the state, and one that only logs. *)
SomeIndications == {"registered", "info_0", "reg_info"}

Symmetric == Permutations(Token)
=============================================================================
