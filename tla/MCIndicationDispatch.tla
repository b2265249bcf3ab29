----------------------- MODULE MCIndicationDispatch ------------------------
(* IndicationDispatch with two call ids. *)
EXTENDS IndicationDispatch, TLC

CONSTANTS c1, c2

Symmetric == Permutations(CallId)
=============================================================================
