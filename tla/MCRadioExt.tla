----------------------------- MODULE MCRadioExt -----------------------------
(* RadioExt on small sets of blocks, user_data and transactions. *)
EXTENDS RadioExt, TLC

CONSTANTS a1, a2, a3, u1, u2, t1, t2

AllKinds == {"setImsEnabled", "sendImsSmsEx"}
WithWifi == {"setImsEnabled", "setWifiEnabled"}

(* Blocks, user_data and transaction ids are interchangeable. *)
Symmetric == Permutations(Addr) \cup Permutations(Token) \cup Permutations(Tx)
=============================================================================
