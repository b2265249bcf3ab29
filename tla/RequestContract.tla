-------------------------- MODULE RequestContract --------------------------
(***************************************************************************)
(* What the request layer of mtk_radio_ext.c promises to a caller that     *)
(* hands it a (complete, destroy, user_data) triple, as the callers in     *)
(* mtk_ims.c and mtk_ims_sms.c rely on it:                                 *)
(*                                                                         *)
(*   - a submitted user_data is pending until it is destroyed;             *)
(*   - complete() is called at most once, and only while it is pending;    *)
(*   - destroy() is called exactly once, after which neither function is   *)
(*     called again;                                                       *)
(*   - a refused submission destroys the user_data at once.                *)
(*                                                                         *)
(* The layer may move several user_data in one step (a call that fails may *)
(* release an earlier request too), so the steps of different tokens are   *)
(* independent of each other.                                              *)
(***************************************************************************)
CONSTANT Token      \* the user_data pointers handed to the request layer
VARIABLE phase      \* [Token -> Phase]

(* "released": destroyed without having been completed, also the phase of  *)
(* a user_data that was never submitted; "done": completed, then destroyed *)
Phase == {"pending", "completed", "released", "done"}

(* A user_data the layer does not hold: the caller may (re)use it. *)
Free == {"released", "done"}

Step(from, to) ==
  \/ from \in Free       /\ to = "pending"      \* submission accepted
  \/ from \in Free       /\ to = "released"     \* submission refused
  \/ from = "pending"    /\ to = "completed"    \* complete()
  \/ from = "pending"    /\ to = "released"     \* destroy(), no answer
  \/ from = "completed"  /\ to = "done"         \* destroy() after complete()

TypeOK == phase \in [Token -> Phase]

Init == phase = [u \in Token |-> "released"]

Next ==
  /\ phase' \in [Token -> Phase]
  /\ \A u \in Token : phase'[u] = phase[u] \/ Step(phase[u], phase'[u])

Spec == Init /\ [][Next]_phase
=============================================================================
