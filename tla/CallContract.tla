---------------------------- MODULE CallContract ----------------------------
(***************************************************************************)
(* What the IMS call extension of mtk_ims_call.c promises to ofono, which  *)
(* reads the calls whenever the calls-changed signal reaches it:           *)
(*                                                                         *)
(*   - between two signals one call at most appears or changes its state;  *)
(*   - a call shown by the signal has a state ofono knows, never the       *)
(*     internal one;                                                       *)
(*   - a call leaves only after its disconnect signal, and as the next     *)
(*     thing that happens to the list.                                     *)
(***************************************************************************)
CONSTANTS
  CallId,      \* call ids of the modem
  Shown,       \* the states ofono may be shown
  Absent,      \* the state of a call id without a call, not in Shown
  Nobody       \* no disconnect signal is being emitted, not in CallId

VARIABLES
  seen,        \* [CallId -> state], as ofono read it when it was last told
  ending       \* the call whose disconnect signal is being emitted, or Nobody

TypeOK ==
  /\ seen \in [CallId -> Shown \cup {Absent}]
  /\ ending \in CallId \cup {Nobody}

Init ==
  /\ seen = [id \in CallId |-> Absent]
  /\ ending = Nobody

(* The calls-changed signal for a call that is there. *)
Changed(id, state) ==
  /\ ending = Nobody
  /\ seen' = [seen EXCEPT ![id] = state]
  /\ UNCHANGED ending

(* The disconnect signal begins; the call need not have been shown before. *)
Ending(id) ==
  /\ ending = Nobody
  /\ ending' = id
  /\ UNCHANGED seen

(* It has been handled: the call is removed and ofono told. *)
Ended ==
  /\ ending \in CallId
  /\ seen' = [seen EXCEPT ![ending] = Absent]
  /\ ending' = Nobody

Next ==
  \/ \E id \in CallId : \/ \E state \in Shown : Changed(id, state)
                        \/ Ending(id)
  \/ Ended

Spec == Init /\ [][Next]_<<seen, ending>>
=============================================================================
