-------------------------- MODULE MCSlotLifecycle --------------------------
(* SlotLifecycle with few slots and requests. *)
EXTENDS SlotLifecycle
=============================================================================
