---------------------------- MODULE ImsRequests ----------------------------
(***************************************************************************)
(* The requests ofono makes of the call and SMS objects of a slot          *)
(* (mtk_ims_call.c, mtk_ims_sms.c).  Both wrap ofono's callbacks into a    *)
(* reference counted request block; a dial goes to the IRadio client of    *)
(* libgbinder-radio, an SMS to the MtkRadioExt, whose requests of all      *)
(* callers share one row of serials.                                       *)
(*                                                                         *)
(* The layers below are taken at their contracts: MtkRadioExt at           *)
(* RequestContract (which RadioExt implements), until its serials wrap     *)
(* around; RadioRequest as these files use it, its destroy function called *)
(* with its last reference.  ofono passes a complete() and a destroy().    *)
(***************************************************************************)
EXTENDS Naturals, FiniteSets

CONSTANTS
  Token,      \* user_data of ofono; the block that wraps it goes by its name
  NoToken,    \* the user_data of a request made without callbacks
  Vacant,     \* no request
  MaxSerial   \* bound on the serials used

ASSUME ConstantAssumption ==
  /\ NoToken \notin Token /\ Vacant \notin Token \cup {NoToken}
  /\ MaxSerial \in Nat \ {0}
  /\ IsFiniteSet(Token)

VARIABLES
  reqs,       \* [Token -> what its request block is for, "none" if there is no block]
  count,      \* [Token -> ref_count of the block]
  calls,      \* [Token -> complete and destroy calls since it was submitted]
  callRefs,   \* reference count of the MtkImsCall
  radio,      \* user_data of the RadioRequests that are pending
  table,      \* [serial -> user_data of the request of MtkRadioExt]
  lastId,     \* last serial
  inside,     \* the user_data whose complete() runs and its serial, 0 for a dial
  broken      \* a block was used after it was freed; ends the model

vars == <<reqs, count, calls, callRefs, radio, table, lastId, inside, broken>>

Serials == 1 .. MaxSerial

Idle == [ud |-> NoToken, serial |-> 0]

TypeOK ==
  /\ reqs \in [Token -> {"none", "dial", "sms"}]
  /\ count \in [Token -> 0 .. 1]
  /\ calls \in [Token -> [complete : 0 .. 1, destroy : 0 .. 1]]
  /\ callRefs \in Nat \ {0}
  /\ radio \subseteq Token
  /\ table \in [Serials -> Token \cup {NoToken, Vacant}]
  /\ lastId \in 0 .. MaxSerial
  /\ inside \in [ud : Token \cup {NoToken}, serial : 0 .. MaxSerial]
  /\ broken \in BOOLEAN

(* mtk_slot_new: the slot holds the one reference to the MtkImsCall, which *)
(* it never drops; mtk_ims_call_new, mtk_ims_sms_new.                      *)
Init ==
  /\ reqs = [u \in Token |-> "none"]
  /\ count = [u \in Token |-> 0]
  /\ calls = [u \in Token |-> [complete |-> 0, destroy |-> 1]]
  /\ callRefs = 1
  /\ radio = {}
  /\ table = [s \in Serials |-> Vacant]
  /\ lastId = 0
  /\ inside = Idle
  /\ broken = FALSE

Held(u) == calls[u].destroy = 0

(***************************************************************************)
(* The request blocks.                                                     *)
(***************************************************************************)
(* mtk_ims_call_result_request_new, mtk_ims_sms_result_request_new; only   *)
(* the one for a call takes a reference to its object.                     *)
NewBlock(u, kind) ==
  /\ reqs' = [reqs EXCEPT ![u] = kind]
  /\ count' = [count EXCEPT ![u] = 1]
  /\ calls' = [calls EXCEPT ![u] = [complete |-> 0, destroy |-> 0]]
  /\ callRefs' = IF kind = "dial" THEN callRefs + 1 ELSE callRefs

(* Mutated form of UnrefBlock: the reference to the MtkImsCall is kept. *)
UnrefBlockKeepsCall(u) ==
  /\ reqs' = [reqs EXCEPT ![u] = "none"]
  /\ count' = [count EXCEPT ![u] = 0]
  /\ calls' = [calls EXCEPT ![u].destroy = @ + 1]
  /\ UNCHANGED callRefs

(* mtk_ims_call_result_request_unref, mtk_ims_sms_result_request_unref:    *)
(* there is never a second reference, so the block is freed.  The ext of   *)
(* an SMS block is never set.                                              *)
UnrefBlock(u) ==
  /\ reqs' = [reqs EXCEPT ![u] = "none"]
  /\ count' = [count EXCEPT ![u] = @ - 1]
  /\ calls' = [calls EXCEPT ![u].destroy = @ + 1]
  /\ callRefs' = IF reqs[u] = "dial" THEN callRefs - 1 ELSE callRefs

(* A block that is made, destroyed by the layer below or by its caller as  *)
(* the transaction is refused, and then unreferenced again by the other.   *)
RefusedBlock(u) ==
  /\ calls' = [calls EXCEPT ![u] = [complete |-> 0, destroy |-> 1]]
  /\ broken' = TRUE
  /\ UNCHANGED <<reqs, count, callRefs>>

(***************************************************************************)
(* BinderExtCallInterface.                                                 *)
(***************************************************************************)
(* mtk_ims_call_dial; its id is 1. *)
Dial(u) ==
  /\ ~broken /\ ~Held(u)
  /\ NewBlock(u, "dial")
  /\ radio' = radio \cup {u}
  /\ UNCHANGED <<table, lastId, inside, broken>>

(* radio_request_submit fails: dial drops the block, whose user_data is    *)
(* destroyed, and then the RadioRequest, which destroys the block.         *)
DialRefused(u) ==
  /\ ~broken /\ ~Held(u)
  /\ RefusedBlock(u)
  /\ UNCHANGED <<radio, table, lastId, inside>>

(* Mutated form of DialId: dial returns the last serial. *)
DialIdSerial == lastId

DialId == 1

(* No entry is ever put into id_map. *)
Mapped(id) == id

(* mtk_ims_call_cancel of a dial that is pending: the id is looked up      *)
(* among the requests of MtkRadioExt, where a dial never is.               *)
CancelDial ==
  LET serial == Mapped(DialId) IN
  /\ ~broken
  /\ \E u \in Token : reqs[u] = "dial"
  /\ serial \in Serials /\ table[serial] # Vacant
  /\ table' = [table EXCEPT ![serial] = Vacant]
  /\ IF table[serial] \in Token
     THEN UnrefBlock(table[serial])
     ELSE UNCHANGED <<reqs, count, calls, callRefs>>
  /\ UNCHANGED <<radio, lastId, inside, broken>>

(* mtk_ims_call_radio_request_complete: the RadioRequest has ended, with   *)
(* or without an answer.                                                   *)
DialComplete(u) ==
  /\ ~broken /\ inside = Idle
  /\ u \in radio
  /\ inside' = [ud |-> u, serial |-> 0]
  /\ calls' = [calls EXCEPT ![u].complete = @ + 1]
  /\ UNCHANGED <<reqs, count, callRefs, radio, table, lastId, broken>>

(* Its destroy function, mtk_ims_call_result_request_destroy. *)
DialDestroy(u) ==
  /\ ~broken /\ inside = [ud |-> u, serial |-> 0]
  /\ radio' = radio \ {u}
  /\ UnrefBlock(u)
  /\ inside' = Idle
  /\ UNCHANGED <<table, lastId, broken>>

(***************************************************************************)
(* BinderExtSmsInterface.                                                  *)
(***************************************************************************)
NextSerial(user) ==
  /\ lastId < MaxSerial
  /\ lastId' = lastId + 1
  /\ table' = [table EXCEPT ![lastId'] = user]

(* Mutated form of Send: the block is unreferenced although it was sent. *)
SendUnreferenced(u) ==
  /\ ~broken /\ ~Held(u)
  /\ calls' = [calls EXCEPT ![u] = [complete |-> 0, destroy |-> 1]]
  /\ UNCHANGED <<reqs, count, callRefs>>
  /\ NextSerial(u)
  /\ UNCHANGED <<radio, inside, broken>>

(* mtk_ims_sms_send. *)
Send(u) ==
  /\ ~broken /\ ~Held(u)
  /\ NewBlock(u, "sms")
  /\ NextSerial(u)
  /\ UNCHANGED <<radio, inside, broken>>

(* The transaction is refused: MtkRadioExt destroys the block, and send    *)
(* unreferences it again.                                                  *)
SendRefused(u) ==
  /\ ~broken /\ ~Held(u)
  /\ RefusedBlock(u)
  /\ NextSerial(Vacant)
  /\ UNCHANGED <<radio, inside>>

(* mtk_ims_sms_result_callback: the modem has answered. *)
SmsComplete(s) ==
  /\ ~broken /\ inside = Idle
  /\ table[s] \in Token
  /\ inside' = [ud |-> table[s], serial |-> s]
  /\ calls' = [calls EXCEPT ![table[s]].complete = @ + 1]
  /\ UNCHANGED <<reqs, count, callRefs, radio, table, lastId, broken>>

(* MtkRadioExt removes the request by its serial, if ofono's complete()    *)
(* has not cancelled it; mtk_ims_sms_result_request_destroy.               *)
SmsDestroy ==
  /\ ~broken /\ inside.serial # 0
  /\ IF table[inside.serial] \in Token
     THEN UnrefBlock(table[inside.serial])
     ELSE UNCHANGED <<reqs, count, calls, callRefs>>
  /\ table' = [table EXCEPT ![inside.serial] = Vacant]
  /\ inside' = Idle
  /\ UNCHANGED <<radio, lastId, broken>>

(***************************************************************************)
(* Requests without callbacks: mtk_ims_call_hangup, which ends every call, *)
(* returns 0 and does not touch the user_data it is given; those of a      *)
(* registration.                                                           *)
(***************************************************************************)
Hangup ==
  /\ ~broken
  /\ NextSerial(NoToken)
  /\ UNCHANGED <<reqs, count, calls, callRefs, radio, inside, broken>>

HangupAnswered(s) ==
  /\ ~broken /\ inside = Idle
  /\ table[s] = NoToken
  /\ table' = [table EXCEPT ![s] = Vacant]
  /\ UNCHANGED <<reqs, count, calls, callRefs, radio, lastId, inside, broken>>

Next ==
  \/ \E u \in Token : Dial(u) \/ DialRefused(u) \/ DialComplete(u) \/ DialDestroy(u)
  \/ \E u \in Token : Send(u) \/ SendRefused(u)
  \/ CancelDial
  \/ \E s \in Serials : SmsComplete(s) \/ HangupAnswered(s)
  \/ SmsDestroy
  \/ Hangup

Spec == Init /\ [][Next]_vars

(***************************************************************************)
(* Properties.                                                             *)
(***************************************************************************)
(* Every callback that is still to come finds its block: what the two      *)
(* layers below hold are allocated blocks, each held once, with the        *)
(* user_data still held; and each dial keeps the MtkImsCall alive.         *)
BlocksSound ==
  /\ \A u \in Token : reqs[u] # "none" <=> Held(u)
  /\ \A u \in Token : count[u] = IF Held(u) THEN 1 ELSE 0
  /\ radio = {u \in Token : reqs[u] = "dial"}
  /\ \A u \in Token : reqs[u] = "sms" <=> \E s \in Serials : table[s] = u
  /\ \A s, t \in Serials : table[s] \in Token /\ table[s] = table[t] => s = t
  /\ callRefs = 1 + Cardinality(radio)

(* ofono's callbacks of dials and SMS get the contract of the request      *)
(* layer.  Up to the undefined behaviour of a refusal: complete() once at  *)
(* most, then destroy() exactly once.                                      *)
PhaseOf(c) ==
  CASE c.complete = 0 /\ c.destroy = 0 -> "pending"
    [] c.complete = 1 /\ c.destroy = 0 -> "completed"
    [] c.complete = 0 /\ c.destroy = 1 -> "released"
    [] c.complete = 1 /\ c.destroy = 1 -> "done"
    [] OTHER -> "broken"

Contract == INSTANCE RequestContract WITH phase <- [u \in Token |-> PhaseOf(calls[u])]

ContractSpec == Contract!Spec

(* The constant that dial returns as its id makes its cancellation hit     *)
(* whatever request has serial 1: an SMS that was sent is only released    *)
(* without complete(), its outcome lost, if it has that serial, and while  *)
(* a dial is pending; the dial itself always completes.                    *)
OnlyFirstRequestLost ==
  [][\A u \in Token : calls[u] = [complete |-> 0, destroy |-> 0]
                         /\ calls'[u] = [complete |-> 0, destroy |-> 1] =>
       table[1] = u /\ radio # {}]_vars
=============================================================================
