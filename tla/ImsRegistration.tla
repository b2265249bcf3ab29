--------------------------- MODULE ImsRegistration ---------------------------
(***************************************************************************)
(* The IMS registration object of mtk_ims.c (MtkIms): set_registration     *)
(* sends a batch of oneway requests and wraps ofono's callbacks into a     *)
(* MtkImsResultRequest that keeps the MtkIms alive; two indications of the *)
(* modem drive ims_state.  The reference the slot holds and its end        *)
(* (mtk_slot_terminate) are part of the model.                             *)
(*                                                                         *)
(* Below is the request layer, taken at its contract (RequestContract,     *)
(* which RadioExt implements): an accepted user_data is completed at most  *)
(* once and then destroyed, a refused one is destroyed at once.  Above is  *)
(* ofono, to which MtkIms owes the same contract.                          *)
(***************************************************************************)
EXTENDS Naturals, Sequences

CONSTANTS
  Token,       \* user_data of ofono; a MtkImsResultRequest goes by the one it has
  NoToken,     \* no user_data
  Indications, \* the indications the modem sends, of those below
  MaxInbox,    \* bound on the indications that wait in the main loop
  MaxSent,     \* bound on the requests the modem has not handled
  MayRefuse    \* whether gbinder may refuse a transaction

ASSUME ConstantAssumption ==
  /\ NoToken \notin Token
  /\ MaxInbox \in Nat /\ MaxSent \in Nat /\ MayRefuse \in BOOLEAN

VARIABLES
  haveWifi,    \* the property wifi.interface is not empty, fixed when the device boots
  slotIms,     \* mtk_slot: self->ims is not NULL
  refs,        \* reference count of the MtkIms, finalized when it reaches 0
  reqs,        \* [Token -> state of its MtkImsResultRequest]
  calls,       \* [Token -> complete and destroy calls, whether cancel() was called]
  imsState,    \* self->ims_state
  known,       \* what get_state told ofono when the state-changed signal last reached it
  inbox,       \* indications the modem has sent and the main loop has not handled
  reported,    \* the state the indication that was sent last stands for
  sent,        \* oneway requests on their way to the modem, in order
  answers,     \* user_data of the setImsEnabled requests the modem has answered
  modem,       \* features the modem has staged until isLast, and settings it uses
  asked,       \* the last registration: its value, its user_data, whether all was accepted
  broken       \* the undefined behaviour that has happened, "no" if none; it ends the model

ObjectVars == <<slotIms, refs, reqs, calls>>
StateVars == <<imsState, known, inbox, reported>>
ConfigVars == <<sent, answers, modem, asked>>

vars == <<haveWifi, ObjectVars, StateVars, ConfigVars, broken>>

ImsState == {"NOT_REGISTERED", "REGISTERING", "REGISTERED", "UNKNOWN"}

(* imsRegStatusReport by its report_type, imsRegistrationInfo by its       *)
(* register_state, 0 or not.                                               *)
StateOf ==
  [registering |-> "REGISTERING", registered |-> "REGISTERED",
   register_fail |-> "NOT_REGISTERED", other_status |-> "UNKNOWN",
   info_0 |-> "NOT_REGISTERED", info_1 |-> "REGISTERED"]

(* The indications whose handlers only log, imsRegInfoInd and              *)
(* sipRegInfoInd, which also tell of the registration, among them.         *)
Logged == {"reg_info"}

ASSUME IndicationAssumption == Indications \subseteq DOMAIN StateOf \cup Logged

Setting == {"volte", "vowifi", "wifi"}

(* What of a request the modem's configuration depends on; a feature that  *)
(* is the last one makes the modem use those it was given.                 *)
Request == [sets : Setting \cup {"ims"}, value : BOOLEAN, last : BOOLEAN,
            ud : Token \cup {NoToken}]

Ask(sets, value, last) == [sets |-> sets, value |-> value, last |-> last, ud |-> NoToken]

AskEnabled(value, u) == [sets |-> "ims", value |-> value, last |-> FALSE, ud |-> u]

(* A transaction that gbinder refuses is lost. *)
Unless(refused, r) == IF r \in refused THEN <<>> ELSE <<r>>

Volte(value) == Ask("volte", value, ~haveWifi)
Vowifi(value) == Ask("vowifi", value, TRUE)
WifiState(value) == Ask("wifi", value, FALSE)

Transactions(value, u) ==
  {Volte(value), AskEnabled(value, u)}
    \cup (IF haveWifi THEN {Vowifi(value), WifiState(value)} ELSE {})

(* Mutated form of Batch: the answer ofono waits for comes first. *)
BatchEnableFirst(value, u, refused) ==
  Unless(refused, AskEnabled(value, u))
    \o Unless(refused, Volte(value))
    \o (IF haveWifi THEN Unless(refused, Vowifi(value)) \o Unless(refused, WifiState(value))
        ELSE <<>>)

(* The transactions of one mtk_ims_set_registration. *)
Batch(value, u, refused) ==
  Unless(refused, Volte(value))
    \o (IF haveWifi THEN Unless(refused, Vowifi(value)) \o Unless(refused, WifiState(value))
        ELSE <<>>)
    \o Unless(refused, AskEnabled(value, u))

TypeOK ==
  /\ haveWifi \in BOOLEAN /\ slotIms \in BOOLEAN /\ refs \in Nat
  /\ reqs \in [Token -> {"none", "pending", "silent", "completing"}]
  /\ calls \in [Token -> [complete : Nat, destroy : Nat, cancelled : BOOLEAN]]
  /\ imsState \in ImsState /\ known \in ImsState /\ reported \in ImsState
  /\ inbox \in Seq(Indications)
  /\ sent \in Seq(Request)
  /\ answers \subseteq Token
  /\ modem \in [staged : [{"volte", "vowifi"} -> {{}, {TRUE}, {FALSE}}],
                used : [Setting -> BOOLEAN]]
  /\ asked \in [value : BOOLEAN, ud : Token \cup {NoToken}, intact : BOOLEAN]
  /\ broken \in {"no", "freed_twice", "used_after_finalize"}

(* mtk_ims_new, called by mtk_slot_new. *)
Init ==
  /\ haveWifi \in BOOLEAN /\ slotIms = TRUE /\ refs = 1
  /\ reqs = [u \in Token |-> "none"]
  /\ calls = [u \in Token |-> [complete |-> 0, destroy |-> 1, cancelled |-> FALSE]]
  /\ imsState = "NOT_REGISTERED" /\ known = "NOT_REGISTERED" /\ reported = "NOT_REGISTERED"
  /\ inbox = <<>>
  /\ sent = <<>>
  /\ answers = {}
  /\ modem = [staged |-> [f \in {"volte", "vowifi"} |-> {}],
              used |-> [s \in Setting |-> FALSE]]
  /\ asked = [value |-> FALSE, ud |-> NoToken, intact |-> TRUE]
  /\ broken = "no"

Held(u) == calls[u].destroy = 0

(***************************************************************************)
(* BinderExtImsInterface.                                                  *)
(***************************************************************************)
(* Mutated form of TakeRequest: the request takes no reference. *)
TakeRequestUnreferenced(u, w) ==
  /\ reqs' = [reqs EXCEPT ![u] = IF w THEN "pending" ELSE "silent"]
  /\ calls' = [calls EXCEPT ![u] = [complete |-> 0, destroy |-> 0, cancelled |-> FALSE]]
  /\ UNCHANGED <<refs, broken>>

(* mtk_ims_result_request_new, its setImsEnabled accepted; w tells whether *)
(* ofono gave a complete().                                                *)
TakeRequest(u, w) ==
  /\ reqs' = [reqs EXCEPT ![u] = IF w THEN "pending" ELSE "silent"]
  /\ refs' = refs + 1
  /\ calls' = [calls EXCEPT ![u] = [complete |-> 0, destroy |-> 0, cancelled |-> FALSE]]
  /\ UNCHANGED broken

(* Mutated form of RefuseRequest: set_registration destroys the request    *)
(* instead of freeing it.                                                  *)
RefuseRequestDestroysAgain(u) ==
  /\ calls' = [calls EXCEPT ![u] = [complete |-> 0, destroy |-> 2, cancelled |-> FALSE]]
  /\ broken' = "freed_twice"
  /\ UNCHANGED <<refs, reqs>>

(* Its setImsEnabled refused: the request layer has destroyed it, which    *)
(* called ofono's destroy() and freed the block, when set_registration     *)
(* frees the block again.                                                  *)
RefuseRequest(u) ==
  /\ calls' = [calls EXCEPT ![u] = [complete |-> 0, destroy |-> 1, cancelled |-> FALSE]]
  /\ broken' = "freed_twice"
  /\ UNCHANGED <<refs, reqs>>

(* mtk_ims_set_registration.  The ids of the configuration requests, and   *)
(* with them a refusal, are not looked at.                                 *)
SetRegistration(value, u, w) ==
  /\ broken = "no"
  /\ slotIms /\ ~Held(u)
  /\ Len(sent) + Len(Batch(value, u, {})) <= MaxSent
  /\ \E refused \in IF MayRefuse THEN SUBSET Transactions(value, u) ELSE {{}} :
       /\ sent' = sent \o Batch(value, u, refused)
       /\ asked' = [value |-> value, ud |-> u, intact |-> refused = {}]
       /\ IF AskEnabled(value, u) \in refused THEN RefuseRequest(u) ELSE TakeRequest(u, w)
  /\ UNCHANGED <<haveWifi, slotIms, answers, modem>>
  /\ UNCHANGED StateVars

(* mtk_ims_cancel of an operation that has not ended: it only logs. *)
Cancel(u) ==
  /\ broken = "no"
  /\ slotIms /\ reqs[u] # "none"
  /\ calls' = [calls EXCEPT ![u].cancelled = TRUE]
  /\ UNCHANGED <<haveWifi, slotIms, refs, reqs, broken>>
  /\ UNCHANGED <<StateVars, ConfigVars>>

(* mtk_slot_terminate: the slot is shut down or finalized. *)
SlotTerminate ==
  /\ broken = "no"
  /\ slotIms
  /\ slotIms' = FALSE
  /\ refs' = refs - 1
  /\ UNCHANGED <<haveWifi, reqs, calls, broken>>
  /\ UNCHANGED <<StateVars, ConfigVars>>

(***************************************************************************)
(* Callbacks of the request layer.                                         *)
(***************************************************************************)
(* ofono is inside a complete(): only API calls are made. *)
InCallback == \E u \in Token : reqs[u] = "completing"

(* mtk_ims_result_request_complete: the answer is there, ofono is told. *)
Complete(u) ==
  /\ broken = "no" /\ ~InCallback
  /\ u \in answers /\ reqs[u] = "pending"
  /\ answers' = answers \ {u}
  /\ reqs' = [reqs EXCEPT ![u] = "completing"]
  /\ calls' = [calls EXCEPT ![u].complete = @ + 1]
  /\ UNCHANGED <<haveWifi, slotIms, refs, sent, modem, asked, broken>>
  /\ UNCHANGED StateVars

(* mtk_ims_result_request_destroy: ofono's destroy(), then                 *)
(* mtk_ims_result_request_free.                                            *)
DestroyRequest(u) ==
  /\ reqs' = [reqs EXCEPT ![u] = "none"]
  /\ refs' = refs - 1
  /\ calls' = [calls EXCEPT ![u].destroy = @ + 1, ![u].cancelled = FALSE]

(* The request layer destroys its request, after complete() or, if ofono   *)
(* gave none, when the answer arrives; or without an answer, as another    *)
(* request takes its serial or a cancel() meant for another one hits it.   *)
(* An answer that is still to come will find no request.                   *)
Destroy(u) ==
  /\ broken = "no"
  /\ reqs[u] # "none"
  /\ InCallback => reqs[u] = "completing"
  /\ DestroyRequest(u)
  /\ answers' = answers \ {u}
  /\ sent' = [i \in DOMAIN sent |->
                IF sent[i].ud = u THEN [sent[i] EXCEPT !.ud = NoToken] ELSE sent[i]]
  /\ UNCHANGED <<haveWifi, slotIms, modem, asked, broken>>
  /\ UNCHANGED StateVars

(***************************************************************************)
(* Indications.                                                            *)
(***************************************************************************)
(* Mutated form of HandleIndication: registration infos are stored, but    *)
(* not signalled.                                                          *)
HandleIndicationSilently ==
  LET state == StateOf[Head(inbox)] IN
  /\ broken = "no" /\ ~InCallback /\ refs > 0
  /\ inbox # <<>> /\ Head(inbox) \notin Logged
  /\ inbox' = Tail(inbox)
  /\ imsState' = state
  /\ known' = IF Head(inbox) \in {"info_0", "info_1"} THEN known ELSE state
  /\ UNCHANGED <<haveWifi, reported, broken>>
  /\ UNCHANGED <<ObjectVars, ConfigVars>>

(* mtk_ims_reg_status_changed and mtk_ims_registration_info_changed: a     *)
(* state that is new is stored and signalled to ofono, which reads it.     *)
HandleIndication ==
  LET state == StateOf[Head(inbox)] IN
  /\ broken = "no" /\ ~InCallback /\ refs > 0
  /\ inbox # <<>> /\ Head(inbox) \notin Logged
  /\ inbox' = Tail(inbox)
  /\ IF state # imsState
     THEN imsState' = state /\ known' = imsState'
     ELSE UNCHANGED <<imsState, known>>
  /\ UNCHANGED <<haveWifi, reported, broken>>
  /\ UNCHANGED <<ObjectVars, ConfigVars>>

(* The same handlers, still connected to the MtkRadioExt, which outlives   *)
(* the MtkIms.                                                             *)
HandleIndicationDangling ==
  /\ broken = "no" /\ refs = 0
  /\ inbox # <<>> /\ Head(inbox) \notin Logged
  /\ broken' = "used_after_finalize"
  /\ UNCHANGED haveWifi
  /\ UNCHANGED <<ObjectVars, StateVars, ConfigVars>>

(* The handlers of mtk_radio_ext.c that only log. *)
LogIndication ==
  /\ broken = "no" /\ ~InCallback
  /\ inbox # <<>> /\ Head(inbox) \in Logged
  /\ inbox' = Tail(inbox)
  /\ UNCHANGED <<haveWifi, imsState, known, reported, broken>>
  /\ UNCHANGED <<ObjectVars, ConfigVars>>

(***************************************************************************)
(* The modem.                                                              *)
(***************************************************************************)
Indicate(i) ==
  /\ broken = "no"
  /\ Len(inbox) < MaxInbox
  /\ inbox' = Append(inbox, i)
  /\ reported' = IF i \in Logged THEN reported ELSE StateOf[i]
  /\ UNCHANGED <<haveWifi, imsState, known, broken>>
  /\ UNCHANGED <<ObjectVars, ConfigVars>>

(* Oneway transactions are delivered in order. *)
ModemConfigures ==
  LET r == Head(sent)
      staged == [modem.staged EXCEPT ![r.sets] = {r.value}] IN
  /\ broken = "no"
  /\ sent # <<>> /\ r.sets # "ims"
  /\ sent' = Tail(sent)
  /\ modem' =
       IF r.sets = "wifi" THEN [modem EXCEPT !.used["wifi"] = r.value]
       ELSE IF ~r.last THEN [modem EXCEPT !.staged = staged]
       ELSE [staged |-> [f \in DOMAIN staged |-> {}],
             used |-> [s \in Setting |-> IF s = "wifi" \/ staged[s] = {}
                                         THEN modem.used[s] ELSE TRUE \in staged[s]]]
  /\ UNCHANGED <<haveWifi, answers, asked, broken>>
  /\ UNCHANGED <<ObjectVars, StateVars>>

(* It may also not answer at all; the request then stays for good. *)
ModemAnswers ==
  /\ broken = "no"
  /\ sent # <<>> /\ Head(sent).sets = "ims"
  /\ sent' = Tail(sent)
  /\ answers' \in {answers, answers \cup ({Head(sent).ud} \ {NoToken})}
  /\ UNCHANGED <<haveWifi, modem, asked, broken>>
  /\ UNCHANGED <<ObjectVars, StateVars>>

Next ==
  \/ \E value \in BOOLEAN, u \in Token, w \in BOOLEAN : SetRegistration(value, u, w)
  \/ \E u \in Token : Cancel(u) \/ Complete(u) \/ Destroy(u)
  \/ SlotTerminate
  \/ HandleIndication
  \/ HandleIndicationDangling
  \/ LogIndication
  \/ \E i \in Indications : Indicate(i)
  \/ ModemConfigures
  \/ ModemAnswers

Spec == Init /\ [][Next]_vars

(***************************************************************************)
(* Properties.                                                             *)
(***************************************************************************)
(* The MtkIms lives exactly as long as the slot or a pending request needs *)
(* it, so the handlers of its signals, which nobody disconnects, only run  *)
(* after its end if the slot was terminated before.                        *)
AliveWhileUsed ==
  /\ slotIms \/ (\E u \in Token : reqs[u] # "none") <=> refs > 0
  /\ broken = "used_after_finalize" => ~slotIms

(* Once the indications are handled ofono knows the state of the last one. *)
InSyncWhenHandled == inbox = <<>> /\ refs > 0 => known = reported

(* When complete() is called for the last registration, and every request  *)
(* it made was accepted, the modem uses the features and the Wi-Fi state   *)
(* ofono asked for.                                                        *)
ConfiguredWhenCompleted ==
  \A u \in Token : reqs[u] = "completing" /\ asked.ud = u /\ asked.intact =>
    \A s \in IF haveWifi THEN Setting ELSE {"volte"} : modem.used[s] = asked.value

(* ofono's callbacks get the contract that the request layer gives to      *)
(* MtkIms, also while the slot goes away.                                  *)
PhaseOf(c) ==
  CASE c.complete = 0 /\ c.destroy = 0 -> "pending"
    [] c.complete = 1 /\ c.destroy = 0 -> "completed"
    [] c.complete = 0 /\ c.destroy = 1 -> "released"
    [] c.complete = 1 /\ c.destroy = 1 -> "done"
    [] OTHER -> "broken"

Contract == INSTANCE RequestContract WITH phase <- [u \in Token |-> PhaseOf(calls[u])]

ContractSpec == Contract!Spec

(* A cancelled operation is not completed any more: the comment in         *)
(* mtk_ims_cancel says that it cancels the pending operation.              *)
CancelEndsOperation ==
  [][\A u \in Token : reqs[u] = "pending" /\ calls[u].cancelled =>
        calls'[u].complete = calls[u].complete]_vars
=============================================================================
