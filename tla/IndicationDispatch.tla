------------------------ MODULE IndicationDispatch -------------------------
(***************************************************************************)
(* The indications of the modem as mtk_radio_ext.c takes them apart:       *)
(* mtk_radio_ext_indication dispatches on the code, a handler per code     *)
(* reads the arguments, and either emits a signal to the MtkIms or the     *)
(* MtkImsCall, answers an offered call with setCallIndication, or logs.    *)
(*                                                                         *)
(* Firmware and code may disagree on the arguments of an indication, so a  *)
(* message has a shape: how much of it the readers of its handler find.    *)
(* What the two receivers do with a signal is their net effect: CallContract *)
(* for the calls, the last state for the registration.                     *)
(***************************************************************************)
EXTENDS Naturals, Sequences, FiniteSets

CONSTANTS
  CallId,      \* call ids of the modem
  Shown,       \* the call states ofono may be shown
  Absent,      \* no call
  Nobody,      \* no disconnect signal is being emitted
  RegReports,  \* the registration states the modem reports
  Shapes,      \* the shapes of messages that occur
  MayRefuse,   \* whether gbinder may refuse the transaction of setCallIndication
  MaxInbox,    \* bound on the indications that wait
  MaxOffers    \* bound on the incoming calls the modem offers

ASSUME StateAssumption ==
  /\ Absent \notin Shown /\ Nobody \notin CallId /\ "reg" \notin CallId
  /\ "incoming" \in Shown
  /\ {"disconnected", "unreported", "offered"} \cap (Shown \cup {Absent}) = {}

RegState == {"not_registered", "registering", "registered", "unknown"}

ASSUME RegAssumption == RegReports \subseteq RegState

ASSUME BoundAssumption == MaxInbox \in Nat \ {0} /\ MaxOffers \in Nat \ {0} /\ MayRefuse \in BOOLEAN

VARIABLES
  inbox,       \* indications sent and not yet dispatched
  seen,        \* ofono: [CallId -> the state of the call, or Absent]
  ending,      \* the call whose disconnect signal is being emitted, or Nobody
  reg,         \* MtkIms: ims_state
  allows,      \* setCallIndication transactions on their way to the modem
  status,      \* what the last indication's transaction was answered
  broken,      \* "no", or the undefined behaviour that was reached
  modem,       \* [CallId -> the state of the call for the modem]
  modemReg,    \* the registration state the modem reported last
  offer,       \* [CallId -> the sequence number of its last offer], 0 if none
  offers,      \* incoming calls offered so far
  damaged,     \* history: the calls, and "reg", whose last report was not whole
  unheard      \* history: the calls whose last offer cannot be answered

modemVars == <<modem, modemReg, offer, offers>>

vars == <<inbox, seen, ending, reg, allows, status, broken, modemVars, damaged, unheard>>

CallReport == Shown \cup {"disconnected", "unreported"}

(* "whole": every argument is there; "untyped": not even the indication    *)
(* type; "cut": the rest of the arguments is missing or too short;         *)
(* "numberless": a callInfo with the six strings its check asks for.       *)
Shape == {"whole", "untyped", "cut", "numberless"}

ASSUME ShapeAssumption == Shapes \subseteq Shape /\ "whole" \in Shapes

Indication ==
  [kind : {"incomingCall"}, id : CallId, seq : 1 .. MaxOffers, shape : Shapes \ {"numberless"}]
    \cup [kind : {"callInfo"}, id : CallId, state : CallReport, shape : Shapes]
    \cup [kind : {"regStatus"}, state : RegState, shape : Shapes \ {"numberless"}]
    \cup [kind : {"regInfo"}, state : {"registered", "not_registered"},
          shape : Shapes \ {"numberless"}]
    \cup [kind : {"imsRegInfo", "logged", "unhandled"}, shape : Shapes \ {"numberless"}]

Allow == [id : CallId, seq : 1 .. MaxOffers]

TypeOK ==
  /\ inbox \in Seq(Indication)
  /\ seen \in [CallId -> Shown \cup {Absent}]
  /\ ending \in CallId \cup {Nobody}
  /\ reg \in RegState
  /\ allows \in Seq(Allow)
  /\ status \in {"ok", "failed"}
  /\ broken \in {"no", "null_number", "null_report", "read_past_end"}
  /\ modem \in [CallId -> Shown \cup {Absent, "offered", "unreported"}]
  /\ modemReg \in RegState
  /\ offer \in [CallId -> 0 .. MaxOffers]
  /\ offers \in 0 .. MaxOffers
  /\ damaged \subseteq CallId \cup {"reg"}
  /\ unheard \subseteq CallId

Calls == INSTANCE CallContract

Init ==
  /\ Calls!Init
  /\ inbox = <<>>
  /\ reg = "not_registered"
  /\ allows = <<>>
  /\ status = "ok"
  /\ broken = "no"
  /\ modem = [id \in CallId |-> Absent]
  /\ modemReg = "not_registered"
  /\ offer = [id \in CallId |-> 0]
  /\ offers = 0
  /\ damaged = {}
  /\ unheard = {}

(***************************************************************************)
(* The modem.                                                              *)
(***************************************************************************)
Send(m) ==
  /\ broken = "no"
  /\ Len(inbox) < MaxInbox
  /\ inbox' = Append(inbox, m)
  /\ UNCHANGED <<seen, ending, reg, status, broken>>

(* An incoming call waits until it is allowed. *)
OfferCall(id, shape) ==
  /\ modem[id] = Absent /\ offers < MaxOffers
  /\ offers' = offers + 1
  /\ offer' = [offer EXCEPT ![id] = offers + 1]
  /\ modem' = [modem EXCEPT ![id] = "offered"]
  /\ Send([kind |-> "incomingCall", id |-> id, seq |-> offers + 1, shape |-> shape])
  /\ unheard' = IF shape = "whole" THEN unheard \ {id} ELSE unheard \cup {id}
  /\ UNCHANGED <<allows, modemReg, damaged>>

(* A report of a call; one that does not change what ofono shows repairs   *)
(* nothing either.                                                         *)
Report(id, state, shape) ==
  /\ Send([kind |-> "callInfo", id |-> id, state |-> state, shape |-> shape])
  /\ damaged' = CASE shape \in {"untyped", "cut"} -> damaged \cup {id}
                  [] shape \notin {"untyped", "cut"} /\ state = "unreported" -> damaged
                  [] OTHER -> damaged \ {id}

(* The modem takes the offer that was allowed as a call, and no other. *)
TakeAllow(shape) ==
  /\ allows # <<>>
  /\ allows' = Tail(allows)
  /\ LET a == Head(allows) IN
     IF modem[a.id] = "offered" /\ offer[a.id] = a.seq
     THEN /\ modem' = [modem EXCEPT ![a.id] = "incoming"]
          /\ Report(a.id, "incoming", shape)
          /\ UNCHANGED <<modemReg, offer, offers, unheard>>
     ELSE UNCHANGED <<inbox, seen, ending, reg, status, broken, modemVars, damaged, unheard>>

DialledCallGetsId(id, shape) ==
  /\ modem[id] = Absent
  /\ modem' = [modem EXCEPT ![id] = "unreported"]
  /\ Report(id, "unreported", shape)
  /\ UNCHANGED <<allows, modemReg, offer, offers, unheard>>

CallProgresses(id, state, shape) ==
  /\ modem[id] \notin {Absent, "offered"}
  /\ modem' = [modem EXCEPT ![id] = state]
  /\ Report(id, state, shape)
  /\ UNCHANGED <<allows, modemReg, offer, offers, unheard>>

CallEnds(id, shape) ==
  /\ modem[id] # Absent
  /\ modem' = [modem EXCEPT ![id] = Absent]
  /\ Report(id, "disconnected", shape)
  /\ UNCHANGED <<allows, modemReg, offer, offers, unheard>>

RegistrationChanges(kind, state, shape) ==
  /\ kind = "regInfo" => state \in {"registered", "not_registered"}
  /\ modemReg' = state
  /\ Send([kind |-> kind, state |-> state, shape |-> shape])
  /\ damaged' = IF shape = "whole" THEN damaged \ {"reg"} ELSE damaged \cup {"reg"}
  /\ UNCHANGED <<allows, modem, offer, offers, unheard>>

SendOther(kind, shape) ==
  /\ Send([kind |-> kind, shape |-> shape])
  /\ UNCHANGED <<allows, modemVars, damaged, unheard>>

(***************************************************************************)
(* The handlers.  Each says what becomes of the receivers' state; the      *)
(* dispatch below takes the message and sets the status.                   *)
(***************************************************************************)
(* Mutated forms of AllowCall: the offer is answered with call id and      *)
(* sequence number swapped; every offer is answered twice; none is.        *)
AllowCallSwapped(m) == allows' = Append(allows, [id |-> m.seq, seq |-> m.id])
AllowCallTwice(m) ==
  allows' = allows \o <<[id |-> m.id, seq |-> m.seq], [id |-> m.id, seq |-> m.seq]>>
AllowCallNever(m) == UNCHANGED allows

(* setCallIndication with mode allow, for the call and sequence number of  *)
(* the offer.                                                              *)
AllowCall(m) == allows' = Append(allows, [id |-> m.id, seq |-> m.seq])

(* incomingCallIndication.  Whether the transaction was accepted is not    *)
(* looked at.                                                              *)
HandleIncomingCall(m) ==
  /\ m.kind = "incomingCall"
  /\ IF m.shape = "whole"
     THEN \/ AllowCall(m) /\ UNCHANGED unheard
          \/ /\ MayRefuse
             /\ unheard' = IF offer[m.id] = m.seq THEN unheard \cup {m.id} ELSE unheard
             /\ UNCHANGED allows
     ELSE UNCHANGED <<allows, unheard>>
  /\ UNCHANGED <<seen, ending, reg, broken>>

(* callInfoIndication asks for six strings. *)
Taken(m) == m.shape \in {"whole", "numberless"}

(* callInfoIndication and mtk_ims_call_handle_call_info.  A call that is   *)
(* not listed is added, for which the length of its number is taken.       *)
HandleCallInfo(m) ==
  /\ m.kind = "callInfo"
  /\ \/ /\ ~Taken(m) \/ m.state = "unreported"
        /\ UNCHANGED <<seen, ending, broken>>
     \/ /\ Taken(m) /\ m.state # "unreported"
        /\ m.shape = "numberless" /\ seen[m.id] = Absent
        /\ broken' = "null_number"
        /\ UNCHANGED <<seen, ending>>
     \/ /\ Taken(m) /\ m.state # "unreported"
        /\ m.shape = "numberless" => seen[m.id] # Absent
        /\ IF m.state = "disconnected" THEN Calls!Ending(m.id) ELSE Calls!Changed(m.id, m.state)
        /\ UNCHANGED broken
  /\ UNCHANGED <<reg, allows, unheard>>

(* imsRegStatusReport.  A report that cannot be read is used all the same. *)
HandleRegStatus(m) ==
  /\ m.kind = "regStatus"
  /\ IF m.shape = "whole"
     THEN reg' = m.state /\ UNCHANGED broken
     ELSE broken' = "null_report" /\ UNCHANGED reg
  /\ UNCHANGED <<seen, ending, allows, unheard>>

(* Mutated form of HandleRegInfo: the two numbers are read in the wrong    *)
(* order, so that the capability is taken for the state.                   *)
HandleRegInfoSwapped(m) ==
  /\ m.kind = "regInfo"
  /\ reg' \in {"registered", "not_registered"}
  /\ UNCHANGED <<seen, ending, broken, allows, unheard>>

(* imsRegistrationInfo.  What cannot be read stays 0: not registered. *)
HandleRegInfo(m) ==
  /\ m.kind = "regInfo"
  /\ reg' = IF m.shape = "whole" THEN m.state ELSE "not_registered"
  /\ UNCHANGED <<seen, ending, broken, allows, unheard>>

(* imsRegInfoInd logs seven elements of its vector, without asking how     *)
(* many there are.                                                         *)
HandleImsRegInfo(m) ==
  /\ m.kind = "imsRegInfo"
  /\ broken' \in (IF m.shape = "cut" THEN {"no", "read_past_end"} ELSE {"no"})
  /\ UNCHANGED <<seen, ending, reg, allows, unheard>>

(* sipRegInfoInd and the other indications that are only logged. *)
HandleLogged(m) ==
  /\ m.kind = "logged"
  /\ UNCHANGED <<seen, ending, reg, broken, allows, unheard>>

Handle(m) ==
  \/ HandleIncomingCall(m)
  \/ HandleCallInfo(m)
  \/ HandleRegStatus(m)
  \/ HandleRegInfo(m)
  \/ HandleImsRegInfo(m)
  \/ HandleLogged(m)

(***************************************************************************)
(* mtk_radio_ext_indication.                                               *)
(***************************************************************************)
TakeIndication ==
  /\ broken = "no" /\ ending = Nobody
  /\ inbox' = Tail(inbox)
  /\ UNCHANGED <<modemVars, damaged>>

(* A code with a handler, and a type that was read. *)
Dispatch ==
  /\ inbox # <<>>
  /\ TakeIndication
  /\ Head(inbox).shape # "untyped"
  /\ Handle(Head(inbox))
  /\ status' = "ok"

(* Any other code, the whole of IMtkRadioExIndication, and indications     *)
(* without a type.                                                         *)
Reject ==
  /\ inbox # <<>>
  /\ TakeIndication
  /\ Head(inbox).shape = "untyped" \/ Head(inbox).kind = "unhandled"
  /\ status' = "failed"
  /\ UNCHANGED <<seen, ending, reg, broken, allows, unheard>>

(* The handler of the disconnect signal is done. *)
DisconnectHandled ==
  /\ Calls!Ended
  /\ UNCHANGED <<inbox, reg, allows, status, broken, modemVars, damaged, unheard>>

Plugin == Dispatch \/ Reject \/ DisconnectHandled

ModemTakesAllow == \E shape \in Shapes : TakeAllow(shape)

Next ==
  \/ \E shape \in Shapes \ {"numberless"} :
       \/ \E id \in CallId : OfferCall(id, shape)
       \/ \E state \in RegReports, kind \in {"regStatus", "regInfo"} :
            RegistrationChanges(kind, state, shape)
       \/ \E kind \in {"imsRegInfo", "logged", "unhandled"} : SendOther(kind, shape)
  \/ \E shape \in Shapes, id \in CallId :
       \/ DialledCallGetsId(id, shape)
       \/ \E state \in Shown : CallProgresses(id, state, shape)
       \/ CallEnds(id, shape)
  \/ ModemTakesAllow
  \/ Plugin

Spec == Init /\ [][Next]_vars

(***************************************************************************)
(* Properties.                                                             *)
(***************************************************************************)
VisibleTo(state) == IF state \in Shown THEN state ELSE Absent

(* When everything is handled, ofono's view differs from the modem's only  *)
(* in what the last report of it did not say: a damaged message is neither *)
(* taken for something else, nor does it outlast the next whole one.       *)
OnlyDamagedDiffer ==
  (inbox = <<>> /\ ending = Nobody /\ broken = "no") =>
    /\ \A id \in CallId \ damaged : seen[id] = VisibleTo(modem[id])
    /\ "reg" \notin damaged => reg = modemReg

(* Each setCallIndication allows a call that was offered, under the        *)
(* sequence number of that offer, and no offer is allowed twice.           *)
AllowsMatchOffers ==
  /\ \A i \in DOMAIN allows :
       /\ allows[i].seq <= offer[allows[i].id]
       /\ \A id \in CallId \ {allows[i].id} : offer[id] # allows[i].seq
  /\ \A i, j \in DOMAIN allows : allows[i].seq = allows[j].seq => i = j

(* A call the modem still offers when nothing is on its way is one whose   *)
(* indication could not be read, or whose setCallIndication was refused.   *)
NoOfferForgotten ==
  (inbox = <<>> /\ allows = <<>> /\ broken = "no") =>
    \A id \in CallId : modem[id] = "offered" => id \in unheard
=============================================================================
