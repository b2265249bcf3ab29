---------------------- MODULE IndicationDispatchProofs ----------------------
(***************************************************************************)
(* Theorems about IndicationDispatch, for any calls, states, shapes of     *)
(* messages and bounds.                                                    *)
(***************************************************************************)
EXTENDS IndicationDispatch, TLAPS

(***************************************************************************)
(* The inductive invariants; each holds on top of TypeOK.                  *)
(***************************************************************************)
(* The offers on their way to the plugin. *)
IsOffer(m) == m.kind = "incomingCall"

(* An offer, or the answer to one, is of a call that was offered under     *)
(* this number, and of no other.                                           *)
OfferedAs(m, last, count) ==
  /\ m.seq <= count
  /\ m.seq <= last[m.id]
  /\ \A id \in CallId : last[id] = m.seq => id = m.id

Offered(m) == OfferedAs(m, offer, offers)

(* Every sequence number is used for one offer, and that for one answer.   *)
OffersSound ==
  /\ \A id \in CallId : offer[id] <= offers
  /\ \A i \in 1 .. Len(inbox) : IsOffer(inbox[i]) => Offered(inbox[i])
  /\ \A i \in 1 .. Len(allows) : Offered(allows[i])
  /\ \A i, j \in 1 .. Len(inbox) :
       i # j /\ IsOffer(inbox[i]) /\ IsOffer(inbox[j]) => inbox[i].seq # inbox[j].seq
  /\ \A i, j \in 1 .. Len(allows) : i # j => allows[i].seq # allows[j].seq
  /\ \A i \in 1 .. Len(inbox), j \in 1 .. Len(allows) :
       IsOffer(inbox[i]) => inbox[i].seq # allows[j].seq

(* An offer that waits is on its way to the plugin, or its answer to the   *)
(* modem.                                                                  *)
OfferOf(m, id, seq) == IsOffer(m) /\ m.shape = "whole" /\ m.id = id /\ m.seq = seq

OffersOnTheirWay ==
  broken = "no" =>
    \A id \in CallId : modem[id] = "offered" =>
      \/ id \in unheard
      \/ \E i \in 1 .. Len(inbox) : OfferOf(inbox[i], id, offer[id])
      \/ \E i \in 1 .. Len(allows) : allows[i].id = id /\ allows[i].seq = offer[id]

(* What a callInfo makes ofono see of its call, if anything. *)
Effective(m) == m.kind = "callInfo" /\ Taken(m) /\ m.state # "unreported"

Value(m) == IF m.state = "disconnected" THEN Absent ELSE m.state

ReportOf(m, id) == Effective(m) /\ m.id = id

(* What ofono knows of a call, or will when the disconnect signal returns. *)
Known(id) == IF ending = id THEN Absent ELSE seen[id]

(* The last report of a call that is on its way tells how the call is; if  *)
(* there is none ofono knows.                                              *)
CallFollows(id) ==
  /\ \A i \in 1 .. Len(inbox) :
       /\ ReportOf(inbox[i], id)
       /\ \A j \in 1 .. Len(inbox) : i < j => ~ReportOf(inbox[j], id)
       => Value(inbox[i]) = VisibleTo(modem[id])
  /\ (\A i \in 1 .. Len(inbox) : ~ReportOf(inbox[i], id)) => VisibleTo(modem[id]) = Known(id)

CallsFollow == broken = "no" => \A id \in CallId \ damaged : CallFollows(id)

IsReg(m) == m.kind \in {"regStatus", "regInfo"}

(* The same for the registration. *)
RegFollows ==
  /\ \A i \in 1 .. Len(inbox) :
       IsReg(inbox[i]) /\ (\A j \in 1 .. Len(inbox) : i < j => ~IsReg(inbox[j])) =>
         inbox[i].shape = "whole" /\ inbox[i].state = modemReg
  /\ (\A i \in 1 .. Len(inbox) : ~IsReg(inbox[i])) => reg = modemReg

RegistrationFollows == broken = "no" /\ "reg" \notin damaged => RegFollows

(***************************************************************************)
(* Messages, and what the steps do to those that wait.                     *)
(***************************************************************************)
LEMMA MessageFacts ==
  ASSUME NEW m \in Indication
  PROVE  /\ m.kind \in {"incomingCall", "callInfo", "regStatus", "regInfo", "imsRegInfo",
                        "logged", "unhandled"}
         /\ m.shape \in Shapes
         /\ IsOffer(m) => m.id \in CallId /\ m.seq \in 1 .. MaxOffers
         /\ m.kind = "callInfo" => m.id \in CallId /\ m.state \in CallReport
         /\ IsReg(m) => m.state \in RegState
         /\ m.kind = "regInfo" => m.state \in {"registered", "not_registered"}
  BY DEF Indication, IsOffer, IsReg, RegState

(* The message m is put at the end. *)
Sent(m) ==
  /\ Len(inbox) \in Nat /\ Len(inbox') = Len(inbox) + 1
  /\ \A i \in 1 .. Len(inbox) : inbox'[i] = inbox[i]
  /\ inbox'[Len(inbox) + 1] = m

(* The first message is taken. *)
Took ==
  /\ Len(inbox) \in Nat \ {0} /\ Head(inbox) = inbox[1] /\ 1 \in 1 .. Len(inbox)
  /\ Len(inbox') = Len(inbox) - 1
  /\ \A i \in 1 .. Len(inbox') : i + 1 \in 1 .. Len(inbox) /\ inbox'[i] = inbox[i + 1]

LEMMA SendShape ==
  ASSUME TypeOK, NEW m \in Indication, Send(m)
  PROVE  /\ inbox' \in Seq(Indication) /\ Sent(m)
         /\ seen' = seen /\ ending' = ending /\ reg' = reg /\ status' = status
         /\ broken = "no" /\ broken' = broken
<1> USE DEF Send, TypeOK, Sent
<1>1. inbox \in Seq(Indication) /\ inbox' = Append(inbox, m)
  OBVIOUS
<1> HIDE DEF TypeOK
<1> QED BY <1>1

LEMMA TakeShape ==
  ASSUME TypeOK, inbox # <<>>, TakeIndication
  PROVE  /\ inbox' \in Seq(Indication) /\ Took /\ Head(inbox) \in Indication
         /\ broken = "no" /\ ending = Nobody
         /\ modem' = modem /\ modemReg' = modemReg /\ offer' = offer /\ offers' = offers
         /\ damaged' = damaged
<1>1. inbox \in Seq(Indication) /\ inbox' = Tail(inbox)
  BY DEF TypeOK, TakeIndication
<1>2. inbox' \in Seq(Indication) /\ Took /\ Head(inbox) \in Indication
  BY <1>1 DEF Took
<1> QED BY <1>2 DEF TakeIndication, modemVars

LEMMA AllowsShape ==
  ASSUME TypeOK
  PROVE  /\ Len(allows) \in Nat
         /\ \A i \in 1 .. Len(allows) : allows[i] \in Allow
         /\ \A a \in Allow : allows' = Append(allows, a) =>
              /\ allows' \in Seq(Allow) /\ Len(allows') = Len(allows) + 1
              /\ \A i \in 1 .. Len(allows) : allows'[i] = allows[i]
              /\ allows'[Len(allows) + 1] = a
         /\ allows # <<>> /\ allows' = Tail(allows) =>
              /\ allows' \in Seq(Allow) /\ Len(allows') = Len(allows) - 1
              /\ Len(allows) \in Nat \ {0}
              /\ Head(allows) = allows[1] /\ Head(allows) \in Allow
              /\ \A i \in 1 .. Len(allows') :
                   i + 1 \in 1 .. Len(allows) /\ allows'[i] = allows[i + 1]
<1>1. allows \in Seq(Allow)
  BY DEF TypeOK
<1> QED BY <1>1

(***************************************************************************)
(* Type correctness.                                                       *)
(***************************************************************************)
LEMMA MessagesTyped ==
  /\ \A id \in CallId, seq \in 1 .. MaxOffers, shape \in Shapes \ {"numberless"} :
       [kind |-> "incomingCall", id |-> id, seq |-> seq, shape |-> shape] \in Indication
  /\ \A id \in CallId, state \in CallReport, shape \in Shapes :
       [kind |-> "callInfo", id |-> id, state |-> state, shape |-> shape] \in Indication
  /\ \A state \in RegState, shape \in Shapes \ {"numberless"} :
       /\ [kind |-> "regStatus", state |-> state, shape |-> shape] \in Indication
       /\ state \in {"registered", "not_registered"} =>
            [kind |-> "regInfo", state |-> state, shape |-> shape] \in Indication
  /\ \A kind \in {"imsRegInfo", "logged", "unhandled"}, shape \in Shapes \ {"numberless"} :
       [kind |-> kind, shape |-> shape] \in Indication
  BY DEF Indication

(* A report of a call, which leaves the rest of the state alone. *)
LEMMA ReportShape ==
  ASSUME TypeOK, NEW id \in CallId, NEW state \in CallReport, NEW shape \in Shapes,
         Report(id, state, shape)
  PROVE  /\ \E m \in Indication :
              /\ Send(m)
              /\ m.kind = "callInfo" /\ m.id = id /\ m.state = state /\ m.shape = shape
         /\ damaged' \subseteq CallId \cup {"reg"}
         /\ ("reg" \in damaged' <=> "reg" \in damaged)
         /\ \A other \in CallId \ {id} : other \in damaged' <=> other \in damaged
         /\ id \notin damaged' =>
              \/ shape \notin {"untyped", "cut"} /\ state # "unreported"
              \/ shape \notin {"untyped", "cut"} /\ state = "unreported" /\ id \notin damaged
<1> DEFINE m == [kind |-> "callInfo", id |-> id, state |-> state, shape |-> shape]
<1>1. m \in Indication /\ Send(m)
  BY MessagesTyped DEF Report
<1>2. m.kind = "callInfo" /\ m.id = id /\ m.state = state /\ m.shape = shape
  OBVIOUS
<1> HIDE DEF m
<1>3. damaged \subseteq CallId \cup {"reg"}
  BY DEF TypeOK
<1>4. CASE shape \in {"untyped", "cut"}
  <2>1. damaged' = damaged \cup {id}
    BY <1>4 DEF Report
  <2> QED BY <1>1, <1>2, <1>3, <1>4, <2>1, StateAssumption
<1>5. CASE shape \notin {"untyped", "cut"} /\ state = "unreported"
  <2>1. damaged' = damaged
    BY <1>5 DEF Report
  <2> QED BY <1>1, <1>2, <1>3, <1>5, <2>1, StateAssumption
<1>6. CASE shape \notin {"untyped", "cut"} /\ state # "unreported"
  <2>1. damaged' = damaged \ {id}
    BY <1>6 DEF Report
  <2> QED BY <1>1, <1>2, <1>3, <1>6, <2>1, StateAssumption
<1> QED BY <1>4, <1>5, <1>6

(***************************************************************************)
(* The steps of the modem.                                                 *)
(***************************************************************************)
(* What a call that is no offer is for the modem. *)
CallState == Shown \cup {Absent, "unreported"}

(* A call becomes new, and the report of it says so; an answer may have    *)
(* been taken.                                                             *)
CallReported(id, state, new, shape) ==
  /\ Report(id, state, shape)
  /\ modem' = [modem EXCEPT ![id] = new]
  /\ \/ state = "unreported" /\ new = "unreported" /\ modem[id] = Absent
     \/ state = "disconnected" /\ new = Absent
     \/ state \in Shown /\ new = state
  /\ \/ allows' = allows
     \/ allows # <<>> /\ allows' = Tail(allows) /\ id = Head(allows).id
  /\ UNCHANGED <<modemReg, offer, offers, unheard>>

(* An answer to an offer that does not wait any more. *)
AllowIgnored ==
  /\ allows # <<>> /\ allows' = Tail(allows)
  /\ ~(modem[Head(allows).id] = "offered" /\ offer[Head(allows).id] = Head(allows).seq)
  /\ UNCHANGED <<inbox, seen, ending, reg, status, broken, modemVars, damaged, unheard>>

LEMMA CallReportStates ==
  /\ Shown \subseteq CallReport /\ "disconnected" \in CallReport /\ "unreported" \in CallReport
  /\ Shown \subseteq CallState /\ Absent \in CallState /\ "unreported" \in CallState
  BY DEF CallReport, CallState

LEMMA TakeAllowSteps ==
  ASSUME TypeOK, NEW shape \in Shapes, TakeAllow(shape)
  PROVE  \/ AllowIgnored
         \/ \E id \in CallId, state \in CallReport, new \in CallState :
              CallReported(id, state, new, shape)
<1> DEFINE a == Head(allows)
<1>1. allows # <<>> /\ allows' = Tail(allows) /\ a \in Allow
  BY AllowsShape DEF TakeAllow
<1>2. a.id \in CallId
  BY <1>1 DEF Allow
<1>3. CASE modem[a.id] = "offered" /\ offer[a.id] = a.seq
  <2>1. /\ modem' = [modem EXCEPT ![a.id] = "incoming"]
        /\ Report(a.id, "incoming", shape)
        /\ UNCHANGED <<modemReg, offer, offers, unheard>>
    BY <1>3 DEF TakeAllow
  <2>2. CallReported(a.id, "incoming", "incoming", shape)
    BY <1>1, <2>1, StateAssumption DEF CallReported
  <2> QED BY <1>2, <2>2, StateAssumption, CallReportStates
<1>4. CASE ~(modem[a.id] = "offered" /\ offer[a.id] = a.seq)
  BY <1>1, <1>4 DEF TakeAllow, AllowIgnored
<1> QED BY <1>3, <1>4

ModemStep ==
  \/ \E id \in CallId, shape \in Shapes \ {"numberless"} : OfferCall(id, shape)
  \/ \E id \in CallId, state \in CallReport, new \in CallState, shape \in Shapes :
       CallReported(id, state, new, shape)
  \/ AllowIgnored
  \/ \E state \in RegReports, kind \in {"regStatus", "regInfo"}, shape \in Shapes \ {"numberless"} :
       RegistrationChanges(kind, state, shape)
  \/ \E kind \in {"imsRegInfo", "logged", "unhandled"}, shape \in Shapes \ {"numberless"} :
       SendOther(kind, shape)

LEMMA NextSteps ==
  ASSUME TypeOK, Next
  PROVE  ModemStep \/ Plugin
<1>1. ASSUME NEW shape \in Shapes, NEW id \in CallId, DialledCallGetsId(id, shape)
      PROVE  ModemStep
  <2>1. CallReported(id, "unreported", "unreported", shape)
    BY <1>1 DEF DialledCallGetsId, CallReported
  <2> QED BY <2>1, CallReportStates DEF ModemStep
<1>2. ASSUME NEW shape \in Shapes, NEW id \in CallId, NEW state \in Shown,
             CallProgresses(id, state, shape)
      PROVE  ModemStep
  <2>1. CallReported(id, state, state, shape)
    BY <1>2 DEF CallProgresses, CallReported
  <2> QED BY <2>1, CallReportStates DEF ModemStep
<1>3. ASSUME NEW shape \in Shapes, NEW id \in CallId, CallEnds(id, shape)
      PROVE  ModemStep
  <2>1. CallReported(id, "disconnected", Absent, shape)
    BY <1>3 DEF CallEnds, CallReported
  <2> QED BY <2>1, CallReportStates DEF ModemStep
<1>4. ASSUME NEW shape \in Shapes, TakeAllow(shape)
      PROVE  ModemStep
  BY <1>4, TakeAllowSteps DEF ModemStep
<1>5. ASSUME NEW shape \in Shapes \ {"numberless"},
             \/ \E id \in CallId : OfferCall(id, shape)
             \/ \E state \in RegReports, kind \in {"regStatus", "regInfo"} :
                  RegistrationChanges(kind, state, shape)
             \/ \E kind \in {"imsRegInfo", "logged", "unhandled"} : SendOther(kind, shape)
      PROVE  ModemStep
  BY <1>5 DEF ModemStep
<1> QED BY <1>1, <1>2, <1>3, <1>4, <1>5 DEF Next, ModemTakesAllow

LEMMA OfferShape ==
  ASSUME TypeOK, NEW id \in CallId, NEW shape \in Shapes \ {"numberless"}, OfferCall(id, shape)
  PROVE  /\ offers + 1 \in 1 .. MaxOffers /\ offers' = offers + 1 /\ offers \in Nat
         /\ modem[id] = Absent
         /\ modem' = [modem EXCEPT ![id] = "offered"]
         /\ offer' = [offer EXCEPT ![id] = offers + 1]
         /\ \E m \in Indication :
              Send(m) /\ IsOffer(m) /\ m.id = id /\ m.seq = offers + 1 /\ m.shape = shape
         /\ unheard' = IF shape = "whole" THEN unheard \ {id} ELSE unheard \cup {id}
         /\ UNCHANGED <<allows, modemReg, damaged>>
<1> DEFINE m == [kind |-> "incomingCall", id |-> id, seq |-> offers + 1, shape |-> shape]
<1>1. offers + 1 \in 1 .. MaxOffers /\ offers' = offers + 1 /\ offers \in Nat
  BY BoundAssumption DEF OfferCall, TypeOK
<1>2. m \in Indication /\ Send(m)
  BY <1>1, MessagesTyped DEF OfferCall
<1>3. IsOffer(m) /\ m.id = id /\ m.seq = offers + 1 /\ m.shape = shape
  BY DEF IsOffer
<1> HIDE DEF m
<1> QED BY <1>1, <1>2, <1>3 DEF OfferCall

LEMMA RegistrationShape ==
  ASSUME TypeOK, NEW kind \in {"regStatus", "regInfo"}, NEW state \in RegReports,
         NEW shape \in Shapes \ {"numberless"}, RegistrationChanges(kind, state, shape)
  PROVE  /\ \E m \in Indication :
              Send(m) /\ m.kind = kind /\ IsReg(m) /\ m.state = state /\ m.shape = shape
         /\ modemReg' = state /\ state \in RegState
         /\ damaged' = IF shape = "whole" THEN damaged \ {"reg"} ELSE damaged \cup {"reg"}
         /\ UNCHANGED <<allows, modem, offer, offers, unheard>>
<1> DEFINE m == [kind |-> kind, state |-> state, shape |-> shape]
<1>1. state \in RegState
  BY RegAssumption
<1>2. m \in Indication
  BY <1>1, MessagesTyped DEF RegistrationChanges
<1>3. m.kind = kind /\ IsReg(m) /\ m.state = state /\ m.shape = shape
  BY DEF IsReg
<1>4. Send(m)
  BY DEF RegistrationChanges
<1> HIDE DEF m
<1> QED BY <1>1, <1>2, <1>3, <1>4 DEF RegistrationChanges

LEMMA OtherShape ==
  ASSUME TypeOK, NEW kind \in {"imsRegInfo", "logged", "unhandled"},
         NEW shape \in Shapes \ {"numberless"}, SendOther(kind, shape)
  PROVE  /\ \E m \in Indication : Send(m) /\ m.kind = kind
         /\ UNCHANGED <<allows, modem, modemReg, offer, offers, damaged, unheard>>
<1> DEFINE m == [kind |-> kind, shape |-> shape]
<1>1. m \in Indication
  BY MessagesTyped
<1>2. m.kind = kind /\ Send(m)
  BY DEF SendOther
<1> HIDE DEF m
<1> QED BY <1>1, <1>2 DEF SendOther, modemVars

(***************************************************************************)
(* The steps of the plugin.                                                *)
(***************************************************************************)
(* What HandleCallInfo does to the receiver's state.                       *)
CallInfoDone(m) ==
  /\ m.kind = "callInfo"
  /\ UNCHANGED <<reg, allows, unheard>>
  /\ \/ ~Effective(m) /\ UNCHANGED <<seen, ending, broken>>
     \/ broken' = "null_number" /\ UNCHANGED <<seen, ending>>
     \/ /\ Effective(m) /\ m.state = "disconnected"
        /\ ending' = m.id /\ UNCHANGED <<seen, broken>>
     \/ /\ Effective(m) /\ m.state \in Shown
        /\ seen' = [seen EXCEPT ![m.id] = m.state] /\ UNCHANGED <<ending, broken>>

LEMMA CallInfoShape ==
  ASSUME NEW m \in Indication, HandleCallInfo(m)
  PROVE  CallInfoDone(m) /\ m.id \in CallId
<1>1. m.kind = "callInfo" /\ m.id \in CallId /\ m.state \in CallReport
      /\ UNCHANGED <<reg, allows, unheard>>
  BY MessageFacts DEF HandleCallInfo
<1>2. CASE ~Effective(m)
  BY <1>1, <1>2 DEF HandleCallInfo, CallInfoDone, Effective
<1>3. CASE Effective(m) /\ m.state = "disconnected"
  BY <1>1, <1>3 DEF HandleCallInfo, CallInfoDone, Effective, Calls!Ending
<1>4. CASE Effective(m) /\ m.state # "disconnected"
  <2>1. m.state \in Shown
    BY <1>1, <1>4 DEF Effective, CallReport
  <2> QED BY <1>1, <1>4, <2>1 DEF HandleCallInfo, CallInfoDone, Effective, Calls!Changed
<1> QED BY <1>2, <1>3, <1>4, <1>1

LEMMA HandleTyped ==
  ASSUME TypeOK, NEW m \in Indication, Handle(m), ending = Nobody, broken = "no"
  PROVE  /\ seen' \in [CallId -> Shown \cup {Absent}]
         /\ ending' \in CallId \cup {Nobody}
         /\ reg' \in RegState
         /\ allows' \in Seq(Allow)
         /\ broken' \in {"no", "null_number", "null_report", "read_past_end"}
         /\ unheard' \subseteq CallId
<1> DEFINE Typed == /\ seen' \in [CallId -> Shown \cup {Absent}]
                    /\ ending' \in CallId \cup {Nobody}
                    /\ reg' \in RegState
                    /\ allows' \in Seq(Allow)
                    /\ broken' \in {"no", "null_number", "null_report", "read_past_end"}
                    /\ unheard' \subseteq CallId
<1>1. SUFFICES Typed
  OBVIOUS
<1>2. /\ seen \in [CallId -> Shown \cup {Absent}] /\ ending \in CallId \cup {Nobody}
      /\ reg \in RegState /\ allows \in Seq(Allow) /\ unheard \subseteq CallId
      /\ broken \in {"no", "null_number", "null_report", "read_past_end"}
  BY DEF TypeOK
<1>3. CASE HandleIncomingCall(m)
  <2>1. m.id \in CallId /\ [id |-> m.id, seq |-> m.seq] \in Allow
    BY <1>3, MessageFacts DEF HandleIncomingCall, IsOffer, Allow
  <2>2. AllowCall(m) => allows' \in Seq(Allow)
    BY <2>1, AllowsShape DEF AllowCall
  <2>3. allows' \in Seq(Allow) /\ unheard' \subseteq CallId
    BY <1>2, <1>3, <2>1, <2>2 DEF HandleIncomingCall
  <2> QED BY <1>2, <1>3, <2>3 DEF HandleIncomingCall
<1>4. CASE HandleCallInfo(m)
  <2>1. CallInfoDone(m) /\ m.id \in CallId
    BY <1>4, CallInfoShape
  <2> QED BY <1>2, <2>1 DEF CallInfoDone
<1>5. CASE HandleRegStatus(m)
  <2>1. m.state \in RegState
    BY <1>5, MessageFacts DEF HandleRegStatus, IsReg
  <2> QED BY <1>2, <1>5, <2>1 DEF HandleRegStatus
<1>6. CASE HandleRegInfo(m)
  <2>1. m.state \in RegState
    BY <1>6, MessageFacts DEF HandleRegInfo, IsReg
  <2> QED BY <1>2, <1>6, <2>1 DEF HandleRegInfo, RegState
<1>7. CASE HandleImsRegInfo(m)
  BY <1>2, <1>7 DEF HandleImsRegInfo
<1>8. CASE HandleLogged(m)
  BY <1>2, <1>8 DEF HandleLogged
<1> QED BY <1>3, <1>4, <1>5, <1>6, <1>7, <1>8 DEF Handle

(***************************************************************************)
(* Type correctness.                                                       *)
(***************************************************************************)
LEMMA InitTyped == Init => TypeOK
<1>1. 0 \in 0 .. MaxOffers
  BY BoundAssumption
<1>2. <<>> \in Seq(Indication) /\ <<>> \in Seq(Allow)
  OBVIOUS
<1> HIDE DEF TypeOK
<1> QED BY <1>1, <1>2 DEF Init, TypeOK, Calls!Init, RegState

LEMMA ModemTyped ==
  ASSUME TypeOK, ModemStep
  PROVE  TypeOK'
<1>1. ASSUME NEW id \in CallId, NEW shape \in Shapes \ {"numberless"}, OfferCall(id, shape)
      PROVE  TypeOK'
  <2>1. PICK m \in Indication : Send(m)
    BY <1>1, OfferShape
  <2>2. inbox' \in Seq(Indication) /\ UNCHANGED <<seen, ending, reg, status, broken>>
    BY <2>1, SendShape
  <2>3. offers' \in 0 .. MaxOffers /\ offer' \in [CallId -> 0 .. MaxOffers]
    <3>1. offers + 1 \in 1 .. MaxOffers /\ offers' = offers + 1
          /\ offer' = [offer EXCEPT ![id] = offers + 1]
      BY <1>1, OfferShape
    <3>2. offers + 1 \in 0 .. MaxOffers
      BY <3>1, BoundAssumption
    <3> QED BY <3>1, <3>2 DEF TypeOK
  <2>4. modem' \in [CallId -> Shown \cup {Absent, "offered", "unreported"}]
    <3>1. modem' = [modem EXCEPT ![id] = "offered"]
      BY <1>1 DEF OfferCall
    <3>2. modem \in [CallId -> Shown \cup {Absent, "offered", "unreported"}]
      BY DEF TypeOK
    <3> QED BY <3>1, <3>2
  <2>5. UNCHANGED <<allows, modemReg, damaged>>
        /\ unheard' \in {unheard \ {id}, unheard \cup {id}}
    BY <1>1, OfferShape
  <2>6. unheard' \subseteq CallId
    BY <2>5 DEF TypeOK
  <2> QED BY <2>2, <2>3, <2>4, <2>5, <2>6 DEF TypeOK
<1>2. ASSUME NEW id \in CallId, NEW state \in CallReport, NEW new \in CallState,
             NEW shape \in Shapes, CallReported(id, state, new, shape)
      PROVE  TypeOK'
  <2>1. Report(id, state, shape)
    BY <1>2 DEF CallReported
  <2>2. PICK m \in Indication : Send(m)
    BY <2>1, ReportShape
  <2>3. inbox' \in Seq(Indication) /\ UNCHANGED <<seen, ending, reg, status, broken>>
    BY <2>2, SendShape
  <2>4. damaged' \subseteq CallId \cup {"reg"}
    BY <2>1, ReportShape
  <2>5. modem' \in [CallId -> Shown \cup {Absent, "offered", "unreported"}]
    BY <1>2 DEF CallReported, CallState, TypeOK
  <2>6. allows' \in Seq(Allow)
    BY <1>2, AllowsShape DEF CallReported, TypeOK
  <2> QED BY <1>2, <2>3, <2>4, <2>5, <2>6 DEF TypeOK, CallReported
<1>3. ASSUME AllowIgnored
      PROVE  TypeOK'
  <2>1. allows' \in Seq(Allow)
    BY <1>3, AllowsShape DEF AllowIgnored
  <2> QED BY <1>3, <2>1 DEF AllowIgnored, modemVars, TypeOK
<1>4. ASSUME NEW state \in RegReports, NEW kind \in {"regStatus", "regInfo"},
             NEW shape \in Shapes \ {"numberless"}, RegistrationChanges(kind, state, shape)
      PROVE  TypeOK'
  <2>1. PICK m \in Indication : Send(m)
    BY <1>4, RegistrationShape
  <2>2. inbox' \in Seq(Indication) /\ UNCHANGED <<seen, ending, reg, status, broken>>
    BY <2>1, SendShape
  <2>3. damaged' \in {damaged \ {"reg"}, damaged \cup {"reg"}}
    BY <1>4, RegistrationShape
  <2>4. modemReg' \in RegState /\ UNCHANGED <<allows, modem, offer, offers, unheard>>
    BY <1>4, RegistrationShape
  <2>5. damaged' \subseteq CallId \cup {"reg"}
    BY <2>3 DEF TypeOK
  <2> QED BY <2>2, <2>4, <2>5 DEF TypeOK
<1>5. ASSUME NEW kind \in {"imsRegInfo", "logged", "unhandled"},
             NEW shape \in Shapes \ {"numberless"}, SendOther(kind, shape)
      PROVE  TypeOK'
  <2>1. PICK m \in Indication : Send(m)
    BY <1>5, OtherShape
  <2>2. inbox' \in Seq(Indication) /\ UNCHANGED <<seen, ending, reg, status, broken>>
    BY <2>1, SendShape
  <2>3. UNCHANGED <<allows, modem, modemReg, offer, offers, damaged, unheard>>
    BY <1>5, OtherShape
  <2> QED BY <2>2, <2>3 DEF TypeOK
<1> QED BY <1>1, <1>2, <1>3, <1>4, <1>5 DEF ModemStep

LEMMA PluginTyped ==
  ASSUME TypeOK, Plugin
  PROVE  TypeOK'
<1>1. ASSUME inbox # <<>>, TakeIndication, Handle(Head(inbox)), status' \in {"ok", "failed"}
      PROVE  TypeOK'
  <2> DEFINE m == Head(inbox)
  <2>1. /\ inbox' \in Seq(Indication) /\ m \in Indication /\ broken = "no" /\ ending = Nobody
        /\ modem' = modem /\ modemReg' = modemReg /\ offer' = offer /\ offers' = offers
        /\ damaged' = damaged
    BY <1>1, TakeShape
  <2>2. Handle(m)
    BY <1>1
  <2> HIDE DEF m
  <2>3. /\ seen' \in [CallId -> Shown \cup {Absent}]
        /\ ending' \in CallId \cup {Nobody}
        /\ reg' \in RegState
        /\ allows' \in Seq(Allow)
        /\ broken' \in {"no", "null_number", "null_report", "read_past_end"}
        /\ unheard' \subseteq CallId
    BY <2>1, <2>2, HandleTyped
  <2> QED BY <1>1, <2>1, <2>3 DEF TypeOK
<1>2. CASE Dispatch
  BY <1>1, <1>2 DEF Dispatch
<1>3. CASE Reject
  <2>1. /\ inbox' \in Seq(Indication)
        /\ modem' = modem /\ modemReg' = modemReg /\ offer' = offer /\ offers' = offers
        /\ damaged' = damaged
    BY <1>3, TakeShape DEF Reject
  <2> QED BY <1>3, <2>1 DEF Reject, TypeOK
<1>4. CASE DisconnectHandled
  BY <1>4 DEF DisconnectHandled, Calls!Ended, modemVars, TypeOK
<1> QED BY <1>2, <1>3, <1>4 DEF Plugin

LEMMA StutterTyped == TypeOK /\ UNCHANGED vars => TypeOK'
  BY DEF vars, modemVars, TypeOK

(* Every variable has its type, whatever the messages lack: what the       *)
(* handlers give to the receivers is a state these know.                   *)
THEOREM TypeCorrect == Spec => []TypeOK
<1>1. TypeOK /\ [Next]_vars => TypeOK'
  BY NextSteps, ModemTyped, PluginTyped, StutterTyped
<1> QED BY <1>1, InitTyped, PTL DEF Spec

(***************************************************************************)
(* Offers and their answers.                                               *)
(***************************************************************************)
(* What waits in inbox and in allows is what waited before, from the a-th  *)
(* and the b-th on.                                                        *)
OffersFrom(a) ==
  \A i \in 1 .. Len(inbox') : IsOffer(inbox'[i]) =>
    i + a \in 1 .. Len(inbox) /\ inbox'[i] = inbox[i + a]

AllowsFrom(b) ==
  \A i \in 1 .. Len(allows') : i + b \in 1 .. Len(allows) /\ allows'[i] = allows[i + b]

LEMMA OffersKept ==
  ASSUME TypeOK, OffersSound, offer' = offer, offers' = offers,
         NEW a \in Nat, NEW b \in Nat, OffersFrom(a), AllowsFrom(b)
  PROVE  OffersSound'
<1>2. \A i \in 1 .. Len(inbox') : IsOffer(inbox'[i]) => OfferedAs(inbox'[i], offer', offers')
  BY DEF OffersSound, OffersFrom, Offered
<1>3. \A i \in 1 .. Len(allows') : OfferedAs(allows'[i], offer', offers')
  BY DEF OffersSound, AllowsFrom, Offered
<1>4. ASSUME NEW i \in 1 .. Len(inbox'), NEW j \in 1 .. Len(inbox'), i # j,
             IsOffer(inbox'[i]), IsOffer(inbox'[j])
      PROVE  inbox'[i].seq # inbox'[j].seq
  <2>1. i + a # j + a
    BY <1>4
  <2> QED BY <1>4, <2>1 DEF OffersSound, OffersFrom
<1>5. ASSUME NEW i \in 1 .. Len(allows'), NEW j \in 1 .. Len(allows'), i # j
      PROVE  allows'[i].seq # allows'[j].seq
  <2>1. i + b # j + b
    BY <1>5
  <2> QED BY <1>5, <2>1 DEF OffersSound, AllowsFrom
<1>6. ASSUME NEW i \in 1 .. Len(inbox'), NEW j \in 1 .. Len(allows'), IsOffer(inbox'[i])
      PROVE  inbox'[i].seq # allows'[j].seq
  BY <1>6 DEF OffersSound, OffersFrom, AllowsFrom
<1>7. \A id \in CallId : offer'[id] <= offers'
  BY DEF OffersSound
<1> QED BY <1>2, <1>3, <1>4, <1>5, <1>6, <1>7 DEF OffersSound, Offered

(* A new offer has a number of its own. *)
LEMMA OfferSound ==
  ASSUME TypeOK, OffersSound, NEW id \in CallId, NEW shape \in Shapes \ {"numberless"},
         OfferCall(id, shape)
  PROVE  OffersSound'
<1>1. PICK m \in Indication : Send(m) /\ IsOffer(m) /\ m.id = id /\ m.seq = offers + 1
  BY OfferShape
<1>2. Sent(m)
  BY <1>1, SendShape
<1>3. offers \in Nat /\ offers' = offers + 1 /\ offer' = [offer EXCEPT ![id] = offers + 1]
      /\ allows' = allows
  BY OfferShape
<1>4. /\ \A other \in CallId : offer[other] \in Nat /\ offer[other] <= offers
      /\ offer'[id] = offers + 1
      /\ \A other \in CallId \ {id} : offer'[other] = offer[other]
  BY <1>3 DEF TypeOK, OffersSound
<1>5. \A other \in CallId : offer'[other] <= offers'
  BY <1>3, <1>4
<1>6. ASSUME NEW x, Offered(x), x.seq \in Nat, x.id \in CallId
      PROVE  OfferedAs(x, offer', offers') /\ x.seq < offers + 1
  BY <1>3, <1>4, <1>6 DEF Offered, OfferedAs
<1>7. OfferedAs(m, offer', offers')
  BY <1>1, <1>3, <1>4 DEF Offered, OfferedAs
<1>8. /\ \A i \in 1 .. Len(inbox) : IsOffer(inbox[i]) =>
           inbox[i].seq \in Nat /\ inbox[i].id \in CallId
      /\ \A i \in 1 .. Len(allows) : allows[i].seq \in Nat /\ allows[i].id \in CallId
  <2>1. \A i \in 1 .. Len(inbox) : inbox[i] \in Indication
    BY DEF TypeOK
  <2> QED BY <2>1, MessageFacts, AllowsShape DEF Allow
<1>9. \A i \in 1 .. Len(inbox') :
        \/ i \in 1 .. Len(inbox) /\ inbox'[i] = inbox[i]
        \/ i = Len(inbox) + 1 /\ inbox'[i] = m
  BY <1>2 DEF Sent
<1>10. \A i \in 1 .. Len(inbox') : IsOffer(inbox'[i]) => OfferedAs(inbox'[i], offer', offers')
  <2>1. SUFFICES ASSUME NEW i \in 1 .. Len(inbox'), IsOffer(inbox'[i])
                 PROVE  OfferedAs(inbox'[i], offer', offers')
    OBVIOUS
  <2>2. CASE i \in 1 .. Len(inbox) /\ inbox'[i] = inbox[i]
    <3>1. Offered(inbox[i]) /\ inbox[i].seq \in Nat /\ inbox[i].id \in CallId
      BY <1>8, <2>1, <2>2 DEF OffersSound
    <3> DEFINE x == inbox[i]
    <3>2. x.seq <= offers /\ x.seq <= offer[x.id] /\ \A o \in CallId : offer[o] = x.seq => o = x.id
      BY <3>1 DEF Offered, OfferedAs
    <3> QED BY <1>3, <1>4, <2>2, <3>1, <3>2 DEF Offered, OfferedAs
  <2>3. CASE i = Len(inbox) + 1 /\ inbox'[i] = m
    BY <1>1, <1>3, <1>4, <2>3 DEF Offered, OfferedAs
  <2> QED BY <1>9, <2>2, <2>3
<1>11. \A i \in 1 .. Len(allows') : OfferedAs(allows'[i], offer', offers')
  <2>1. SUFFICES ASSUME NEW i \in 1 .. Len(allows)
                 PROVE  OfferedAs(allows'[i], offer', offers')
    BY <1>3
  <2>2. Offered(allows[i]) /\ allows[i].seq \in Nat /\ allows[i].id \in CallId
    BY <1>8 DEF OffersSound
  <2> QED BY <1>3, <1>4, <2>2 DEF Offered, OfferedAs
<1>12. /\ \A i \in 1 .. Len(inbox) : IsOffer(inbox[i]) => inbox[i].seq <= offers /\ inbox[i].seq \in Nat
       /\ \A i \in 1 .. Len(allows) : allows[i].seq <= offers /\ allows[i].seq \in Nat
  BY <1>8 DEF OffersSound, Offered, OfferedAs
<1>13. ASSUME NEW i \in 1 .. Len(inbox'), NEW j \in 1 .. Len(inbox'), i # j,
              IsOffer(inbox'[i]), IsOffer(inbox'[j])
       PROVE  inbox'[i].seq # inbox'[j].seq
  BY <1>1, <1>3, <1>9, <1>12, <1>13 DEF OffersSound
<1>14. ASSUME NEW i \in 1 .. Len(inbox'), NEW j \in 1 .. Len(allows'), IsOffer(inbox'[i])
       PROVE  inbox'[i].seq # allows'[j].seq
  BY <1>1, <1>3, <1>9, <1>12, <1>14 DEF OffersSound
<1>15. \A i, j \in 1 .. Len(allows') : i # j => allows'[i].seq # allows'[j].seq
  BY <1>3 DEF OffersSound
<1> QED BY <1>5, <1>10, <1>11, <1>13, <1>14, <1>15 DEF OffersSound, Offered

(* The answer to an offer takes its place. *)
LEMMA AnswerSound ==
  ASSUME TypeOK, OffersSound, Took, IsOffer(inbox[1]), AllowCall(inbox[1]),
         offer' = offer, offers' = offers
  PROVE  OffersSound'
<1> DEFINE m == inbox[1]
           a == [id |-> m.id, seq |-> m.seq]
<1>1. m \in Indication /\ 1 \in 1 .. Len(inbox)
  BY DEF TypeOK, Took
<1>2. a \in Allow /\ a.id = m.id /\ a.seq = m.seq
  BY <1>1, MessageFacts DEF Allow
<1>3. allows' = Append(allows, a)
  BY DEF AllowCall
<1>4. IsOffer(m) /\ Offered(m)
  BY <1>1 DEF OffersSound
<1> HIDE DEF m, a
<1>5. /\ Len(allows) \in Nat /\ Len(allows') = Len(allows) + 1
      /\ \A i \in 1 .. Len(allows) : allows'[i] = allows[i]
      /\ allows'[Len(allows) + 1] = a
  BY <1>2, <1>3, AllowsShape
<1>6. \A i \in 1 .. Len(allows') :
        \/ i \in 1 .. Len(allows) /\ allows'[i] = allows[i]
        \/ i = Len(allows) + 1 /\ allows'[i] = a
  BY <1>5
<1>7. OfferedAs(a, offer, offers)
  BY <1>2, <1>4 DEF Offered, OfferedAs
<1>8. \A i \in 1 .. Len(inbox') : IsOffer(inbox'[i]) => OfferedAs(inbox'[i], offer', offers')
  BY DEF Took, OffersSound, Offered
<1>9. \A i \in 1 .. Len(allows') : OfferedAs(allows'[i], offer', offers')
  BY <1>6, <1>7 DEF OffersSound, Offered
<1>10. \A i \in 1 .. Len(inbox) : i # 1 /\ IsOffer(inbox[i]) => inbox[i].seq # a.seq
  BY <1>1, <1>2, <1>4 DEF OffersSound, m
<1>11. \A i \in 1 .. Len(allows) : allows[i].seq # a.seq
  BY <1>1, <1>2, <1>4 DEF OffersSound, m
<1>12. \A i \in 1 .. Len(inbox') : IsOffer(inbox'[i]) => inbox'[i].seq # a.seq
  <2>1. SUFFICES ASSUME NEW i \in 1 .. Len(inbox'), IsOffer(inbox'[i])
                 PROVE  inbox'[i].seq # a.seq
    OBVIOUS
  <2>2. i + 1 \in 1 .. Len(inbox) /\ i + 1 # 1 /\ inbox'[i] = inbox[i + 1]
    BY DEF Took
  <2> QED BY <1>10, <2>1, <2>2
<1>13. \A i, j \in 1 .. Len(inbox') :
         i # j /\ IsOffer(inbox'[i]) /\ IsOffer(inbox'[j]) => inbox'[i].seq # inbox'[j].seq
  <2>1. SUFFICES ASSUME NEW i \in 1 .. Len(inbox'), NEW j \in 1 .. Len(inbox'), i # j,
                        IsOffer(inbox'[i]), IsOffer(inbox'[j])
                 PROVE  inbox'[i].seq # inbox'[j].seq
    OBVIOUS
  <2>2. /\ i + 1 \in 1 .. Len(inbox) /\ inbox'[i] = inbox[i + 1]
        /\ j + 1 \in 1 .. Len(inbox) /\ inbox'[j] = inbox[j + 1]
        /\ i + 1 # j + 1
    BY <2>1 DEF Took
  <2> QED BY <2>1, <2>2 DEF OffersSound
<1>14. \A i, j \in 1 .. Len(allows') : i # j => allows'[i].seq # allows'[j].seq
  BY <1>6, <1>11 DEF OffersSound
<1>15. \A i \in 1 .. Len(inbox'), j \in 1 .. Len(allows') :
         IsOffer(inbox'[i]) => inbox'[i].seq # allows'[j].seq
  BY <1>6, <1>12 DEF Took, OffersSound
<1>16. \A id \in CallId : offer'[id] <= offers'
  BY DEF OffersSound
<1> QED BY <1>8, <1>9, <1>13, <1>14, <1>15, <1>16 DEF OffersSound, Offered

LEMMA FromFacts ==
  ASSUME TypeOK
  PROVE  /\ inbox' = inbox => OffersFrom(0)
         /\ Took => OffersFrom(1)
         /\ \A m \in Indication : Sent(m) /\ ~IsOffer(m) => OffersFrom(0)
         /\ allows' = allows => AllowsFrom(0)
         /\ allows # <<>> /\ allows' = Tail(allows) => AllowsFrom(1)
<1>1. Len(inbox) \in Nat /\ Len(allows) \in Nat
  BY AllowsShape DEF TypeOK
<1>2. inbox' = inbox => OffersFrom(0)
  BY <1>1 DEF OffersFrom
<1>3. Took => OffersFrom(1)
  BY DEF Took, OffersFrom
<1>4. ASSUME NEW m \in Indication, Sent(m), ~IsOffer(m)
      PROVE  OffersFrom(0)
  <2>1. \A i \in 1 .. Len(inbox') :
          \/ i + 0 \in 1 .. Len(inbox) /\ inbox'[i] = inbox[i + 0]
          \/ inbox'[i] = m
    BY <1>4 DEF Sent
  <2> QED BY <1>4, <2>1 DEF OffersFrom
<1>5. allows' = allows => AllowsFrom(0)
  BY <1>1 DEF AllowsFrom
<1>6. allows # <<>> /\ allows' = Tail(allows) => AllowsFrom(1)
  BY AllowsShape DEF AllowsFrom
<1> QED BY <1>2, <1>3, <1>4, <1>5, <1>6

LEMMA OffersSoundNext ==
  ASSUME TypeOK, OffersSound, Next
  PROVE  OffersSound'
<1>1. ASSUME NEW id \in CallId, NEW shape \in Shapes \ {"numberless"}, OfferCall(id, shape)
      PROVE  OffersSound'
  BY <1>1, OfferSound
<1>2. ASSUME NEW id \in CallId, NEW state \in CallReport, NEW new \in CallState,
             NEW shape \in Shapes, CallReported(id, state, new, shape)
      PROVE  OffersSound'
  <2>1. PICK m \in Indication : Send(m) /\ m.kind = "callInfo"
    BY <1>2, ReportShape DEF CallReported
  <2>2. OffersFrom(0)
    BY <2>1, SendShape, FromFacts DEF IsOffer
  <2>3. offer' = offer /\ offers' = offers /\ (AllowsFrom(0) \/ AllowsFrom(1))
    BY <1>2, FromFacts DEF CallReported
  <2> QED BY <2>2, <2>3, OffersKept
<1>3. ASSUME AllowIgnored
      PROVE  OffersSound'
  <2>1. OffersFrom(0) /\ AllowsFrom(1) /\ offer' = offer /\ offers' = offers
    BY <1>3, FromFacts DEF AllowIgnored, modemVars
  <2> QED BY <2>1, OffersKept
<1>4. ASSUME NEW state \in RegReports, NEW kind \in {"regStatus", "regInfo"},
             NEW shape \in Shapes \ {"numberless"}, RegistrationChanges(kind, state, shape)
      PROVE  OffersSound'
  <2>1. PICK m \in Indication : Send(m) /\ m.kind = kind
    BY <1>4, RegistrationShape
  <2>2. OffersFrom(0)
    BY <2>1, SendShape, FromFacts DEF IsOffer
  <2>3. offer' = offer /\ offers' = offers /\ AllowsFrom(0)
    BY <1>4, RegistrationShape, FromFacts
  <2> QED BY <2>2, <2>3, OffersKept
<1>5. ASSUME NEW kind \in {"imsRegInfo", "logged", "unhandled"},
             NEW shape \in Shapes \ {"numberless"}, SendOther(kind, shape)
      PROVE  OffersSound'
  <2>1. PICK m \in Indication : Send(m) /\ m.kind = kind
    BY <1>5, OtherShape
  <2>2. OffersFrom(0)
    BY <2>1, SendShape, FromFacts DEF IsOffer
  <2>3. offer' = offer /\ offers' = offers /\ AllowsFrom(0)
    BY <1>5, OtherShape, FromFacts
  <2> QED BY <2>2, <2>3, OffersKept
<1>6. CASE Dispatch
  <2>1. Took /\ offer' = offer /\ offers' = offers /\ Head(inbox) = inbox[1]
    BY <1>6, TakeShape DEF Dispatch, Took
  <2>2. CASE allows' = allows
    BY <2>1, <2>2, FromFacts, OffersKept
  <2>3. CASE allows' # allows
    <3>1. HandleIncomingCall(inbox[1]) /\ IsOffer(inbox[1]) /\ AllowCall(inbox[1])
      BY <1>6, <2>1, <2>3 DEF Dispatch, Handle, HandleIncomingCall, HandleCallInfo,
           HandleRegStatus, HandleRegInfo, HandleImsRegInfo, HandleLogged, IsOffer
    <3> QED BY <2>1, <3>1, AnswerSound
  <2> QED BY <2>2, <2>3
<1>7. CASE Reject
  <2>1. Took /\ offer' = offer /\ offers' = offers /\ allows' = allows
    BY <1>7, TakeShape DEF Reject
  <2> QED BY <2>1, FromFacts, OffersKept
<1>8. CASE DisconnectHandled
  BY <1>8, FromFacts, OffersKept DEF DisconnectHandled, modemVars
<1> QED BY <1>1, <1>2, <1>3, <1>4, <1>5, <1>6, <1>7, <1>8, NextSteps DEF ModemStep, Plugin

(* Each setCallIndication allows a call that was offered, under the        *)
(* sequence number of that offer, and no offer is allowed twice.           *)
THEOREM AllowsMatchAlways == Spec => []AllowsMatchOffers
<1>1. Init => OffersSound
  <2>1. SUFFICES ASSUME Init PROVE OffersSound
    OBVIOUS
  <2>2. Len(inbox) = 0 /\ Len(allows) = 0 /\ offers = 0 /\ \A id \in CallId : offer[id] = 0
    BY <2>1 DEF Init
  <2> QED BY <2>2 DEF OffersSound
<1>2. OffersSound /\ UNCHANGED vars => OffersSound'
  BY DEF OffersSound, Offered, OfferedAs, vars, modemVars
<1>3. TypeOK /\ OffersSound /\ [Next]_vars => OffersSound'
  BY <1>2, OffersSoundNext
<1>4. TypeOK /\ OffersSound => AllowsMatchOffers
  <2>1. SUFFICES ASSUME TypeOK, OffersSound PROVE AllowsMatchOffers
    OBVIOUS
  <2>2. DOMAIN allows = 1 .. Len(allows)
    BY <2>1 DEF TypeOK
  <2> QED BY <2>1, <2>2 DEF OffersSound, Offered, OfferedAs, AllowsMatchOffers
<1> QED BY <1>1, <1>3, <1>4, TypeCorrect, PTL DEF Spec

(***************************************************************************)
(* No offer is forgotten.                                                  *)
(***************************************************************************)
OfferWaits(id) == \E i \in 1 .. Len(inbox) : OfferOf(inbox[i], id, offer[id])

AnswerWaits(id) == \E i \in 1 .. Len(allows) : allows[i].id = id /\ allows[i].seq = offer[id]

LEMMA SentKeepsOffers ==
  ASSUME NEW m, Sent(m), NEW id, offer'[id] = offer[id], OfferWaits(id)
  PROVE  OfferWaits(id)'
<1>1. \A i \in 1 .. Len(inbox) : i \in 1 .. Len(inbox') /\ inbox'[i] = inbox[i]
  BY DEF Sent
<1>2. PICK i \in 1 .. Len(inbox) : OfferOf(inbox[i], id, offer[id])
  BY DEF OfferWaits
<1>3. i \in 1 .. Len(inbox') /\ OfferOf(inbox'[i], id, offer'[id])
  BY <1>1, <1>2
<1> QED BY <1>3 DEF OfferWaits, OfferOf, IsOffer

LEMMA TookKeepsOffers ==
  ASSUME Took, NEW id, offer'[id] = offer[id], OfferWaits(id)
  PROVE  OfferOf(inbox[1], id, offer[id]) \/ OfferWaits(id)'
<1>1. PICK i \in 1 .. Len(inbox) : OfferOf(inbox[i], id, offer[id])
  BY DEF OfferWaits
<1>2. CASE i # 1
  <2>1. i - 1 \in 1 .. Len(inbox') /\ (i - 1) + 1 = i
    BY <1>2 DEF Took
  <2>2. inbox'[i - 1] = inbox[i]
    BY <2>1 DEF Took
  <2>3. OfferOf(inbox'[i - 1], id, offer'[id])
    BY <1>1, <2>2
  <2> QED BY <2>1, <2>3 DEF OfferWaits, OfferOf, IsOffer
<1> QED BY <1>1, <1>2

LEMMA TailKeepsAnswers ==
  ASSUME TypeOK, allows # <<>>, allows' = Tail(allows),
         NEW id, offer'[id] = offer[id], AnswerWaits(id)
  PROVE  \/ Head(allows).id = id /\ Head(allows).seq = offer[id]
         \/ AnswerWaits(id)'
<1>1. PICK i \in 1 .. Len(allows) : allows[i].id = id /\ allows[i].seq = offer[id]
  BY DEF AnswerWaits
<1>2. /\ Len(allows') = Len(allows) - 1 /\ Len(allows) \in Nat /\ Head(allows) = allows[1]
      /\ \A k \in 1 .. Len(allows') : allows'[k] = allows[k + 1]
  BY AllowsShape
<1>3. CASE i # 1
  <2>1. i - 1 \in 1 .. Len(allows') /\ (i - 1) + 1 = i
    BY <1>2, <1>3
  <2>2. allows'[i - 1] = allows[i]
    BY <1>2, <2>1
  <2> QED BY <1>1, <2>1, <2>2 DEF AnswerWaits
<1> QED BY <1>1, <1>2, <1>3

LEMMA OffersWayModem ==
  ASSUME TypeOK, OffersOnTheirWay, ModemStep, broken' = "no",
         NEW other \in CallId, modem'[other] = "offered"
  PROVE  other \in unheard' \/ OfferWaits(other)' \/ AnswerWaits(other)'
<1> DEFINE Goal == other \in unheard' \/ OfferWaits(other)' \/ AnswerWaits(other)'
<1>1. SUFFICES Goal
  OBVIOUS
<1>2. broken = "no" /\ modem[other] = "offered" =>
        other \in unheard \/ OfferWaits(other) \/ AnswerWaits(other)
  BY DEF OffersOnTheirWay, OfferWaits, AnswerWaits
<1>3. ASSUME NEW m \in Indication, Send(m), modem[other] = "offered",
             offer'[other] = offer[other], other \in unheard => other \in unheard',
             AnswerWaits(other) => AnswerWaits(other)'
      PROVE  Goal
  BY <1>2, <1>3, SendShape, SentKeepsOffers
<1>4. ASSUME allows' = allows, offer'[other] = offer[other]
      PROVE  AnswerWaits(other) => AnswerWaits(other)'
  BY <1>4 DEF AnswerWaits
<1>5. ASSUME NEW id \in CallId, NEW shape \in Shapes \ {"numberless"}, OfferCall(id, shape)
      PROVE  Goal
  <2>1. PICK m \in Indication :
          Send(m) /\ IsOffer(m) /\ m.id = id /\ m.seq = offers + 1 /\ m.shape = shape
    BY <1>5, OfferShape
  <2>2. /\ modem' = [modem EXCEPT ![id] = "offered"]
        /\ offer' = [offer EXCEPT ![id] = offers + 1]
        /\ allows' = allows
        /\ unheard' = IF shape = "whole" THEN unheard \ {id} ELSE unheard \cup {id}
    BY <1>5, OfferShape
  <2>3. CASE other = id /\ shape = "whole"
    <3>1. Len(inbox) + 1 \in 1 .. Len(inbox') /\ inbox'[Len(inbox) + 1] = m
      BY <2>1, SendShape DEF Sent
    <3>2. offer'[id] = offers + 1
      BY <2>2 DEF TypeOK
    <3>3. OfferOf(inbox'[Len(inbox) + 1], id, offer'[id])
      BY <2>1, <2>3, <3>1, <3>2 DEF OfferOf
    <3> QED BY <2>3, <3>1, <3>3 DEF OfferWaits, OfferOf, IsOffer
  <2>4. CASE other = id /\ shape # "whole"
    BY <2>2, <2>4
  <2>5. CASE other # id
    <3>1. modem[other] = "offered" /\ offer'[other] = offer[other]
      BY <2>2, <2>5 DEF TypeOK
    <3>2. other \in unheard => other \in unheard'
      BY <2>2, <2>5
    <3> QED BY <1>3, <1>4, <2>1, <2>2, <3>1, <3>2
  <2> QED BY <2>3, <2>4, <2>5
<1>6. ASSUME NEW id \in CallId, NEW state \in CallReport, NEW new \in CallState,
             NEW shape \in Shapes, CallReported(id, state, new, shape)
      PROVE  Goal
  <2>1. PICK m \in Indication : Send(m)
    BY <1>6, ReportShape DEF CallReported
  <2>2. new # "offered"
    BY StateAssumption DEF CallState
  <2>3. other # id /\ modem[other] = "offered" /\ offer' = offer /\ unheard' = unheard
    BY <1>6, <2>2 DEF CallReported, TypeOK
  <2>4. AnswerWaits(other) => AnswerWaits(other)'
    BY <1>4, <1>6, <2>3, TailKeepsAnswers DEF CallReported
  <2> QED BY <1>3, <2>1, <2>3, <2>4
<1>7. ASSUME AllowIgnored
      PROVE  Goal
  <2>1. /\ modem[other] = "offered" /\ offer'[other] = offer[other] /\ broken = "no"
        /\ inbox' = inbox /\ unheard' = unheard
    BY <1>7 DEF AllowIgnored, modemVars
  <2>2. OfferWaits(other) => OfferWaits(other)'
    BY <2>1 DEF OfferWaits, OfferOf, IsOffer
  <2>3. AnswerWaits(other) => AnswerWaits(other)'
    BY <1>7, <2>1, TailKeepsAnswers DEF AllowIgnored
  <2> QED BY <1>2, <2>1, <2>2, <2>3
<1>8. ASSUME NEW state \in RegReports, NEW kind \in {"regStatus", "regInfo"},
             NEW shape \in Shapes \ {"numberless"}, RegistrationChanges(kind, state, shape)
      PROVE  Goal
  <2>1. PICK m \in Indication : Send(m)
    BY <1>8, RegistrationShape
  <2>2. UNCHANGED <<allows, modem, offer, unheard>>
    BY <1>8, RegistrationShape
  <2> QED BY <1>3, <1>4, <2>1, <2>2
<1>9. ASSUME NEW kind \in {"imsRegInfo", "logged", "unhandled"},
             NEW shape \in Shapes \ {"numberless"}, SendOther(kind, shape)
      PROVE  Goal
  <2>1. PICK m \in Indication : Send(m)
    BY <1>9, OtherShape
  <2>2. UNCHANGED <<allows, modem, offer, unheard>>
    BY <1>9, OtherShape
  <2> QED BY <1>3, <1>4, <2>1, <2>2
<1> HIDE DEF Goal
<1> QED BY <1>5, <1>6, <1>7, <1>8, <1>9 DEF ModemStep

LEMMA OffersWayPlugin ==
  ASSUME TypeOK, OffersOnTheirWay, Plugin, broken' = "no",
         NEW other \in CallId, modem'[other] = "offered"
  PROVE  other \in unheard' \/ OfferWaits(other)' \/ AnswerWaits(other)'
<1> DEFINE Goal == other \in unheard' \/ OfferWaits(other)' \/ AnswerWaits(other)'
<1>1. SUFFICES Goal
  OBVIOUS
<1>2. broken = "no" /\ modem[other] = "offered" =>
        other \in unheard \/ OfferWaits(other) \/ AnswerWaits(other)
  BY DEF OffersOnTheirWay, OfferWaits, AnswerWaits
<1>3. ASSUME allows' = allows, offer'[other] = offer[other]
      PROVE  AnswerWaits(other) => AnswerWaits(other)'
  BY <1>3 DEF AnswerWaits
<1>4. CASE Dispatch
  <2> DEFINE m == inbox[1]
  <2>1. /\ Took /\ Head(inbox) = m /\ broken = "no" /\ modem[other] = "offered"
        /\ offer' = offer
    BY <1>4, TakeShape DEF Dispatch, Took
  <2>2. Handle(m) /\ m.shape # "untyped" /\ m \in Indication
    BY <1>4, <2>1, TakeShape DEF Dispatch
  <2>3. OfferWaits(other) => OfferOf(m, other, offer[other]) \/ OfferWaits(other)'
    BY <2>1, TookKeepsOffers
  <2> HIDE DEF m
  <2>4. CASE HandleIncomingCall(m) /\ m.shape = "whole" /\ AllowCall(m)
    <3> DEFINE a == [id |-> m.id, seq |-> m.seq]
    <3>1. a \in Allow /\ a.id = m.id /\ a.seq = m.seq /\ allows' = Append(allows, a)
      BY <2>2, <2>4, MessageFacts DEF HandleIncomingCall, IsOffer, Allow, AllowCall
    <3> HIDE DEF a
    <3>2. /\ Len(allows) \in Nat /\ Len(allows') = Len(allows) + 1
          /\ \A i \in 1 .. Len(allows) : allows'[i] = allows[i]
          /\ allows'[Len(allows) + 1] = a
      BY <3>1, AllowsShape
    <3>3. /\ Len(allows) + 1 \in 1 .. Len(allows')
          /\ \A i \in 1 .. Len(allows) : i \in 1 .. Len(allows')
      BY <3>2
    <3>4. AnswerWaits(other) => AnswerWaits(other)'
      BY <2>1, <3>2, <3>3 DEF AnswerWaits
    <3>5. OfferOf(m, other, offer[other]) => AnswerWaits(other)'
      BY <2>1, <3>1, <3>2, <3>3 DEF AnswerWaits, OfferOf
    <3>6. other \in unheard => other \in unheard' \/ AnswerWaits(other)'
          \/ OfferOf(m, other, offer[other]) \/ OfferWaits(other)'
      BY <2>2, <2>4, <3>2 DEF HandleIncomingCall, AllowCall
    <3> QED BY <1>2, <2>1, <2>3, <3>4, <3>5, <3>6
  <2>5. CASE ~(HandleIncomingCall(m) /\ m.shape = "whole" /\ AllowCall(m))
    <3>1. /\ allows' = allows
          /\ other \in unheard => other \in unheard'
          /\ OfferOf(m, other, offer[other]) => other \in unheard'
      BY <2>2, <2>5 DEF Handle, HandleIncomingCall, HandleCallInfo, HandleRegStatus,
           HandleRegInfo, HandleImsRegInfo, HandleLogged, OfferOf, IsOffer
    <3> QED BY <1>2, <1>3, <2>1, <2>3, <3>1
  <2> QED BY <2>4, <2>5
<1>5. CASE Reject
  <2>1. /\ Took /\ Head(inbox) = inbox[1] /\ broken = "no" /\ modem[other] = "offered"
        /\ offer' = offer /\ allows' = allows /\ unheard' = unheard
    BY <1>5, TakeShape DEF Reject, Took
  <2>2. ~OfferOf(inbox[1], other, offer[other])
    BY <1>5, <2>1 DEF Reject, OfferOf, IsOffer
  <2>3. OfferWaits(other) => OfferWaits(other)'
    BY <2>1, <2>2, TookKeepsOffers
  <2> QED BY <1>2, <1>3, <2>1, <2>3
<1>6. CASE DisconnectHandled
  <2>1. /\ inbox' = inbox /\ allows' = allows /\ unheard' = unheard /\ broken = "no"
        /\ modem' = modem /\ offer' = offer
    BY <1>6 DEF DisconnectHandled, modemVars
  <2>2. OfferWaits(other) => OfferWaits(other)'
    BY <2>1 DEF OfferWaits, OfferOf, IsOffer
  <2> QED BY <1>2, <1>3, <2>1, <2>2
<1> HIDE DEF Goal
<1> QED BY <1>4, <1>5, <1>6 DEF Plugin

LEMMA OffersOnTheirWayAlways == Spec => []OffersOnTheirWay
<1>1. Init => OffersOnTheirWay
  <2>1. ASSUME Init, NEW id \in CallId PROVE modem[id] # "offered"
    BY <2>1, StateAssumption DEF Init
  <2> QED BY <2>1 DEF OffersOnTheirWay
<1>2. TypeOK /\ OffersOnTheirWay /\ Next => OffersOnTheirWay'
  <2>1. SUFFICES ASSUME TypeOK, OffersOnTheirWay, Next, broken' = "no",
                        NEW id \in CallId, modem'[id] = "offered"
                 PROVE  id \in unheard' \/ OfferWaits(id)' \/ AnswerWaits(id)'
    BY DEF OffersOnTheirWay, OfferWaits, AnswerWaits
  <2> QED BY <2>1, NextSteps, OffersWayModem, OffersWayPlugin
<1>3. OffersOnTheirWay /\ UNCHANGED vars => OffersOnTheirWay'
  BY DEF OffersOnTheirWay, OfferOf, IsOffer, vars, modemVars
<1> QED BY <1>1, <1>2, <1>3, TypeCorrect, PTL DEF Spec

(* A call the modem still offers when nothing is on its way is one whose   *)
(* indication could not be read, or whose setCallIndication was refused.   *)
THEOREM NoOfferForgottenAlways == Spec => []NoOfferForgotten
<1>1. TypeOK /\ OffersOnTheirWay => NoOfferForgotten
  <2>1. SUFFICES ASSUME TypeOK, OffersOnTheirWay, inbox = <<>>, allows = <<>>, broken = "no",
                        NEW id \in CallId, modem[id] = "offered"
                 PROVE  id \in unheard
    BY DEF NoOfferForgotten
  <2>2. Len(inbox) = 0 /\ Len(allows) = 0
    BY <2>1
  <2> QED BY <2>1, <2>2 DEF OffersOnTheirWay
<1> QED BY <1>1, OffersOnTheirWayAlways, TypeCorrect, PTL

(***************************************************************************)
(* ofono's view follows the modem's.                                       *)
(***************************************************************************)
LEMMA SentIndices ==
  ASSUME NEW m, Sent(m)
  PROVE  /\ \A i \in 1 .. Len(inbox) : i \in 1 .. Len(inbox') /\ i < Len(inbox) + 1
         /\ Len(inbox) + 1 \in 1 .. Len(inbox')
         /\ \A i \in 1 .. Len(inbox') : i \in 1 .. Len(inbox) \/ i = Len(inbox) + 1
         /\ \A i \in 1 .. Len(inbox') : ~(Len(inbox) + 1 < i)
  BY DEF Sent

LEMMA TookIndices ==
  ASSUME Took
  PROVE  /\ \A i \in 1 .. Len(inbox') :
              i + 1 \in 1 .. Len(inbox) /\ inbox'[i] = inbox[i + 1] /\ i + 1 # 1
         /\ \A k \in 1 .. Len(inbox) : k # 1 =>
              /\ k - 1 \in 1 .. Len(inbox') /\ inbox'[k - 1] = inbox[k]
              /\ \A i \in 1 .. Len(inbox') : i + 1 < k => i < k - 1
         /\ \A k \in 1 .. Len(inbox) : ~(k < 1) /\ (k # 1 => 1 < k)
<1>1. ASSUME NEW k \in 1 .. Len(inbox), k # 1
      PROVE  /\ k - 1 \in 1 .. Len(inbox') /\ inbox'[k - 1] = inbox[k]
             /\ \A i \in 1 .. Len(inbox') : i + 1 < k => i < k - 1
  <2>1. k - 1 \in 1 .. Len(inbox') /\ (k - 1) + 1 = k
    BY <1>1 DEF Took
  <2> QED BY <2>1 DEF Took
<1> QED BY <1>1 DEF Took

LEMMA SentOther ==
  ASSUME NEW m, Sent(m), NEW id, ~ReportOf(m, id), CallFollows(id),
         VisibleTo(modem'[id]) = VisibleTo(modem[id]), seen' = seen, ending' = ending
  PROVE  CallFollows(id)'
<1>1. ASSUME NEW i \in 1 .. Len(inbox'), ReportOf(inbox'[i], id),
             \A j \in 1 .. Len(inbox') : i < j => ~ReportOf(inbox'[j], id)
      PROVE  Value(inbox'[i]) = VisibleTo(modem'[id])
  <2>1. i \in 1 .. Len(inbox) /\ inbox'[i] = inbox[i]
    BY <1>1, SentIndices DEF Sent
  <2>2. \A j \in 1 .. Len(inbox) : i < j => ~ReportOf(inbox[j], id)
    BY <1>1, SentIndices DEF Sent
  <2> QED BY <1>1, <2>1, <2>2 DEF CallFollows
<1>2. ASSUME \A i \in 1 .. Len(inbox') : ~ReportOf(inbox'[i], id)
      PROVE  VisibleTo(modem'[id]) = Known(id)'
  <2>1. \A i \in 1 .. Len(inbox) : ~ReportOf(inbox[i], id)
    BY <1>2, SentIndices DEF Sent
  <2> QED BY <2>1 DEF CallFollows, Known
<1> QED BY <1>1, <1>2 DEF CallFollows, ReportOf, Effective, Taken, Value, VisibleTo

LEMMA SentReport ==
  ASSUME NEW m, Sent(m), NEW id, ReportOf(m, id), Value(m) = VisibleTo(modem'[id])
  PROVE  CallFollows(id)'
<1>1. ASSUME NEW i \in 1 .. Len(inbox'), ReportOf(inbox'[i], id),
             \A j \in 1 .. Len(inbox') : i < j => ~ReportOf(inbox'[j], id)
      PROVE  Value(inbox'[i]) = VisibleTo(modem'[id])
  <2>1. i = Len(inbox) + 1
    BY <1>1, SentIndices DEF Sent
  <2> QED BY <2>1 DEF Sent
<1>2. ~ \A i \in 1 .. Len(inbox') : ~ReportOf(inbox'[i], id)
  BY SentIndices DEF Sent
<1> QED BY <1>1, <1>2 DEF CallFollows, ReportOf, Effective, Taken, Value, VisibleTo

LEMMA TookOther ==
  ASSUME Took, NEW id, ~ReportOf(inbox[1], id), CallFollows(id), modem' = modem,
         Known(id)' = Known(id)
  PROVE  CallFollows(id)'
<1>1. ASSUME NEW i \in 1 .. Len(inbox'), ReportOf(inbox'[i], id),
             \A j \in 1 .. Len(inbox') : i < j => ~ReportOf(inbox'[j], id)
      PROVE  Value(inbox'[i]) = VisibleTo(modem'[id])
  <2>1. i + 1 \in 1 .. Len(inbox) /\ inbox'[i] = inbox[i + 1] /\ i + 1 # 1
    BY TookIndices
  <2>2. \A k \in 1 .. Len(inbox) : i + 1 < k => ~ReportOf(inbox[k], id)
    <3>1. SUFFICES ASSUME NEW k \in 1 .. Len(inbox), i + 1 < k PROVE ~ReportOf(inbox[k], id)
      OBVIOUS
    <3>2. CASE k = 1
      BY <3>2 DEF Took
    <3>3. CASE k # 1
      BY <1>1, <3>1, <3>3, TookIndices
    <3> QED BY <3>2, <3>3
  <2> QED BY <1>1, <2>1, <2>2 DEF CallFollows
<1>2. ASSUME \A i \in 1 .. Len(inbox') : ~ReportOf(inbox'[i], id)
      PROVE  VisibleTo(modem'[id]) = Known(id)'
  <2>1. \A i \in 1 .. Len(inbox) : ~ReportOf(inbox[i], id)
    BY <1>2, TookIndices
  <2> QED BY <2>1 DEF CallFollows
<1> QED BY <1>1, <1>2 DEF CallFollows, ReportOf, Effective, Taken, Value, VisibleTo

LEMMA TookReport ==
  ASSUME Took, NEW id, ReportOf(inbox[1], id), CallFollows(id), modem' = modem,
         Known(id)' = Value(inbox[1])
  PROVE  CallFollows(id)'
<1>1. ASSUME NEW i \in 1 .. Len(inbox'), ReportOf(inbox'[i], id),
             \A j \in 1 .. Len(inbox') : i < j => ~ReportOf(inbox'[j], id)
      PROVE  Value(inbox'[i]) = VisibleTo(modem'[id])
  <2>1. i + 1 \in 1 .. Len(inbox) /\ inbox'[i] = inbox[i + 1] /\ i + 1 # 1
    BY TookIndices
  <2>2. \A k \in 1 .. Len(inbox) : i + 1 < k => ~ReportOf(inbox[k], id)
    <3>1. SUFFICES ASSUME NEW k \in 1 .. Len(inbox), i + 1 < k PROVE ~ReportOf(inbox[k], id)
      OBVIOUS
    <3>2. CASE k = 1
      BY <3>1, <3>2 DEF Took
    <3>3. CASE k # 1
      BY <1>1, <3>1, <3>3, TookIndices
    <3> QED BY <3>2, <3>3
  <2> QED BY <1>1, <2>1, <2>2 DEF CallFollows
<1>2. ASSUME \A i \in 1 .. Len(inbox') : ~ReportOf(inbox'[i], id)
      PROVE  VisibleTo(modem'[id]) = Known(id)'
  <2>1. \A k \in 1 .. Len(inbox) : 1 < k => ~ReportOf(inbox[k], id)
    BY <1>2, TookIndices
  <2>2. Value(inbox[1]) = VisibleTo(modem[id])
    BY <2>1 DEF CallFollows, Took
  <2> QED BY <2>2
<1> QED BY <1>1, <1>2 DEF CallFollows, ReportOf, Effective, Taken, Value, VisibleTo

LEMMA CallsFollowModem ==
  ASSUME TypeOK, CallsFollow, ModemStep, broken' = "no", NEW other \in CallId \ damaged'
  PROVE  CallFollows(other)'
<1>1. broken = "no" /\ other \notin damaged => CallFollows(other)
  BY DEF CallsFollow
<1>2. ASSUME NEW m \in Indication, Send(m), m.kind # "callInfo",
             VisibleTo(modem'[other]) = VisibleTo(modem[other]), other \notin damaged
      PROVE  CallFollows(other)'
  <2>1. Sent(m) /\ broken = "no" /\ seen' = seen /\ ending' = ending
    BY <1>2, SendShape
  <2>2. ~ReportOf(m, other)
    BY <1>2 DEF ReportOf, Effective
  <2> QED BY <1>1, <1>2, <2>1, <2>2, SentOther
<1>3. ASSUME NEW id \in CallId, NEW shape \in Shapes \ {"numberless"}, OfferCall(id, shape)
      PROVE  CallFollows(other)'
  <2>1. PICK m \in Indication : Send(m) /\ IsOffer(m)
    BY <1>3, OfferShape
  <2>2. damaged' = damaged /\ modem[id] = Absent /\ modem' = [modem EXCEPT ![id] = "offered"]
    BY <1>3, OfferShape
  <2>3. VisibleTo(modem'[other]) = VisibleTo(modem[other])
    BY <2>2, StateAssumption DEF TypeOK, VisibleTo
  <2> QED BY <1>2, <2>1, <2>2, <2>3 DEF IsOffer
<1>4. ASSUME NEW id \in CallId, NEW state \in CallReport, NEW new \in CallState,
             NEW shape \in Shapes, CallReported(id, state, new, shape)
      PROVE  CallFollows(other)'
  <2>1. Report(id, state, shape)
    BY <1>4 DEF CallReported
  <2>2. PICK m \in Indication :
          Send(m) /\ m.kind = "callInfo" /\ m.id = id /\ m.state = state /\ m.shape = shape
    BY <2>1, ReportShape
  <2>3. Sent(m) /\ broken = "no" /\ seen' = seen /\ ending' = ending
    BY <2>2, SendShape
  <2>4. modem'[id] = new /\ \A o \in CallId \ {id} : modem'[o] = modem[o]
    BY <1>4 DEF CallReported, TypeOK
  <2>5. CASE other # id
    <3>1. other \notin damaged
      BY <2>1, <2>5, ReportShape
    <3>2. ~ReportOf(m, other)
      BY <2>2, <2>5 DEF ReportOf
    <3> QED BY <1>1, <2>3, <2>4, <2>5, <3>1, <3>2, SentOther
  <2>6. CASE other = id /\ state # "unreported"
    <3>1. shape \notin {"untyped", "cut"}
      BY <2>1, <2>6, ReportShape
    <3>2. ReportOf(m, id)
      BY <2>2, <2>6, <3>1, ShapeAssumption DEF ReportOf, Effective, Taken, Shape
    <3>3. Value(m) = VisibleTo(modem'[id])
      BY <1>4, <2>2, <2>4, <2>6, StateAssumption DEF CallReported, Value, VisibleTo
    <3> QED BY <2>3, <2>6, <3>2, <3>3, SentReport
  <2>7. CASE other = id /\ state = "unreported"
    <3>1. other \notin damaged
      BY <2>1, <2>7, ReportShape
    <3>2. ~ReportOf(m, id)
      BY <2>2, <2>7 DEF ReportOf, Effective
    <3>3. modem[id] = Absent /\ new = "unreported"
      BY <1>4, <2>7, StateAssumption DEF CallReported
    <3>4. VisibleTo(modem'[id]) = VisibleTo(modem[id])
      BY <2>4, <3>3, StateAssumption DEF VisibleTo
    <3> QED BY <1>1, <2>3, <2>7, <3>1, <3>2, <3>4, SentOther
  <2> QED BY <2>5, <2>6, <2>7
<1>5. ASSUME AllowIgnored
      PROVE  CallFollows(other)'
  BY <1>1, <1>5 DEF AllowIgnored, modemVars, CallFollows, ReportOf, Effective, Taken, Value,
       VisibleTo, Known
<1>6. ASSUME NEW state \in RegReports, NEW kind \in {"regStatus", "regInfo"},
             NEW shape \in Shapes \ {"numberless"}, RegistrationChanges(kind, state, shape)
      PROVE  CallFollows(other)'
  <2>1. PICK m \in Indication : Send(m) /\ m.kind = kind
    BY <1>6, RegistrationShape
  <2>2. modem' = modem /\ damaged' \in {damaged \ {"reg"}, damaged \cup {"reg"}}
    BY <1>6, RegistrationShape
  <2>3. other \notin damaged
    BY <2>2, StateAssumption
  <2> QED BY <1>2, <2>1, <2>2, <2>3
<1>7. ASSUME NEW kind \in {"imsRegInfo", "logged", "unhandled"},
             NEW shape \in Shapes \ {"numberless"}, SendOther(kind, shape)
      PROVE  CallFollows(other)'
  <2>1. PICK m \in Indication : Send(m) /\ m.kind = kind
    BY <1>7, OtherShape
  <2>2. modem' = modem /\ damaged' = damaged
    BY <1>7, OtherShape
  <2> QED BY <1>2, <2>1, <2>2
<1> QED BY <1>3, <1>4, <1>5, <1>6, <1>7 DEF ModemStep

LEMMA CallsFollowPlugin ==
  ASSUME TypeOK, CallsFollow, Plugin, broken' = "no", NEW other \in CallId \ damaged'
  PROVE  CallFollows(other)'
<1>1. broken = "no" /\ other \notin damaged => CallFollows(other)
  BY DEF CallsFollow
<1>2. Nobody \notin CallId /\ "disconnected" \notin Shown
  BY StateAssumption
<1>3. CASE Dispatch
  <2> DEFINE m == inbox[1]
  <2>1. /\ Took /\ Head(inbox) = m /\ broken = "no" /\ ending = Nobody
        /\ modem' = modem /\ damaged' = damaged
    BY <1>3, TakeShape DEF Dispatch, Took
  <2>2. Handle(m) /\ m \in Indication /\ CallFollows(other)
    BY <1>1, <1>3, <2>1, TakeShape DEF Dispatch
  <2>3. Known(other) = seen[other]
    BY <1>2, <2>1 DEF Known
  <2> HIDE DEF m
  <2>4. CASE m.kind # "callInfo"
    <3>1. ~ReportOf(m, other)
      BY <2>4 DEF ReportOf, Effective
    <3>2. seen' = seen /\ ending' = ending
      BY <2>2, <2>4 DEF Handle, HandleIncomingCall, HandleCallInfo, HandleRegStatus,
           HandleRegInfo, HandleImsRegInfo, HandleLogged
    <3>3. Known(other)' = Known(other)
      BY <3>2 DEF Known
    <3> QED BY <2>1, <2>2, <3>1, <3>3, TookOther DEF m
  <2>5. CASE m.kind = "callInfo"
    <3>1. HandleCallInfo(m)
      BY <2>2, <2>5 DEF Handle, HandleIncomingCall, HandleRegStatus, HandleRegInfo,
           HandleImsRegInfo, HandleLogged
    <3>2. CallInfoDone(m) /\ m.id \in CallId
      BY <2>2, <3>1, CallInfoShape
    <3>3. CASE ReportOf(m, other)
      <4>1. Known(other)' = Value(m)
        BY <1>2, <2>1, <3>2, <3>3 DEF CallInfoDone, ReportOf, Known, Value, TypeOK
      <4> QED BY <2>1, <2>2, <3>3, <4>1, TookReport DEF m
    <3>4. CASE ~ReportOf(m, other)
      <4>1. Known(other)' = Known(other)
        BY <1>2, <2>1, <3>2, <3>4 DEF CallInfoDone, ReportOf, Known, TypeOK
      <4> QED BY <2>1, <2>2, <3>4, <4>1, TookOther DEF m
    <3> QED BY <3>3, <3>4
  <2> QED BY <2>4, <2>5
<1>4. CASE Reject
  <2>1. /\ Took /\ Head(inbox) = inbox[1] /\ broken = "no"
        /\ modem' = modem /\ damaged' = damaged
    BY <1>4, TakeShape DEF Reject, Took
  <2>2. ~ReportOf(inbox[1], other)
    BY <1>4, <2>1 DEF Reject, ReportOf, Effective, Taken
  <2>3. Known(other)' = Known(other)
    BY <1>4 DEF Reject, Known
  <2> QED BY <1>1, <2>1, <2>2, <2>3, TookOther
<1>5. CASE DisconnectHandled
  <2>1. inbox' = inbox /\ modem' = modem /\ damaged' = damaged /\ broken = "no"
    BY <1>5 DEF DisconnectHandled, modemVars
  <2>2. Known(other)' = Known(other)
    BY <1>2, <1>5 DEF DisconnectHandled, Calls!Ended, Known, TypeOK
  <2> QED BY <1>1, <2>1, <2>2 DEF CallFollows, ReportOf, Effective, Taken, Value, VisibleTo
<1> QED BY <1>3, <1>4, <1>5 DEF Plugin

(* The same steps for the registration. *)
LEMMA SentNoReg ==
  ASSUME NEW m, Sent(m), ~IsReg(m), RegFollows, modemReg' = modemReg, reg' = reg
  PROVE  RegFollows'
<1>1. ASSUME NEW i \in 1 .. Len(inbox'), IsReg(inbox'[i]),
             \A j \in 1 .. Len(inbox') : i < j => ~IsReg(inbox'[j])
      PROVE  inbox'[i].shape = "whole" /\ inbox'[i].state = modemReg'
  <2>1. i \in 1 .. Len(inbox) /\ inbox'[i] = inbox[i]
    BY <1>1, SentIndices DEF Sent
  <2>2. \A j \in 1 .. Len(inbox) : i < j => ~IsReg(inbox[j])
    BY <1>1, SentIndices DEF Sent
  <2> QED BY <1>1, <2>1, <2>2 DEF RegFollows
<1>2. ASSUME \A i \in 1 .. Len(inbox') : ~IsReg(inbox'[i])
      PROVE  reg' = modemReg'
  <2>1. \A i \in 1 .. Len(inbox) : ~IsReg(inbox[i])
    BY <1>2, SentIndices DEF Sent
  <2> QED BY <2>1 DEF RegFollows
<1> QED BY <1>1, <1>2 DEF RegFollows, IsReg

LEMMA SentReg ==
  ASSUME NEW m, Sent(m), IsReg(m), m.shape = "whole", m.state = modemReg'
  PROVE  RegFollows'
<1>1. ASSUME NEW i \in 1 .. Len(inbox'), IsReg(inbox'[i]),
             \A j \in 1 .. Len(inbox') : i < j => ~IsReg(inbox'[j])
      PROVE  inbox'[i].shape = "whole" /\ inbox'[i].state = modemReg'
  <2>1. i = Len(inbox) + 1
    BY <1>1, SentIndices DEF Sent
  <2> QED BY <2>1 DEF Sent
<1>2. ~ \A i \in 1 .. Len(inbox') : ~IsReg(inbox'[i])
  BY SentIndices DEF Sent
<1> QED BY <1>1, <1>2 DEF RegFollows, IsReg

LEMMA TookReg ==
  ASSUME Took, RegFollows, modemReg' = modemReg,
         \/ ~IsReg(inbox[1]) /\ reg' = reg
         \/ IsReg(inbox[1]) /\ (inbox[1].shape = "whole" => reg' = inbox[1].state)
  PROVE  RegFollows'
<1>1. ASSUME NEW i \in 1 .. Len(inbox'), IsReg(inbox'[i]),
             \A j \in 1 .. Len(inbox') : i < j => ~IsReg(inbox'[j])
      PROVE  inbox'[i].shape = "whole" /\ inbox'[i].state = modemReg'
  <2>1. i + 1 \in 1 .. Len(inbox) /\ inbox'[i] = inbox[i + 1]
    BY TookIndices
  <2>2. \A k \in 1 .. Len(inbox) : i + 1 < k => ~IsReg(inbox[k])
    <3>1. SUFFICES ASSUME NEW k \in 1 .. Len(inbox), i + 1 < k PROVE ~IsReg(inbox[k])
      OBVIOUS
    <3>2. k # 1
      BY <3>1 DEF Took
    <3> QED BY <1>1, <3>1, <3>2, TookIndices
  <2> QED BY <1>1, <2>1, <2>2 DEF RegFollows
<1>2. ASSUME \A i \in 1 .. Len(inbox') : ~IsReg(inbox'[i])
      PROVE  reg' = modemReg'
  <2>1. \A k \in 1 .. Len(inbox) : k # 1 => ~IsReg(inbox[k])
    BY <1>2, TookIndices
  <2>2. CASE IsReg(inbox[1])
    <3>1. \A k \in 1 .. Len(inbox) : 1 < k => ~IsReg(inbox[k])
      BY <2>1
    <3>2. inbox[1].shape = "whole" /\ inbox[1].state = modemReg
      BY <2>2, <3>1 DEF RegFollows, Took
    <3> QED BY <2>2, <3>2
  <2>3. CASE ~IsReg(inbox[1])
    <3>1. \A k \in 1 .. Len(inbox) : ~IsReg(inbox[k])
      BY <2>1, <2>3
    <3> QED BY <2>3, <3>1 DEF RegFollows
  <2> QED BY <2>2, <2>3
<1> QED BY <1>1, <1>2 DEF RegFollows, IsReg

LEMMA RegistrationFollowsNext ==
  ASSUME TypeOK, RegistrationFollows, Next, broken' = "no", "reg" \notin damaged'
  PROVE  RegFollows'
<1>1. broken = "no" /\ "reg" \notin damaged => RegFollows
  BY DEF RegistrationFollows
<1>2. ASSUME NEW m \in Indication, Send(m), ~IsReg(m), modemReg' = modemReg,
             "reg" \notin damaged
      PROVE  RegFollows'
  BY <1>1, <1>2, SendShape, SentNoReg
<1>3. ASSUME NEW id \in CallId, NEW shape \in Shapes \ {"numberless"}, OfferCall(id, shape)
      PROVE  RegFollows'
  <2>1. PICK m \in Indication : Send(m) /\ IsOffer(m)
    BY <1>3, OfferShape
  <2>2. damaged' = damaged /\ modemReg' = modemReg
    BY <1>3, OfferShape
  <2> QED BY <1>2, <2>1, <2>2 DEF IsOffer, IsReg
<1>4. ASSUME NEW id \in CallId, NEW state \in CallReport, NEW new \in CallState,
             NEW shape \in Shapes, CallReported(id, state, new, shape)
      PROVE  RegFollows'
  <2>1. Report(id, state, shape) /\ modemReg' = modemReg
    BY <1>4 DEF CallReported
  <2>2. PICK m \in Indication : Send(m) /\ m.kind = "callInfo"
    BY <2>1, ReportShape
  <2>3. "reg" \notin damaged
    BY <2>1, ReportShape
  <2> QED BY <1>2, <2>1, <2>2, <2>3 DEF IsReg
<1>5. ASSUME AllowIgnored
      PROVE  RegFollows'
  BY <1>1, <1>5 DEF AllowIgnored, modemVars, RegFollows, IsReg
<1>6. ASSUME NEW state \in RegReports, NEW kind \in {"regStatus", "regInfo"},
             NEW shape \in Shapes \ {"numberless"}, RegistrationChanges(kind, state, shape)
      PROVE  RegFollows'
  <2>1. PICK m \in Indication : Send(m) /\ IsReg(m) /\ m.state = state /\ m.shape = shape
    BY <1>6, RegistrationShape
  <2>2. modemReg' = state
        /\ damaged' = IF shape = "whole" THEN damaged \ {"reg"} ELSE damaged \cup {"reg"}
    BY <1>6, RegistrationShape
  <2>3. m.shape = "whole"
    BY <2>1, <2>2
  <2> QED BY <2>1, <2>2, <2>3, SendShape, SentReg
<1>7. ASSUME NEW kind \in {"imsRegInfo", "logged", "unhandled"},
             NEW shape \in Shapes \ {"numberless"}, SendOther(kind, shape)
      PROVE  RegFollows'
  <2>1. PICK m \in Indication : Send(m) /\ m.kind = kind
    BY <1>7, OtherShape
  <2>2. damaged' = damaged /\ modemReg' = modemReg
    BY <1>7, OtherShape
  <2> QED BY <1>2, <2>1, <2>2 DEF IsReg
<1>8. CASE Dispatch
  <2> DEFINE m == inbox[1]
  <2>1. /\ Took /\ Head(inbox) = m /\ broken = "no"
        /\ modemReg' = modemReg /\ damaged' = damaged
    BY <1>8, TakeShape DEF Dispatch, Took
  <2>2. Handle(m) /\ RegFollows
    BY <1>1, <1>8, <2>1 DEF Dispatch
  <2> HIDE DEF m
  <2>3. CASE ~IsReg(m)
    <3>1. reg' = reg
      BY <2>2, <2>3 DEF Handle, HandleIncomingCall, HandleCallInfo, HandleRegStatus,
           HandleRegInfo, HandleImsRegInfo, HandleLogged, IsReg
    <3> QED BY <2>1, <2>2, <2>3, <3>1, TookReg DEF m
  <2>4. CASE IsReg(m)
    <3>1. m.shape = "whole" => reg' = m.state
      BY <2>2, <2>4 DEF Handle, HandleIncomingCall, HandleCallInfo, HandleRegStatus,
           HandleRegInfo, HandleImsRegInfo, HandleLogged, IsReg
    <3> QED BY <2>1, <2>2, <2>4, <3>1, TookReg DEF m
  <2> QED BY <2>3, <2>4
<1>9. CASE Reject
  <2>1. /\ Took /\ Head(inbox) = inbox[1] /\ broken = "no"
        /\ modemReg' = modemReg /\ damaged' = damaged
    BY <1>9, TakeShape DEF Reject, Took
  <2>2. reg' = reg /\ (IsReg(inbox[1]) => inbox[1].shape # "whole")
    BY <1>9, <2>1 DEF Reject, IsReg
  <2>3. RegFollows
    BY <1>1, <2>1
  <2>4. CASE IsReg(inbox[1])
    <3>1. inbox[1].shape = "whole" => reg' = inbox[1].state
      BY <2>2, <2>4
    <3> QED BY <2>1, <2>3, <2>4, <3>1, TookReg
  <2>5. CASE ~IsReg(inbox[1])
    BY <2>1, <2>2, <2>3, <2>5, TookReg
  <2> QED BY <2>4, <2>5
<1>10. CASE DisconnectHandled
  BY <1>1, <1>10 DEF DisconnectHandled, modemVars, RegFollows, IsReg
<1> QED BY <1>3, <1>4, <1>5, <1>6, <1>7, <1>8, <1>9, <1>10, NextSteps DEF ModemStep, Plugin

(* When everything is handled, ofono's view differs from the modem's only  *)
(* in what the last report of it did not say.                              *)
THEOREM OnlyDamagedDifferAlways == Spec => []OnlyDamagedDiffer
<1>1. Init => CallsFollow /\ RegistrationFollows
  <2>1. SUFFICES ASSUME Init PROVE CallsFollow /\ RegistrationFollows
    OBVIOUS
  <2>2. /\ Len(inbox) = 0 /\ reg = modemReg /\ ending = Nobody
        /\ \A id \in CallId : modem[id] = Absent /\ seen[id] = Absent
    BY <2>1 DEF Init, Calls!Init
  <2>3. \A id \in CallId : CallFollows(id)
    BY <2>2 DEF CallFollows, Known, VisibleTo
  <2>4. RegFollows
    BY <2>2 DEF RegFollows
  <2> QED BY <2>3, <2>4 DEF CallsFollow, RegistrationFollows
<1>2. TypeOK /\ CallsFollow /\ RegistrationFollows /\ Next => CallsFollow' /\ RegistrationFollows'
  <2>1. ASSUME TypeOK, CallsFollow, Next, broken' = "no", NEW id \in CallId \ damaged'
        PROVE  CallFollows(id)'
    BY <2>1, NextSteps, CallsFollowModem, CallsFollowPlugin
  <2>2. TypeOK /\ CallsFollow /\ Next => CallsFollow'
    BY <2>1 DEF CallsFollow
  <2>3. TypeOK /\ RegistrationFollows /\ Next => RegistrationFollows'
    BY RegistrationFollowsNext DEF RegistrationFollows
  <2> QED BY <2>2, <2>3
<1>3. CallsFollow /\ RegistrationFollows /\ UNCHANGED vars => CallsFollow' /\ RegistrationFollows'
  BY DEF CallsFollow, CallFollows, ReportOf, Effective, Taken, Value, VisibleTo, Known,
       RegistrationFollows, RegFollows, IsReg, vars, modemVars
<1>4. TypeOK /\ CallsFollow /\ RegistrationFollows => OnlyDamagedDiffer
  <2>1. SUFFICES ASSUME TypeOK, CallsFollow, RegistrationFollows,
                        inbox = <<>>, ending = Nobody, broken = "no"
                 PROVE  /\ \A id \in CallId \ damaged : seen[id] = VisibleTo(modem[id])
                        /\ "reg" \notin damaged => reg = modemReg
    BY DEF OnlyDamagedDiffer
  <2>2. Len(inbox) = 0
    BY <2>1
  <2>3. ASSUME NEW id \in CallId \ damaged PROVE seen[id] = VisibleTo(modem[id])
    BY <2>1, <2>2, StateAssumption DEF CallsFollow, CallFollows, Known
  <2>4. "reg" \notin damaged => reg = modemReg
    BY <2>1, <2>2 DEF RegistrationFollows, RegFollows
  <2> QED BY <2>3, <2>4
<1> QED BY <1>1, <1>2, <1>3, <1>4, TypeCorrect, PTL DEF Spec

(***************************************************************************)
(* Firmware that sends what the code reads.                                *)
(***************************************************************************)
(* Nothing goes wrong, and no report or offer is lost. *)
NothingLost ==
  /\ broken = "no" /\ damaged = {}
  /\ ~MayRefuse => unheard = {}

LEMMA NothingLostStep ==
  ASSUME Shapes = {"whole"}, TypeOK, NothingLost, [Next]_vars
  PROVE  NothingLost'
<1> USE DEF NothingLost
<1>1. ASSUME NEW m \in Indication, Send(m) PROVE broken' = "no"
  BY <1>1, SendShape
<1>2. ASSUME NEW id \in CallId, NEW shape \in Shapes \ {"numberless"}, OfferCall(id, shape)
      PROVE  NothingLost'
  <2>1. shape = "whole"
    OBVIOUS
  <2>2. unheard' = unheard \ {id} /\ damaged' = damaged /\ broken' = "no"
    BY <1>1, <1>2, <2>1, OfferShape
  <2> QED BY <2>2
<1>3. ASSUME NEW id \in CallId, NEW state \in CallReport, NEW new \in CallState,
             NEW shape \in Shapes, CallReported(id, state, new, shape)
      PROVE  NothingLost'
  <2>1. Report(id, state, shape) /\ unheard' = unheard /\ shape \notin {"untyped", "cut"}
    BY <1>3 DEF CallReported
  <2>2. damaged' = damaged \/ damaged' = damaged \ {id}
    <3>1. CASE state = "unreported"
      BY <2>1, <3>1 DEF Report
    <3>2. CASE state # "unreported"
      BY <2>1, <3>2 DEF Report
    <3> QED BY <3>1, <3>2
  <2>3. broken' = "no"
    BY <1>1, <2>1, ReportShape
  <2> QED BY <2>1, <2>2, <2>3
<1>4. ASSUME NEW state \in RegReports, NEW kind \in {"regStatus", "regInfo"},
             NEW shape \in Shapes \ {"numberless"}, RegistrationChanges(kind, state, shape)
      PROVE  NothingLost'
  <2>1. shape = "whole"
    OBVIOUS
  <2>2. damaged' = damaged \ {"reg"} /\ unheard' = unheard /\ broken' = "no"
    BY <1>1, <1>4, <2>1, RegistrationShape
  <2> QED BY <2>2
<1>5. ASSUME NEW kind \in {"imsRegInfo", "logged", "unhandled"},
             NEW shape \in Shapes \ {"numberless"}, SendOther(kind, shape)
      PROVE  NothingLost'
  <2>1. damaged' = damaged /\ unheard' = unheard /\ broken' = "no"
    BY <1>1, <1>5, OtherShape
  <2> QED BY <2>1
<1>6. CASE AllowIgnored
  BY <1>6 DEF AllowIgnored
<1>7. CASE Dispatch
  <2> DEFINE m == Head(inbox)
  <2>1. m \in Indication /\ Handle(m) /\ damaged' = damaged
    BY <1>7, TakeShape DEF Dispatch
  <2> HIDE DEF m
  <2>2. m.shape = "whole"
    BY <2>1, MessageFacts
  <2>3. broken' = "no" /\ (~MayRefuse => unheard' = unheard)
    BY <2>1, <2>2 DEF Handle, HandleIncomingCall, HandleCallInfo, HandleRegStatus,
                      HandleRegInfo, HandleImsRegInfo, HandleLogged
  <2> QED BY <2>1, <2>3
<1>8. CASE Reject
  BY <1>8, TakeShape DEF Reject
<1>9. CASE DisconnectHandled
  BY <1>9 DEF DisconnectHandled
<1>10. CASE UNCHANGED vars
  BY <1>10 DEF vars
<1> QED BY <1>2, <1>3, <1>4, <1>5, <1>6, <1>7, <1>8, <1>9, <1>10, NextSteps
        DEF ModemStep, Plugin

LEMMA NothingLostAlways ==
  ASSUME Shapes = {"whole"} PROVE Spec => []NothingLost
<1>1. Init => NothingLost
  BY DEF Init, NothingLost
<1>2. TypeOK /\ NothingLost /\ [Next]_vars => NothingLost'
  BY NothingLostStep
<1> QED BY <1>1, <1>2, TypeCorrect, PTL DEF Spec

(* When firmware and code agree on the arguments of the indications, no    *)
(* undefined behaviour is reached, and once everything is handled ofono    *)
(* sees every call, and the MtkIms the registration, as the modem does.    *)
THEOREM WholeMessagesKeepInSync ==
  Shapes = {"whole"} =>
    (Spec => [](/\ broken = "no"
                /\ inbox = <<>> /\ ending = Nobody =>
                     /\ \A id \in CallId : seen[id] = VisibleTo(modem[id])
                     /\ reg = modemReg))
<1> SUFFICES ASSUME Shapes = {"whole"}
             PROVE  Spec => [](/\ broken = "no"
                               /\ inbox = <<>> /\ ending = Nobody =>
                                    /\ \A id \in CallId : seen[id] = VisibleTo(modem[id])
                                    /\ reg = modemReg)
  OBVIOUS
<1>1. Spec => []NothingLost
  BY NothingLostAlways
<1>2. NothingLost /\ OnlyDamagedDiffer =>
        /\ broken = "no"
        /\ inbox = <<>> /\ ending = Nobody =>
             /\ \A id \in CallId : seen[id] = VisibleTo(modem[id])
             /\ reg = modemReg
  BY DEF NothingLost, OnlyDamagedDiffer
<1> QED BY <1>1, <1>2, OnlyDamagedDifferAlways, PTL

(* And when gbinder accepts the answers to the offers as well, every call  *)
(* the modem offers has its indication or its answer on the way.           *)
THEOREM WholeOffersAreAnswered ==
  Shapes = {"whole"} /\ ~MayRefuse =>
    (Spec => [](\A id \in CallId : modem[id] = "offered" => OfferWaits(id) \/ AnswerWaits(id)))
<1> SUFFICES ASSUME Shapes = {"whole"}, ~MayRefuse
             PROVE  Spec => [](\A id \in CallId : modem[id] = "offered" =>
                                 OfferWaits(id) \/ AnswerWaits(id))
  OBVIOUS
<1>1. Spec => []NothingLost
  BY NothingLostAlways
<1>2. NothingLost /\ OffersOnTheirWay =>
        \A id \in CallId : modem[id] = "offered" => OfferWaits(id) \/ AnswerWaits(id)
  BY DEF NothingLost, OffersOnTheirWay, OfferWaits, AnswerWaits
<1> QED BY <1>1, <1>2, OffersOnTheirWayAlways, PTL
=============================================================================
