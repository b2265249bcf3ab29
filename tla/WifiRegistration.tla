-------------------------- MODULE WifiRegistration --------------------------
(***************************************************************************)
(* Registration and NetworkManager monitor together, on a device with a    *)
(* Wi-Fi interface: mtk_ims_set_registration runs nm_initialize between    *)
(* setWifiEnabled and setImsEnabled, the monitor's callback sends an       *)
(* address whenever it finds one, also from within nm_initialize, and the  *)
(* NMInfo is a part of the MtkIms, which slot and requests keep alive.     *)
(*                                                                         *)
(* NmDbus gives the monitor and the addresses that go to the callback.     *)
(* Here they are on their way to the modem among the other requests of the *)
(* registration, which are delivered in order; a request whose transaction *)
(* is refused is not sent, and nobody looks at the result of setWifiEnabled*)
(* and setWifiIpAddress.  The features, and what a refused setImsEnabled   *)
(* does, are in ImsRegistration.                                           *)
(***************************************************************************)
EXTENDS NmDbus

CONSTANTS
  Token,       \* user_data of ofono, a MtkImsResultRequest goes by the one it has
  MaxSent,     \* bound on the requests the modem has not handled
  MaxChanges   \* bound on the changes in NetworkManager

ASSUME BoundAssumption == MaxSent \in Nat /\ MaxChanges \in Nat

VARIABLES
  slotIms,     \* mtk_slot: self->ims is not NULL
  pending,     \* the registrations whose request holds a reference to the MtkIms
  sent,        \* oneway requests on their way to the modem, in order
  answers,     \* the setImsEnabled requests the modem has answered
  used,        \* the Wi-Fi state and the address that the modem uses
  refused,     \* history: the address that went to the callback last was not sent
  asked,       \* the last registration, and whether its nm_initialize sent an address
  since,       \* history: the addresses the device had since then
  changes      \* changes in NetworkManager so far

nmVars == <<nm, signals, proxies, info, modem, inits, broken>>

regVars == <<slotIms, pending, sent, answers, used, refused, asked, since, changes>>

allVars == <<nmVars, regVars>>

OneAddress == {{a} : a \in Address}

Request ==
  [kind : {"wifi"}, value : BOOLEAN]
    \cup [kind : {"address"}, value : OneAddress]
    \cup [kind : {"ims"}, value : Token]

WifiTypeOK ==
  /\ TypeOK
  /\ slotIms \in BOOLEAN
  /\ pending \subseteq Token
  /\ sent \in Seq(Request)
  /\ answers \subseteq Token
  /\ used \in [wifi : BOOLEAN, address : {{}} \cup OneAddress]
  /\ refused \in BOOLEAN
  /\ asked \in [ud : SUBSET Token, sent : BOOLEAN]
  /\ since \subseteq Address
  /\ changes \in 0 .. MaxChanges

Current == nm.address[nm.path]

WifiInit ==
  /\ Init
  /\ slotIms = TRUE
  /\ pending = {} /\ answers = {} /\ since = {}
  /\ sent = <<>>
  /\ used = [wifi |-> FALSE, address |-> {}]
  /\ refused = FALSE
  /\ asked = [ud |-> {}, sent |-> FALSE]
  /\ changes = 0

Send(requests) ==
  /\ Len(sent) + Len(requests) <= MaxSent
  /\ sent' = sent \o requests

(* The requests that go out for one that may be refused. *)
Submitted(r) == {<<>>, <<r>>}

(* mtk_ims_nm_callback_wrapper: the address the callback was given in this *)
(* step, if it was, is sent unless it is refused; one that a step gives it *)
(* several times counts as one.                                            *)
Addresses(given) ==
  IF given THEN Submitted([kind |-> "address", value |-> modem']) ELSE {<<>>}

IsRefused(given, addresses) == IF given THEN addresses = <<>> ELSE refused

(* Mutated form of Batch: setImsEnabled is sent before nm_initialize runs. *)
BatchEnableFirst(wifi, addresses, u) == wifi \o <<[kind |-> "ims", value |-> u]>> \o addresses

(* The requests of a registration, less the features. *)
Batch(wifi, addresses, u) == wifi \o addresses \o <<[kind |-> "ims", value |-> u]>>

SetRegistration(value, u) ==
  /\ slotIms /\ u \notin pending
  /\ Initialize
  /\ \E wifi \in Submitted([kind |-> "wifi", value |-> value]),
        addresses \in Addresses(info'.config # NoProxy) :
       /\ Send(Batch(wifi, addresses, u))
       /\ refused' = IsRefused(info'.config # NoProxy, addresses)
       /\ asked' = [ud |-> {u}, sent |-> addresses # <<>>]
  /\ pending' = pending \cup {u}
  /\ since' = {Current}
  /\ UNCHANGED <<slotIms, answers, used, changes>>

(* Mutated form of Kept: a request does not hold a reference. *)
KeptBySlot(slot, requests) == slot

Kept(slot, requests) == slot \/ requests # {}

(* The last reference gone, mtk_ims_finalize releases NMInfo. *)
Release(slot, requests) ==
  /\ slotIms' = slot /\ pending' = requests
  /\ IF Kept(slot, requests) \/ info.freed THEN UNCHANGED nmVars ELSE Free

(* mtk_slot_terminate. *)
SlotTerminate ==
  /\ ~broken /\ slotIms
  /\ Release(FALSE, pending)
  /\ UNCHANGED <<sent, answers, used, refused, asked, since, changes>>

(* mtk_ims_result_request_complete and mtk_ims_result_request_destroy. *)
Complete(u) ==
  /\ ~broken /\ u \in pending \cap answers
  /\ Release(slotIms, pending \ {u})
  /\ answers' = answers \ {u}
  /\ UNCHANGED <<sent, used, refused, asked, since, changes>>

(* Mutated form of Monitor: an address that changes is not sent. *)
MonitorSilently ==
  /\ HandleDeviceSignal \/ HandleConfigSignal
  /\ UNCHANGED regVars

(* Whether a device signal gave the callback an address: the proxy of the  *)
(* configuration was created, at last or, with several proxies of the      *)
(* device, before the last failure.                                        *)
Given(n, path) ==
  IF info'.config # NoProxy \/ modem' # modem THEN {TRUE}
  ELSE IF n > 1 /\ modem = {nm.address[path]} THEN BOOLEAN ELSE {FALSE}

(* The signal handlers of nm_dbus.c. *)
Monitor ==
  /\ \E given \in BOOLEAN :
       /\ \/ /\ HandleDeviceSignal
             /\ given \in Given(Cardinality(Head(signals).to), Head(signals).value)
          \/ HandleConfigSignal /\ given
       /\ \E addresses \in Addresses(given) :
            Send(addresses) /\ refused' = IsRefused(given, addresses)
  /\ UNCHANGED <<slotIms, pending, answers, used, asked, since, changes>>

OtherSignal ==
  /\ DropSignal \/ HandleSignalWithoutBus \/ HandleSignalFreed
  /\ UNCHANGED regVars

NetworkChanges ==
  /\ changes < MaxChanges
  /\ \/ \E path \in Path : SwitchConfig(path)
     \/ \E a \in Address : ChangeAddress(a)
  /\ changes' = changes + 1
  /\ since' = since \cup {nm'.address[nm'.path]}
  /\ UNCHANGED <<slotIms, pending, sent, answers, used, refused, asked>>

(* The modem; it may leave a setImsEnabled without an answer. *)
ModemTakes ==
  /\ ~broken /\ sent # <<>>
  /\ sent' = Tail(sent)
  /\ LET r == Head(sent) IN
     /\ used' = IF r.kind = "ims" THEN used ELSE [used EXCEPT ![r.kind] = r.value]
     /\ answers' \in {answers} \cup (IF r.kind = "ims" THEN {answers \cup {r.value}} ELSE {})
  /\ UNCHANGED <<slotIms, pending, refused, asked, since, changes>>
  /\ UNCHANGED nmVars

WifiNext ==
  \/ \E value \in BOOLEAN, u \in Token : SetRegistration(value, u)
  \/ SlotTerminate
  \/ \E u \in Token : Complete(u)
  \/ Monitor
  \/ OtherSignal
  \/ NetworkChanges
  \/ ModemTakes

WifiSpec == WifiInit /\ [][WifiNext]_allVars

(***************************************************************************)
(* Properties, besides InSyncWhenHandled and ProxiesBounded of NmDbus.     *)
(***************************************************************************)
(* When ofono is told that the registration is done, the modem has no      *)
(* address but one that the device had since it was asked for, and has one *)
(* if nm_initialize found one and setWifiIpAddress was not refused: it     *)
(* went before setImsEnabled.  After another nm_initialize a forgotten     *)
(* proxy may have sent an older one in between.                            *)
FreshWhenCompleted ==
  [][\A u \in pending \ pending' :
       asked.ud = {u} /\ inits = 1 =>
         used.address \subseteq since /\ (asked.sent => used.address # {})]_allVars

(* The monitor reads a freed NMInfo only if slot and requests had all let  *)
(* the MtkIms go, and it was initialized more than once.                   *)
MonitorFreedLast == broken => ~slotIms /\ pending = {} /\ inits > 1

(* Once everything has arrived, and if NMInfo follows a configuration, the *)
(* modem uses the address of the device, whatever the forgotten proxies    *)
(* sent in between and whatever was refused before, unless the last        *)
(* address itself was: mtk_ims.c does not send it again.                   *)
FollowsDevice ==
  sent = <<>> /\ signals = <<>> /\ info.config # NoProxy /\ ~refused => used.address = {Current}
=============================================================================
