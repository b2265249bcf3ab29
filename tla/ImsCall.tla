------------------------------ MODULE ImsCall -------------------------------
(***************************************************************************)
(* The list of IMS calls of mtk_ims_call.c: callInfoIndication messages of *)
(* the modem update a GPtrArray of heap allocated BinderExtCallInfo, whose *)
(* bare pdata is what get_calls returns, and two signals tell ofono.       *)
(*                                                                         *)
(* The handler runs the handlers of its signals synchronously, so it is    *)
(* split where ofono may look at the list: while the disconnect signal is  *)
(* emitted the disconnected call is still in the list (DisconnectBegin,    *)
(* DisconnectEnd); every other message is one step.                        *)
(***************************************************************************)
EXTENDS Naturals, Sequences, FiniteSets

CONSTANTS
  CallId,      \* call ids of the modem, reused after a call has ended
  Ptr,         \* heap blocks that can hold a BinderExtCallInfo
  MaxInbox,    \* bound on the indications that wait in the main loop
  Null,        \* the pointer NULL
  Junk,        \* the content of array slots that were never written
  Freed        \* the content of a heap block that is not allocated

ASSUME PtrAssumption == Null \notin Ptr /\ Junk \notin Ptr /\ Null # Junk

ASSUME SizeAssumption == IsFiniteSet(CallId) /\ Null \notin CallId /\ MaxInbox \in Nat \ {0}

VARIABLES
  pdata,      \* self->calls->pdata: [Slots -> Ptr, Null or Junk]
  len,        \* self->calls->len
  info,       \* [Ptr -> BinderExtCallInfo], Freed if not allocated
  emitting,   \* the call whose disconnect signal is being emitted, Null if none
  inbox,      \* indications the modem has sent and the main loop has not handled
  modem,      \* [CallId -> the last message type sent that matters for ofono, or no call]
  known       \* ofono: the calls it saw when the calls-changed signal last reached it

vars == <<pdata, len, info, emitting, inbox, modem, known>>

(* One slot more than there can be calls: GPtrArray allocates 16 at first. *)
Slots == 1 .. Cardinality(CallId) + 1

(* mtk_ims_call_msg_type_to_state. *)
MsgTypeToState ==
  [setup |-> "incoming", alert |-> "alerting", connected |-> "active", held |-> "holding",
   active |-> "active", disconnected |-> "disconnected", remote_hold |-> "waiting",
   remote_resume |-> "active", mo_call_id_assign |-> "invalid"]

MsgType == DOMAIN MsgTypeToState

State == {"incoming", "alerting", "active", "holding", "waiting", "disconnected"}

(* call_info_new, reduced to what identifies a call and its state. *)
Info == [id : CallId, state : State]

ASSUME FreedAssumption == Freed \notin Info

(* What the modem last said of a call: nothing reportable yet, or a state. *)
ModemState == {"idle", "unreported"} \cup (State \ {"disconnected"})

Listed == {pdata[i] : i \in 1 .. len}

(* The list as an observer would read it if it stopped at len. *)
Calls == {info[p] : p \in Listed}

(* Mutated form of Find: the loop stops one call too early. *)
FindAllButLast(id) == {p \in {pdata[i] : i \in 1 .. len - 1} : info[p].id = id}

Find(id) == {p \in Listed : info[p].id = id}

TypeOK ==
  /\ pdata \in [Slots -> Ptr \cup {Null, Junk}]
  /\ len \in 0 .. Cardinality(CallId)
  /\ info \in [Ptr -> Info \cup {Freed}]
  /\ emitting \in Ptr \cup {Null}
  /\ inbox \in Seq([id : CallId, type : MsgType])
  /\ modem \in [CallId -> ModemState]
  /\ known \subseteq Info

Init ==
  /\ pdata \in {[i \in Slots |-> v] : v \in {Null, Junk}}
  /\ len = 0
  /\ info = [p \in Ptr |-> Freed]
  /\ emitting = Null
  /\ inbox = <<>>
  /\ modem = [id \in CallId |-> "idle"]
  /\ known = {}

(***************************************************************************)
(* The modem.                                                              *)
(***************************************************************************)
Send(id, type) ==
  /\ Len(inbox) < MaxInbox
  /\ inbox' = Append(inbox, [id |-> id, type |-> type])
  /\ UNCHANGED <<pdata, len, info, emitting, known>>

(* An incoming call, or an outgoing one that was given its id. *)
CallStarts(id, type) ==
  /\ modem[id] = "idle"
  /\ type \in {"setup", "mo_call_id_assign"}
  /\ modem' = [modem EXCEPT ![id] =
                 IF type = "setup" THEN MsgTypeToState[type] ELSE "unreported"]
  /\ Send(id, type)

CallProgresses(id, type) ==
  /\ modem[id] # "idle"
  /\ type \in {"alert", "connected", "held", "active", "remote_hold", "remote_resume"}
  /\ modem' = [modem EXCEPT ![id] = MsgTypeToState[type]]
  /\ Send(id, type)

(* The call ends, also by the hangupAll that hangup() sends. *)
CallEnds(id) ==
  /\ modem[id] # "idle"
  /\ modem' = [modem EXCEPT ![id] = "idle"]
  /\ Send(id, "disconnected")

(***************************************************************************)
(* mtk_ims_call_handle_call_info.                                          *)
(***************************************************************************)
(* The lookup, or call_info_new and g_ptr_array_add, and the new state.    *)
(* p is the block of the call afterwards.                                  *)
UpdateCall(id, state, p) ==
  /\ info' = [info EXCEPT ![p] = [id |-> id, state |-> state]]
  /\ IF Find(id) # {}
     THEN p \in Find(id) /\ UNCHANGED <<pdata, len>>
     ELSE /\ info[p] = Freed
          /\ len' = len + 1
          /\ pdata' = [pdata EXCEPT ![len + 1] = p]

(* Mutated form of RemoveCall: the first call goes. *)
RemoveFirstCall(p) ==
  /\ pdata' = [i \in Slots |-> IF i \in 1 .. len - 1 THEN pdata[i + 1] ELSE pdata[i]]
  /\ len' = len - 1
  /\ info' = [info EXCEPT ![pdata[1]] = Freed]

(* g_ptr_array_remove with g_free: the later pointers move down, the last  *)
(* slot keeps what it held.                                                *)
RemoveCall(p) ==
  LET at == CHOOSE i \in 1 .. len : pdata[i] = p IN
  /\ pdata' = [i \in Slots |-> IF i \in at .. len - 1 THEN pdata[i + 1] ELSE pdata[i]]
  /\ len' = len - 1
  /\ info' = [info EXCEPT ![p] = Freed]

(* The calls-changed signal: ofono reads the list. *)
NotifyCallsChanged == known' = {info'[pdata'[i]] : i \in 1 .. len'}

(* Unhandled message types are not reported. *)
IgnoreCallInfo ==
  /\ emitting = Null
  /\ inbox # <<>>
  /\ MsgTypeToState[Head(inbox).type] = "invalid"
  /\ inbox' = Tail(inbox)
  /\ UNCHANGED <<pdata, len, info, emitting, modem, known>>

(* Mutated form of HandleCallInfo: invalid states are not sorted out. *)
HandleCallInfoUnchecked ==
  /\ emitting = Null
  /\ inbox # <<>>
  /\ Head(inbox).type # "disconnected"
  /\ \E p \in Ptr : UpdateCall(Head(inbox).id, MsgTypeToState[Head(inbox).type], p)
  /\ NotifyCallsChanged
  /\ inbox' = Tail(inbox)
  /\ UNCHANGED <<emitting, modem>>

HandleCallInfo ==
  /\ emitting = Null
  /\ inbox # <<>>
  /\ Head(inbox).type # "disconnected"
  /\ MsgTypeToState[Head(inbox).type] # "invalid"
  /\ \E p \in Ptr : UpdateCall(Head(inbox).id, MsgTypeToState[Head(inbox).type], p)
  /\ NotifyCallsChanged
  /\ inbox' = Tail(inbox)
  /\ UNCHANGED <<emitting, modem>>

(* Mutated form of DisconnectBegin: a listed call goes without a signal. *)
DisconnectUnannounced ==
  /\ emitting = Null
  /\ inbox # <<>>
  /\ Head(inbox).type = "disconnected"
  /\ \E p \in Find(Head(inbox).id) : RemoveCall(p)
  /\ NotifyCallsChanged
  /\ inbox' = Tail(inbox)
  /\ UNCHANGED <<emitting, modem>>

(* Up to the emission of the disconnect signal. *)
DisconnectBegin ==
  /\ emitting = Null
  /\ inbox # <<>>
  /\ Head(inbox).type = "disconnected"
  /\ \E p \in Ptr : /\ UpdateCall(Head(inbox).id, "disconnected", p)
                    /\ emitting' = p
  /\ inbox' = Tail(inbox)
  /\ UNCHANGED <<modem, known>>

(* Mutated forms of DisconnectEnd: ofono is told before the call is        *)
(* removed; the call is not removed.                                       *)
DisconnectEndTellsFirst ==
  /\ emitting # Null
  /\ RemoveCall(emitting)
  /\ known' = Calls
  /\ emitting' = Null
  /\ UNCHANGED <<inbox, modem>>

DisconnectEndKeeps ==
  /\ emitting # Null
  /\ known' = Calls
  /\ emitting' = Null
  /\ UNCHANGED <<pdata, len, info, inbox, modem>>

(* After it: the call is removed and ofono told that the list changed. *)
DisconnectEnd ==
  /\ emitting # Null
  /\ RemoveCall(emitting)
  /\ NotifyCallsChanged
  /\ emitting' = Null
  /\ UNCHANGED <<inbox, modem>>

Handler == IgnoreCallInfo \/ HandleCallInfo \/ DisconnectBegin \/ DisconnectEnd

Next ==
  \/ \E id \in CallId, type \in MsgType : CallStarts(id, type) \/ CallProgresses(id, type)
  \/ \E id \in CallId : CallEnds(id)
  \/ Handler

Spec == Init /\ [][Next]_vars

(* The main loop dispatches what has arrived. *)
FairSpec == Spec /\ WF_vars(Handler)

(***************************************************************************)
(* Properties.                                                             *)
(***************************************************************************)
(* A call is listed once, by a pointer to an allocated block, and no block *)
(* is allocated that is not listed.                                        *)
ListSound ==
  /\ Listed = {p \in Ptr : info[p] # Freed}
  /\ \A i, j \in 1 .. len : i # j => info[pdata[i]].id # info[pdata[j]].id

(* Once the indications are handled, ofono knows exactly the calls the     *)
(* modem has, in the state it gave them last.                              *)
InSyncWhenHandled ==
  (inbox = <<>> /\ emitting = Null) =>
    known = {[id |-> id, state |-> modem[id]] :
               id \in {c \in CallId : modem[c] \notin {"idle", "unreported"}}}

(* No change of the list goes unannounced. *)
NoSilentChange == emitting = Null => known = Calls

(* A call leaves ofono's list only after the disconnect signal was emitted *)
(* for it.                                                                 *)
LeavesByDisconnect ==
  [][\A c \in known : (\A d \in known' : d.id # c.id) =>
        emitting # Null /\ info[emitting].id = c.id]_vars

(* The state DISCONNECTED is for internal use only: ofono never finds it   *)
(* in the list.                                                            *)
DisconnectedIsInternal == \A c \in Calls : c.state # "disconnected"

(* The array get_calls returns ends with NULL, as the one it returns when  *)
(* there is no call.                                                       *)
ListTerminated == len > 0 => pdata[len + 1] = Null

(* Under this reading of the list the component implements CallContract:   *)
(* ofono sees one call change at a time, never in the internal state, and  *)
(* a call leaves only by its disconnect signal.                            *)
Seen ==
  [id \in CallId |->
     IF \E c \in known : c.id = id THEN (CHOOSE c \in known : c.id = id).state ELSE "absent"]

EndingCall == IF emitting = Null THEN Null ELSE info[emitting].id

Contract ==
  INSTANCE CallContract WITH
    Shown <- State \ {"disconnected"}, Absent <- "absent", Nobody <- Null,
    seen <- Seen, ending <- EndingCall

ContractSpec == Contract!Spec

(* A call the modem ended disappears from ofono's list, unless its id is   *)
(* used again.                                                             *)
EndedCallsLeave ==
  \A id \in CallId :
    (modem[id] = "idle") ~> (modem[id] # "idle" \/ \A c \in known : c.id # id)
=============================================================================
