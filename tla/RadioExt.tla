------------------------------ MODULE RadioExt ------------------------------
(***************************************************************************)
(* The request layer of mtk_radio_ext.c: serial numbers, the table of      *)
(* pending requests, their heap blocks, the gbinder transactions that      *)
(* carry them, the answers of the modem and the callbacks of the callers.  *)
(*                                                                         *)
(* Everything runs on the GLib main loop, so an action is one main loop    *)
(* callback or one API call.  The exception is the callback complete(),    *)
(* which may call back into the API before the response handler removes    *)
(* the request: the handler is two actions, ResponseBegin and ResponseEnd, *)
(* and only API calls may come between them.                               *)
(***************************************************************************)
EXTENDS Naturals, FiniteSets

CONSTANTS
  Addr,      \* heap blocks that can hold a MtkRadioExtRequest; a freed block may be reused
  Token,     \* user_data pointers of the callers (complete and destroy come with them)
  Tx,        \* ids of gbinder transactions, never 0; an id may be reused once it is finished
  Kinds,     \* the requests the callers make, a subset of DOMAIN ResponseCode
  IdSpace,   \* number of values of the guint last_id: 2^32 in the code
  MaxId,     \* bound on last_id; IdSpace lets it wrap around without bound
  MaxWire,   \* bound on the answers the modem owes at any time
  Lossy,     \* whether the modem may never answer (or the transaction never run)
  NoAddr,    \* NULL, for a MtkRadioExtRequest*
  NoTx,      \* 0, for a transaction id
  NoToken    \* NULL user_data, submitted without complete and destroy

ASSUME IdAssumption == IdSpace \in Nat \ {0} /\ MaxId \in Nat

ASSUME NullAssumption ==
  NoAddr \notin Addr /\ NoTx \notin Tx /\ NoToken \notin Token

VARIABLES
  lastId,      \* last_id of mtk_radio_ext_new_req_id, shared by the slots
  requests,    \* self->requests: [Ids -> Addr or NoAddr]
  heap,        \* [Addr -> Request]: the request in each heap block, or Freed
  txs,         \* gbinder: [Tx -> the user_data of the reply callback, or NoAddr if finished]
  wire,        \* the modem: answers it owes, with the request they answer
  calls,       \* [Token -> how often complete and destroy ran since the last submission]
  dispatching  \* serial whose response handler is inside complete(), 0 if none

vars == <<lastId, requests, heap, txs, wire, calls, dispatching>>

(***************************************************************************)
(* Codes.                                                                  *)
(***************************************************************************)
(* Mutated form of ResponseCode: the SMS request waits for the answer of   *)
(* another request.                                                        *)
ResponseCodeOfOther ==
  [setImsEnabled |-> 7, setImsCfg |-> 8, setImsCfgFeatureValue |-> 43,
   hangupAll |-> 1, sendImsSmsEx |-> 1, setWifiEnabled |-> 0, setWifiIpAddress |-> 0]

(* The response_code each request is allocated with. *)
ResponseCode ==
  [setImsEnabled |-> 7, setImsCfg |-> 8, setImsCfgFeatureValue |-> 43,
   hangupAll |-> 1, sendImsSmsEx |-> 39, setWifiEnabled |-> 0, setWifiIpAddress |-> 0]

ASSUME KindsAssumption == Kinds \subseteq DOMAIN ResponseCode

(* The code the modem answers with, on either response interface. *)
AnswerCode ==
  [setImsEnabled |-> 7, setImsCfg |-> 8, setImsCfgFeatureValue |-> 43,
   hangupAll |-> 1, sendImsSmsEx |-> 39, setWifiEnabled |-> 111,
   setWifiIpAddress |-> 113, setCallIndication |-> 2]

Ids == 0 .. IdSpace - 1

(* struct mtk_radio_ext_request; ud and completes stand for destroy,       *)
(* user_data and the complete of the derived MtkRadioExtResultRequest.     *)
Request == [kind : DOMAIN ResponseCode \cup {"freed"}, id : Ids, tx : Tx \cup {NoTx},
            ud : Token \cup {NoToken}, completes : BOOLEAN]

Freed == [kind |-> "freed", id |-> 0, tx |-> NoTx, ud |-> NoToken, completes |-> FALSE]

(* An answer on its way: serial, request it answers, and (a history        *)
(* component the program does not see) the user_data of that request.      *)
Message == [id : Ids, kind : DOMAIN AnswerCode, ud : Token \cup {NoToken}]

Live == {a \in Addr : heap[a].kind # "freed"}

Held(u) == calls[u].destroy = 0

TypeOK ==
  /\ lastId \in Ids
  /\ requests \in [Ids -> Addr \cup {NoAddr}]
  /\ heap \in [Addr -> Request]
  /\ txs \in [Tx -> Addr \cup {NoAddr}]
  /\ wire \subseteq Message
  /\ calls \in [Token -> [complete : Nat, destroy : Nat]]
  /\ dispatching \in Ids

Init ==
  /\ lastId = 0
  /\ requests = [id \in Ids |-> NoAddr]
  /\ heap = [a \in Addr |-> Freed]
  /\ txs = [t \in Tx |-> NoAddr]
  /\ wire = {}
  /\ calls = [u \in Token |-> [complete |-> 0, destroy |-> 1]]
  /\ dispatching = 0

(***************************************************************************)
(* Helpers.                                                                *)
(***************************************************************************)
(* Mutated form of NewReqId: a counter of fewer bits. *)
NewReqIdNarrow == (lastId + 1) % 3

(* mtk_radio_ext_new_req_id: an unsigned increment that wraps to 0. *)
NewReqId == (lastId + 1) % IdSpace

(* The blocks a table key leads to: none or one. *)
Entry(id) == {requests[id]} \ {NoAddr}

(* mtk_radio_ext_request_destroy of the blocks D: cancel the transaction,  *)
(* then default_free: destroy(user_data) and g_free.                       *)
(* Mutated form of CancelTx: gbinder_client_cancel is not called.          *)
CancelTxForgotten(D) == txs

CancelTx(D) ==
  [t \in Tx |-> IF \E a \in D : heap[a].tx = t THEN NoAddr ELSE txs[t]]

DestroyUserData(D) ==
  [u \in Token |-> IF \E a \in D : heap[a].ud = u
                   THEN [calls[u] EXCEPT !.destroy = @ + 1] ELSE calls[u]]

FreeBlocks(D) == [a \in Addr |-> IF a \in D THEN Freed ELSE heap[a]]

(* Mutated form of RemoveRequest: a table without a destroy function.      *)
RemoveRequestUndestroyed(id) ==
  /\ requests' = [requests EXCEPT ![id] = NoAddr]
  /\ UNCHANGED <<txs, calls, heap>>

(* g_hash_table_remove(self->requests, KEY(id)), with the destroy function *)
(* the table was created with.                                             *)
RemoveRequest(id) ==
  /\ requests' = [requests EXCEPT ![id] = NoAddr]
  /\ txs' = CancelTx(Entry(id))
  /\ calls' = DestroyUserData(Entry(id))
  /\ heap' = FreeBlocks(Entry(id))

(* The caller hands over a fresh user_data, of which this layer has called *)
(* nothing yet, and n destroys so far.                                     *)
Start(c, u, n) == [v \in Token |-> IF v = u THEN [complete |-> 0, destroy |-> n] ELSE c[v]]

(* Mutated form of RequestAlloc: id and transaction exchanged.             *)
RequestAllocSwapped(id, k, u, w, t) ==
  [kind |-> k, id |-> t, tx |-> id, ud |-> u, completes |-> w]

(* request_alloc: the block that goes into the table. *)
RequestAlloc(id, k, u, w, t) == [kind |-> k, id |-> id, tx |-> t, ud |-> u, completes |-> w]

(***************************************************************************)
(* API calls, made from the main loop or from within complete().           *)
(***************************************************************************)
(* A caller owns the user_data it submits, and asks for complete() only    *)
(* when it passes one.                                                     *)
CallerMaySubmit(u, w) == IF u = NoToken THEN ~w ELSE ~Held(u)

CanIssue == lastId # MaxId

(* result_request_submit and send_ims_sms_ex when gbinder accepts the      *)
(* transaction.  The insertion destroys a request that still has this key. *)
SubmitAccepted(k, u, w) ==
  /\ CanIssue
  /\ CallerMaySubmit(u, w)
  /\ Cardinality(wire) < MaxWire
  /\ \E a \in Addr \ Live, t \in {t \in Tx : txs[t] = NoAddr} :
       LET id == NewReqId IN
       /\ lastId' = id
       /\ requests' = [requests EXCEPT ![id] = a]
       /\ heap' = [FreeBlocks(Entry(id)) EXCEPT ![a] = RequestAlloc(id, k, u, w, t)]
       /\ txs' = [CancelTx(Entry(id)) EXCEPT ![t] = a]
       /\ calls' = Start(DestroyUserData(Entry(id)), u, 0)
       /\ wire' = wire \cup {[id |-> id, kind |-> k, ud |-> u]}
  /\ UNCHANGED dispatching

(* Mutated form of SubmitRefused: user_data is left to the caller.         *)
SubmitRefusedKeeps(u, w) ==
  /\ CanIssue
  /\ CallerMaySubmit(u, w)
  /\ lastId' = NewReqId
  /\ requests' = [requests EXCEPT ![NewReqId] = NoAddr]
  /\ heap' = FreeBlocks(Entry(NewReqId))
  /\ txs' = CancelTx(Entry(NewReqId))
  /\ calls' = Start(DestroyUserData(Entry(NewReqId)), u, 0)
  /\ UNCHANGED <<wire, dispatching>>

(* The same functions when gbinder_client_transact returns 0: the request  *)
(* has been in the table and is removed again, which destroys user_data.   *)
SubmitRefused(u, w) ==
  /\ CanIssue
  /\ CallerMaySubmit(u, w)
  /\ lastId' = NewReqId
  /\ requests' = [requests EXCEPT ![NewReqId] = NoAddr]
  /\ heap' = FreeBlocks(Entry(NewReqId))
  /\ txs' = CancelTx(Entry(NewReqId))
  /\ calls' = Start(DestroyUserData(Entry(NewReqId)), u, 1)
  /\ UNCHANGED <<wire, dispatching>>

(* mtk_radio_ext_cancel, with whatever id the caller has: ids that are not *)
(* (or no longer) in the table are ignored, and so is 0.                   *)
Cancel(id) ==
  /\ id # 0
  /\ RemoveRequest(id)
  /\ UNCHANGED <<lastId, wire, dispatching>>

(***************************************************************************)
(* Main loop callbacks.                                                    *)
(***************************************************************************)
(* mtk_radio_ext_request_sent: gbinder reports that the oneway transaction *)
(* was sent.  It writes to the request its transaction was started with.   *)
RequestSent(t) ==
  /\ dispatching = 0
  /\ txs[t] # NoAddr
  /\ heap' = [heap EXCEPT ![txs[t]].tx = NoTx]
  /\ txs' = [txs EXCEPT ![t] = NoAddr]
  /\ UNCHANGED <<lastId, requests, wire, calls, dispatching>>

(* The condition under which mtk_radio_ext_response handles an answer. *)
Matches(m) ==
  /\ m.id # 0
  /\ requests[m.id] # NoAddr
  /\ ResponseCode[heap[requests[m.id]].kind] = AnswerCode[m.kind]

(* Mutated form of ResponseBegin: the request is removed, and its          *)
(* user_data destroyed, before complete() is called.                       *)
ResponseRemovesFirst(m) ==
  /\ dispatching = 0
  /\ m \in wire
  /\ Matches(m)
  /\ wire' = wire \ {m}
  /\ requests' = [requests EXCEPT ![m.id] = NoAddr]
  /\ txs' = CancelTx(Entry(m.id))
  /\ heap' = FreeBlocks(Entry(m.id))
  /\ LET req == heap[requests[m.id]] IN
     calls' = [u \in Token |-> IF req.completes /\ req.ud = u
                               THEN [complete |-> 1, destroy |-> 1] ELSE calls[u]]
  /\ UNCHANGED <<lastId, dispatching>>

(* mtk_radio_ext_response up to and including handle_response, that is     *)
(* mtk_radio_ext_result_response: complete(), if there is one.             *)
ResponseBegin(m) ==
  /\ dispatching = 0
  /\ m \in wire
  /\ Matches(m)
  /\ dispatching' = m.id
  /\ wire' = wire \ {m}
  /\ LET req == heap[requests[m.id]] IN
     calls' = [u \in Token |-> IF req.completes /\ req.ud = u
                               THEN [calls[u] EXCEPT !.complete = @ + 1] ELSE calls[u]]
  /\ UNCHANGED <<lastId, requests, heap, txs>>

(* Mutated form of ResponseEnd: the request is left in the table.          *)
ResponseEndKeeps ==
  /\ dispatching # 0
  /\ dispatching' = 0
  /\ UNCHANGED <<lastId, requests, heap, txs, wire, calls>>

(* ... and its end, once complete() has returned: the table entry goes, by *)
(* its serial.                                                             *)
ResponseEnd ==
  /\ dispatching # 0
  /\ RemoveRequest(dispatching)
  /\ dispatching' = 0
  /\ UNCHANGED <<lastId, wire>>

(* mtk_radio_ext_response for an answer with another code than its request *)
(* expects, or whose serial is 0: the status is GBINDER_STATUS_FAILED.     *)
ResponseFails(m) == m.id = 0 \/ (requests[m.id] # NoAddr /\ ~Matches(m))

ResponseFailed(m) ==
  /\ dispatching = 0
  /\ m \in wire
  /\ ResponseFails(m)
  /\ wire' = wire \ {m}
  /\ UNCHANGED <<lastId, requests, heap, txs, calls, dispatching>>

(* mtk_radio_ext_response for an answer whose request is gone, or never    *)
(* was in the table.                                                       *)
ResponseIgnored(m) ==
  /\ dispatching = 0
  /\ m \in wire
  /\ m.id # 0 /\ requests[m.id] = NoAddr
  /\ wire' = wire \ {m}
  /\ UNCHANGED <<lastId, requests, heap, txs, calls, dispatching>>

(* incomingCallIndication: setCallIndication is sent with a serial of its  *)
(* own, but without a request, and its answer will find none.              *)
HandleIncomingCallIndication ==
  /\ dispatching = 0
  /\ CanIssue
  /\ Cardinality(wire) < MaxWire
  /\ lastId' = NewReqId
  /\ wire' = wire \cup {[id |-> NewReqId, kind |-> "setCallIndication", ud |-> NoToken]}
  /\ UNCHANGED <<requests, heap, txs, calls, dispatching>>

(***************************************************************************)
(* Environment.                                                            *)
(***************************************************************************)
(* A request of the other slot's MtkRadioExt takes a serial. *)
OtherSlotRequest ==
  /\ CanIssue
  /\ lastId' = NewReqId
  /\ UNCHANGED <<requests, heap, txs, wire, calls, dispatching>>

(* The modem never answers, the radio service died, or a cancelled         *)
(* transaction was not run.                                                *)
AnswerLost(m) ==
  /\ Lossy
  /\ m \in wire
  /\ wire' = wire \ {m}
  /\ UNCHANGED <<lastId, requests, heap, txs, calls, dispatching>>

Response(m) == ResponseBegin(m) \/ ResponseFailed(m) \/ ResponseIgnored(m)

Next ==
  \/ \E k \in Kinds, u \in Token \cup {NoToken}, w \in BOOLEAN :
       SubmitAccepted(k, u, w)
  \/ \E u \in Token \cup {NoToken}, w \in BOOLEAN : SubmitRefused(u, w)
  \/ \E id \in Ids : Cancel(id)
  \/ \E t \in Tx : RequestSent(t)
  \/ \E m \in wire : Response(m)
  \/ ResponseEnd
  \/ HandleIncomingCallIndication
  \/ OtherSlotRequest
  \/ \E m \in wire : AnswerLost(m)

Spec == Init /\ [][Next]_vars

(* The main loop runs, and dispatches what the modem has answered. *)
Fairness ==
  /\ WF_vars(ResponseEnd)
  /\ \A id \in Ids : WF_vars(\E m \in wire : m.id = id /\ Response(m))

FairSpec == Spec /\ Fairness

(***************************************************************************)
(* Properties.                                                             *)
(***************************************************************************)
(* The table and the heap agree: an entry leads to an allocated request    *)
(* that has the entry's serial, and no allocated request is outside the    *)
(* table (it could then never be released).                                *)
TableSound ==
  /\ \A id \in Ids : requests[id] # NoAddr =>
        requests[id] \in Live /\ heap[requests[id]].id = id
  /\ \A a \in Live : requests[heap[a].id] = a

(* The reply callback of a transaction never writes to a request that is   *)
(* freed or was reused: gbinder's user_data is a live request that knows   *)
(* the transaction; and a request only names a transaction that is its     *)
(* own, so destroying it cancels nobody else's.                            *)
TxOwned ==
  /\ \A t \in Tx : txs[t] # NoAddr => txs[t] \in Live /\ heap[txs[t]].tx = t
  /\ \A a \in Live : heap[a].tx # NoTx => txs[heap[a].tx] = a

(* Callers' callbacks: complete at most once, destroy exactly once, and    *)
(* a user_data is held as long as exactly one request has it.              *)
CallbackContract ==
  /\ \A u \in Token : calls[u].complete <= 1 /\ calls[u].destroy <= 1
  /\ \A u \in Token : Held(u) <=> \E a \in Live : heap[a].ud = u
  /\ \A a, b \in Live : heap[a].ud \in Token /\ heap[a].ud = heap[b].ud => a = b

(* complete() has been called of a user_data that is still held only       *)
(* while the response handler of its own request is inside that call.      *)
CompletedInDispatch ==
  \A a \in Live : heap[a].ud \in Token =>
    \/ calls[heap[a].ud].complete = 0
    \/ dispatching # 0 /\ heap[a].id = dispatching /\ calls[heap[a].ud].complete = 1

(* An answer that finds a request under its serial finds the one it        *)
(* answers, never a later one.                                             *)
AnswersOwnRequest ==
  \A m \in wire : \A a \in Entry(m.id) : heap[a].ud = m.ud /\ heap[a].kind = m.kind

(* The layer implements the contract its callers rely on. *)
PhaseOf(c) ==
  CASE c = [complete |-> 0, destroy |-> 0] -> "pending"
    [] c = [complete |-> 1, destroy |-> 0] -> "completed"
    [] c = [complete |-> 0, destroy |-> 1] -> "released"
    [] c = [complete |-> 1, destroy |-> 1] -> "done"
    [] OTHER -> "broken"

Contract == INSTANCE RequestContract WITH phase <- [u \in Token |-> PhaseOf(calls[u])]

ContractSpec == Contract!Spec

(* No answer to a request of this process is rejected as a failure: the    *)
(* comment in mtk_radio_ext_response keeps that status for a response that *)
(* is not expected, those in set_wifi_enabled and set_wifi_ip_address say  *)
(* that their responses are not subscribed to.                             *)
NoAnswerRejected == [][\A m \in Message : ~ResponseFailed(m)]_vars

(* A user_data is released sooner or later. *)
EveryRequestReleased == \A u \in Token : Held(u) ~> ~Held(u)
=============================================================================
