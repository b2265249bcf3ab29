# Verification of ofono-binder-plugin-ext-mtk

The plugin connects ofono's binder plugin to the IMS services of MediaTek
modems: it turns ofono's IMS, call and SMS interfaces into requests of the
binder service `IMtkRadioEx`, and the modem's indications into ofono's state.
Almost everything in it is callbacks on one GLib main loop, raw pointers handed
to lower layers, and reference counts. This directory models that in TLA+,
checks the models with TLC on small instances, and proves with TLAPS that the
safety properties hold for all instances.

File names below are relative to `src/src/`.

## The system

| Part | Source | State | Operations |
|---|---|---|---|
| Request layer | `mtk_radio_ext.c` 87-101, 146-153, 880-1074, 1241-1516 | table of pending requests by serial, heap blocks, gbinder transactions, one serial counter for the process | submit (accepted or refused), cancel, sent callback, response handler, setCallIndication |
| Connection | `mtk_radio_ext.c` 1076-1132, 1196-1240 | binder objects, the callback objects the service was given | new, create, finalize |
| Indication dispatch | `mtk_radio_ext.c` 314-878 | none | one handler for each of 19 codes, 4 with an effect |
| IMS registration | `mtk_ims.c` | `ims_state`, reference count, `NMInfo` | set_registration, cancel, get_state, two indication handlers |
| IMS call list | `mtk_ims_call.c` 165-277 | `GPtrArray` of calls | callInfo handler, get_calls |
| IMS call requests | `mtk_ims_call.c` 90-163, 279-420 | reference counted request blocks, `id_map` | dial, hangup, cancel; answer, swap, conference, send_dtmf only log |
| IMS SMS | `mtk_ims_sms.c` | reference counted request blocks | send; the rest only logs |
| NetworkManager monitor | `nm_dbus.c` | `NMInfo`: two D-Bus proxies | nm_initialize, two signal handlers, nm_info_free |
| Slot | `mtk_slot.c` | pointers to the objects above | new, get_interface, shutdown, finalize |
| Plugin, extension class | `mtk_plugin.c`, `mtk_ext.c` | the registered extension | init, exit, new slot |
| Helpers | `binder_util.c`, `binder_types.h` | none | conversions taken over from ofono-binder-plugin |

How they interact:

- ofono calls the three interfaces; each call wraps ofono's `complete`,
  `destroy` and `user_data` into a request block and hands that block, as
  `user_data` again, to the request layer (registration, SMS) or to
  libgbinder-radio (dial).
- The request layer puts each request into its table under a fresh serial and
  sends a oneway binder transaction. The modem answers later, by a call of a
  response object; the answer finds its request by the serial.
- Indications reach `mtk_radio_ext_indication`, which emits GObject signals;
  `mtk_ims.c` and `mtk_ims_call.c` listen to them and signal ofono in turn. An
  offered call is answered with setCallIndication, without ofono.
- set_registration also starts the NetworkManager monitor, whose callback
  gives the modem the Wi-Fi address.
- The service keeps one set of callback objects for each of its two
  interfaces. They belong to the slot that was created last, and outlive it.

What is hard here:

- **re-entrant callbacks**: `complete()` runs with the request still in the
  table, and ofono may cancel, submit or shut down from within it; the same
  holds for the disconnect signal of a call, emitted with the call still listed;
- **raw pointers**: the reply callback of a transaction writes to its request
  without a lookup; signal handlers are never disconnected;
- **order**: an answer, the sent callback and a cancel come in any order;
  indications queue up while ids are used again; old addresses and new ones
  are on their way together;
- **partial failure**: a refused transaction is undone by the layer that
  refused it, and sometimes once more by its caller; a refused subscription,
  setCallIndication or setWifiIpAddress is not noticed at all;
- **messages of another firmware**: an indication may lack what its handler
  reads;
- **lifetimes**: a slot gives back one of its four objects; the service may
  die and start again with requests unanswered;
- **identifiers**: the serial counter is 32 bits wide and shared by the slots;
  a dial has the constant id 1.

What makes each component correct:

| Part | Properties |
|---|---|
| Request layer | table, heap and transactions agree; complete at most once, destroy exactly once; an answer reaches its own request; every request is released |
| Connection, slot | every reference is accounted for; what the service calls back and what a request points to is alive; an answer does not reach another slot's request; what is given up is freed |
| Indication dispatch | a damaged message is not taken for something else; every offered call is allowed, once, and no other |
| IMS registration | it lives as long as somebody uses it; ofono knows the state the modem reported last; a completed registration is in force in the modem |
| IMS call list | each call listed once by a valid pointer; ofono knows the modem's calls; no silent change; a call leaves by the disconnect signal |
| Call and SMS requests | a callback always finds its block; ofono gets the contract of the request layer; what a misdirected cancel may cost |
| NetworkManager monitor | the modem ends with the device's address; forgotten proxies are bounded and harmless while `NMInfo` lives |

## Modules

| Module | Models |
|---|---|
| `RequestContract` | abstract specification: what a layer that takes a (complete, destroy, user_data) triple promises |
| `CallContract` | abstract specification: what ofono is told of the calls, signal by signal |
| `RadioExt` | the request layer |
| `ImsRequests` | dial, hangup, cancel and SMS, above the request layer and libgbinder-radio |
| `ImsRegistration` | `mtk_ims.c` and the slot's reference to it |
| `ImsCall` | the call list of `mtk_ims_call.c` |
| `NmDbus` | `nm_dbus.c` |
| `IndicationDispatch` | `mtk_radio_ext_indication`, its handlers, and what they make ofono and the modem do |
| `SlotLifecycle` | the plugin, the slots of one radio, their objects and references, the connection to the service |
| `WifiRegistration` | `ImsRegistration`'s set_registration and `NmDbus` together, on the way to one modem |
| `...Proofs` | theorems about the module of that name |
| `MC...` | instances for TLC |

Composition. The modules meet at three places.

- `RequestContract` sits between the layers of requests. `RadioExt` implements
  it for its callers; `ImsRegistration` and `ImsRequests` assume it of the
  layer below (a user_data they submit is completed at most once and then
  destroyed, a refused one is destroyed at once) and implement it again for
  ofono. All three refinements are properties of runs (`ContractSpec`) and
  theorems (`ImplementsContract`).
- `CallContract` sits between the dispatch of indications and the call list.
  `ImsCall`, with its array, its blocks and the two halves of a disconnect,
  implements it; `IndicationDispatch` instantiates it and takes the call list
  at what it promises. The refinement maps the calls ofono read last to `seen`
  and the call whose disconnect signal is being emitted to `ending`.
- `WifiRegistration` EXTENDS `NmDbus`, and is its instance for TLC: its actions are `NmDbus`'s, joined with
  the requests they put on the way to the modem, and with the registration
  that starts the monitor and whose end frees it. `SlotLifecycle` composes the
  references of all objects of a slot; what a single request does there is in
  the modules above, as its comments say.

Operators named `...Swapped`, `...Keeps`, `...First` and so on, introduced as a
"mutated form", are plausible mistakes in the operator they are named after.
They are not part of any specification; they serve to see that a property
fails when the code is changed that way.

### RadioExt

State: `lastId` (`mtk_radio_ext_new_req_id`), `requests` (the hash table),
`heap` (the request block at each address, or freed), `txs` (the user_data
gbinder holds for the reply of each transaction), `wire` (answers the modem
owes), `calls` (what each user_data has seen), `dispatching` (the serial whose
`complete()` is running).

| Action | Code |
|---|---|
| `SubmitAccepted`, `SubmitRefused` | `request_alloc`, `submit_request`, `result_request_submit`, `send_ims_sms_ex`: allocate, insert (an entry in the way is destroyed), send; if refused, remove again |
| `Cancel` | `mtk_radio_ext_cancel` |
| `RequestSent` | `request_sent`, run by gbinder when the transaction is done |
| `ResponseBegin`, `ResponseEnd` | `mtk_radio_ext_response`, split at `complete()` |
| `ResponseFailed`, `ResponseIgnored` | its other branches |
| `HandleIncomingCallIndication` | setCallIndication, which uses a serial without a request |
| `OtherSlotRequest` | another slot takes a serial |
| `AnswerLost` | the modem never answers |

Between `ResponseBegin` and `ResponseEnd` only API calls happen, since the
main loop is not run from a callback. A user_data of a request that completed
is not handed in again until it was destroyed (`CallerMaySubmit`).

### ImsRequests

State: the request block, its `ref_count` and ofono's callbacks for each
user_data, the references to the `MtkImsCall`, the pending `RadioRequest`s, and
the table of the request layer by serial, which requests without callbacks
(hangup, those of a registration) share. `CancelDial` is
`mtk_ims_call_cancel` with the id 1 that `mtk_ims_call_dial` returns. The
block of a refused dial or SMS is unreferenced twice; this is undefined
behaviour and ends the model (`broken`).

### ImsRegistration

State: the slot's reference and the reference count, the result requests,
ofono's callbacks, `ims_state` and what ofono knows of it, indications on their
way, the oneway requests on their way, and the modem's configuration: features
it has staged until one is marked `isLast`, and settings it uses.
`SetRegistration` sends the whole batch (feature, Wi-Fi feature, Wi-Fi state,
setImsEnabled) and any part of it may be refused. `Destroy` is also what ofono
sees when another request takes the serial, or a misdirected cancel hits it:
the request layer then ends the request without an answer.
`HandleIndicationDangling` is an indication handler that runs after the
`MtkIms` was finalized.

### ImsCall

State: the array with its spare slots, the blocks, the call whose disconnect
signal is being emitted, the indications on their way, the modem's calls and
the calls ofono saw last. `DisconnectBegin` and `DisconnectEnd` are
`mtk_ims_call_handle_call_info` before and after the disconnect signal;
`HandleCallInfo` and `IgnoreCallInfo` are its other paths.

### IndicationDispatch

State: the indications that wait, ofono's view of calls (through
`CallContract`) and registration, the setCallIndication transactions on their
way, the status the dispatch answered last, and the modem: its calls, the
offers it has made with their sequence numbers, its registration. A message has
a shape: whole; without even the indication type; cut, so that a later read
fails; or a callInfo of six strings.

| Action | Code |
|---|---|
| `Dispatch` | `mtk_radio_ext_indication` with a type and a code it knows, and the handler: `HandleIncomingCall`, `HandleCallInfo` (with `mtk_ims_call_handle_call_info`), `HandleRegStatus`, `HandleRegInfo`, `HandleImsRegInfo`, `HandleLogged` for the rest |
| `Reject` | its other ways out, which answer `GBINDER_STATUS_FAILED` |
| `DisconnectHandled` | the end of the disconnect signal |
| the others | the modem: offers, answers taken, calls, registration |

`damaged` and `unheard` are history variables: whose last report was not whole,
and whose last offer cannot be answered (it was not readable, or gbinder
refused the setCallIndication). Three reads of the code are undefined for some
shapes; they end the model (`broken`).

### SlotLifecycle

State: for each slot its phase, whether it still has its `MtkIms`, the
reference counts of its four objects, the interfaces ofono holds, the dials
the radio has not answered; `last_id`, the pending requests, the service with
the callback objects it has for each interface, what it owes and what it has
sent.

| Action | Code |
|---|---|
| `PluginInit`, `PluginExit` | `mtk_plugin.c` with `mtk_ext_new` |
| `NewSlot` | `mtk_ext_new_slot`, `mtk_slot_new`, `mtk_radio_ext_new` and `create`, the constructors; without the service a slot has no objects. Either subscription may fail |
| `TakeInterface`, `DropInterface` | `mtk_slot_get_interface` and ofono's references |
| `Shutdown`, `FreeSlot` | `mtk_slot_shutdown`, `mtk_slot_finalize`, both with `mtk_slot_terminate` |
| `Submit`, `DeliverAnswer` | a registration, whose request holds a reference to the `MtkIms` until it ends, or an SMS, whose request has a bare pointer to the `MtkImsSms` |
| `Dial`, `DialEnds` | a dial, which holds a reference to the `MtkImsCall` until the radio answers or fails |
| `CancelDial` | `mtk_ims_call_cancel` of a pending dial, which removes the slot's request with serial 1, whatever it is |
| `DeliverIndication` | the signal handlers of the objects, which are never disconnected |
| `Answer`, `Indicate`, `ServiceDies`, `ServiceStarts` | the service |

`Unref` runs finalize of an object at its last reference, which gives back the
reference to the `MtkRadioExt`. A slot clears its `MtkIms` alone, so the other
three objects of a slot are never finalized; that is what keeps the pointer of
a pending SMS, and the pointers of the callback objects, good.

### NmDbus

State: NetworkManager's configuration, signals with the proxies that will see
them, the proxies, `NMInfo`, the address that the callback was given last.
`Initialize` is `nm_initialize` with `find_iface`; it clears `NMInfo` without
releasing what was there. It may find no system bus: then `NMInfo` has neither
a connection nor a callback, and a proxy that was forgotten still runs its
handler but creates nothing and sends nothing (`HandleSignalWithoutBus`).
`HandleSignalFreed` is such a handler after the `MtkIms` was finalized.

### WifiRegistration

State: that of `NmDbus`, where `modem` is the address the callback was given
last, and besides it the slot's reference, the registrations that hold one, the
requests on their way (`setWifiEnabled`, `setWifiIpAddress`, `setImsEnabled`),
and what the modem uses. `SetRegistration` runs `Initialize` between
setWifiEnabled and setImsEnabled, and puts the address that it found between
them; `Monitor` is a signal handler together with the address it sends;
`Release` is a reference given up, with `nm_info_free` at the last.
setWifiEnabled and each setWifiIpAddress may be refused (`Submitted`), which
`mtk_ims.c` does not look at; `refused` is a history variable that says whether
the address given to the callback last was. With two device proxies one signal
sets the configuration up twice; `Given` says whether the callback was called
at all when the last of these attempts failed. A refused setImsEnabled is in
`ImsRegistration`.

## Runs

| Run | Checks | Shows |
|---|---|---|
| `radio_ext` | `TypeOK`, `TableSound`, `TxOwned`, `CallbackContract`, `CompletedInDispatch`, `ContractSpec` | the request layer is sound over all interleavings, with lost answers, and when the serial counter wraps around |
| `radio_ext_live` | `AnswersOwnRequest`, `EveryRequestReleased` | before it wraps an answer finds its own request only; with a modem that answers, every user_data is released |
| `radio_ext_wifi` | `NoAnswerRejected` (fails) | see finding 1 |
| `ims_requests` | `TypeOK`, `BlocksSound`, `ContractSpec`, `OnlyFirstRequestLost` | block lifetimes, ofono's contract, the reach of a misdirected cancel |
| `ims_registration` | `TypeOK`, `AliveWhileUsed`, `InSyncWhenHandled`, `ConfiguredWhenCompleted`, `ContractSpec` | lifetime, state, configuration and contract of a registration |
| `ims_cancel` | `CancelEndsOperation` (fails) | see finding 4 |
| `ims_call` | `TypeOK`, `ListSound`, `InSyncWhenHandled`, `NoSilentChange`, `ContractSpec`, `EndedCallsLeave` | the call list, that it implements `CallContract` (so that no call leaves without its disconnect signal), and that ended calls disappear |
| `ims_call_internal` | `DisconnectedIsInternal` (fails) | see finding 3 |
| `ims_call_terminated` | `ListTerminated` (fails) | see finding 2 |
| `indications` | `TypeOK`, `OnlyDamagedDiffer`, `AllowsMatchOffers`, `NoOfferForgotten` | what cannot be read changes nothing but what it spoke of, and not for longer than until the next report; every setCallIndication allows the call that was offered, once; no offer is left without one but for the two known reasons |
| `slots` | `TypeOK`, `RefsAccounted`, `RequestsHaveTarget`, `CallbacksHaveTarget`, `AnswersStayInTheirSlot`, `StrandedOnlyByTakeover`, `GivenUpImsFreed` | references, callbacks and requests of two slots, over the end of the first and of the service, with dials and their misdirected cancel; an `MtkIms` that was given up is freed, unless an answer cannot come any more |
| `wifi` | `InSyncWhenHandled` and `ProxiesBounded` of `NmDbus`; `WifiTypeOK` (which has `NmDbus`'s `TypeOK`), `MonitorFreedLast`, `FollowsDevice`, `FreshWhenCompleted` | the monitor follows the device, however often it was initialized; the address is with the modem before ofono is told, unless it was refused, and is the right one when all has arrived, with old addresses on their way too, unless the last was refused; when the monitor can run on freed memory |

Each module's comments state its properties in full.

### Bounds

- `RadioExt`: two user_data, since the hazards are between the request that is
  handled and one other; three blocks, so that a freed block is used again
  while two are pending, and a request without user_data fits in; two
  transaction ids, which are used again at once. `MaxId` serials are used, of
  `IdSpace`; with `MaxId < IdSpace` the counter does not wrap. `radio_ext` has
  `IdSpace = 3`, `MaxId = 3`, so the counter wraps without end, serial 0
  included, and two requests fit before it does. `radio_ext_live` uses four
  serials and does not wrap: an answer reaches another request after a wrap,
  and serial 0 is never answered. `MaxWire` bounds the answers owed. Kinds of
  requests: one whose answer fits and one whose answer does not
  (`setWifiEnabled`), or two that differ in their answers.
- `ImsRequests`: three user_data, so that a dial, an SMS in its `complete()`
  and another request meet; five serials.
- `ImsRegistration`: two user_data, so that a second registration overtakes
  the first; `MaxSent = 4` holds the whole batch with Wi-Fi, or two without;
  `MaxInbox = 2` indications, of which each kind of handler has one.
- `ImsCall`: two call ids, one more slot than calls, a block for each; up to
  three indications queue up, enough for a call to end and its id to start
  again before anything is handled.
- `IndicationDispatch`: every shape; two calls and two offers, so that the id of
  a call that gave up is offered again, or another call is, while the first
  answer is on its way; the registration the modem reports differs from the one
  assumed at the start, and a `regInfo` that cannot be read undoes it, so that a
  damaged report is followed by another damaged, a whole, or no report. A call
  is shown or not: its states are those of `ImsCall`.
- `SlotLifecycle`: two slots, so that one takes over from another; two requests
  (one of each kind, or of each slot), so that a dial's cancel can hit the first
  and leave the second; one dial for each slot (`MaxDials`), since another only
  counts once more; `MaxTaken = 2` interfaces held and slots dialled on at once,
  enough for a dial next to a registration or an SMS, or for two slots; one
  indication waiting (`MaxMail`), next to any number of answers. `Callbacks` has
  the one of the two sets of callback objects that answers come by; the theorems
  allow both.
- `NmDbus` and `WifiRegistration`: two initializations and registrations, so
  that there is a forgotten pair of proxies, four proxies for that, two
  configurations and addresses; two signals; three network changes; six
  requests, two batches. Each of the transactions may be refused, and either
  initialization may find no bus, no device, or no configuration.

Blocks, user_data, ids, proxies and addresses are only compared, so their
permutations are symmetries; the runs with liveness do not use symmetry.
`CHECK_DEADLOCK FALSE` is given where the bounds (serials, initializations,
slots, offers) or undefined behaviour end a behaviour; `ImsCall` is checked for
deadlock.

### Fairness

- `radio_ext_live` assumes that the main loop returns from a callback
  (`WF(ResponseEnd)`) and that each answer the modem owes arrives and is handled
  (weak fairness by serial, `Lossy = FALSE`). The second is an assumption about
  the modem: without answers a request stays for ever, since
  `MTK_RADIO_CALL_TIMEOUT` is not used. No fairness is assumed of callers,
  cancels or the sent callback.
- `ims_call`: weak fairness of the main loop's handler alone.
- `slots`: the service answers, if it has something to answer, and the
  main loop delivers answers. Neither ofono nor the slot is assumed to do
  anything, and the service may die at any time: the property speaks of an
  `MtkIms` that was given up, and excepts the requests whose answers are lost.
- None elsewhere. `FollowsDevice` and `NoOfferForgotten` are stated of the states
  in which nothing is on its way, instead: nothing but the delivery of messages
  is needed for them to be reached.

### Findings

1. `mtk_radio_ext.c:1391` says that the response to setWifiEnabled is in an
   interface that is not subscribed to; `mtk_radio_ext_create` does subscribe
   to it. The answers arrive, are rejected as failures, and the requests stay
   in the table.
2. `get_calls` returns a list without a length. With no call it is ended by
   NULL; with calls its end is whatever the array holds there.
3. The call state DISCONNECTED, "internal use only", is visible to ofono while
   the disconnect signal is emitted.
4. `mtk_ims_cancel`, described as cancelling the pending operation, only logs;
   the operation completes.

What else the models meet on the way, and where it ends them: a refused
setImsEnabled frees its request twice (`mtk_ims.c:285`), and so does a refused
dial or SMS (`mtk_ims_call.c:332`, `mtk_ims_sms.c:188`); a callInfoIndication of
six strings passes the check for its length, and the seventh, the number of a
new call, is NULL (`mtk_radio_ext.c:387`); an imsRegStatusReport
that cannot be read is used all the same (`mtk_radio_ext.c:449`), and
imsRegInfoInd reads seven elements of a vector of any length (620). An
indication after the slot has shut down runs on a freed `MtkIms`
(`AliveWhileUsed` shows that it takes that), and so does a NetworkManager signal
after a second initialization (`FreedOnlyUsedAfterReinit`, `MonitorFreedLast`).
The call and SMS objects and the `MtkRadioExt` of a slot are never freed
(`RefsAccounted` counts the reference the slot keeps), which is why the
callbacks of the service always find a living object (`CallbacksHaveTarget`)
and the request of an SMS, which takes no reference (`mtk_ims_sms.c:94`), its
`MtkImsSms` (`RequestsHaveTarget`): giving them back without disconnecting the
service and without a reference in the request would break both, as their
mutant shows. A refused setWifiIpAddress is ignored (`mtk_ims.c:210`): ofono may
be told that the registration is done while the modem has no address, or an old
one, which is why `FreshWhenCompleted` and `FollowsDevice` except the refused
address.

## Proofs

All theorems hold for every value of the constants; the assumptions are the
named `ASSUME`s of the modules (the constants that stand for NULL are not
members, the numbers are natural, `Token` of `ImsRequests`, `CallId` of
`ImsCall` and `Proxy` are finite). Every safety property of a passing run is a
theorem. Three more kinds of theorems go beyond the runs: the safety half of a
liveness property (what must be on its way for it to hold); the exact extent of
a finding (what the undefined or undesired behaviour is limited to); and what
holds when the firmware behaves as the code expects.

**RadioExt** (`RadioExtProofs`). `TypeCorrect`, `TableSoundness`,
`TxOwnership`, `CallbacksRespectContract`, `CompletedOnlyInDispatch`,
`ImplementsContract`, `AnswersReachTheirRequest`. The inductive invariant is
`TypeOK /\ TableSound /\ TxOwned /\ CallbackContract /\ CompletedInDispatch`.
No part stands alone: `TxOwned` needs the table to know that a removed block
was live; `CallbackContract` needs `CompletedInDispatch`, or an answer could
complete a request twice; that one needs the table, to know that the request
being handled is the one at `dispatching`. The proof has a lemma for each kind
of step (remove a set of requests, submit, refuse, respond), each of which also
gives the step of the callbacks that the refinement needs. None of this
assumes anything about the serial counter.

Whether an answer finds the request it was sent for does depend on it.
`AnswersReachTheirRequestAfterWrap` assumes no more than that no serial is used
again while a request or an answer bears it (`OnlyFreeSerials`), also when the
counter has wrapped; its invariant is `OwnAnswers`, that whatever bears the
serial of a pending request was sent for it. Without a wrap
(`MaxId < IdSpace`) serials are free because all that are in use are between 1
and `lastId` (`SerialsBounded`), which gives `AnswersReachTheirRequest`.
`OnlyUnexpectedRejected` is the extent of finding 1: before the counter wraps, no
answer but those of setWifiEnabled and setWifiIpAddress is rejected. So callers that make
neither have none rejected (`NoneRejectedWithoutWifi`: what `radio_ext_wifi`
refutes holds of all others). `NothingStrandedAlways` is the safety half of
`EveryRequestReleased`: each request in the table has an accepted answer on its
way, or is being ended (it assumes that the modem answers, that the counter has
not wrapped, and that no wifi request is made); its invariant is `AllAnswered`.

**ImsRequests** (`ImsRequestsProofs`). `TypeCorrect`, `BlocksSoundness`,
`ImplementsContract`, `OnlyFirstIsLost`. `BlocksSound` needs `SerialsFresh`
(serials not used yet are vacant, so nothing is overwritten) and `InsideSound`:
the entry at the serial whose `complete()` is running is its own or vacant,
also when ofono has cancelled it from within and used the user_data again, and
only such a block is completed. `OnlyFirstIsLost` follows by going through the
steps: each other step that releases a block releases a completed one.
`DialsAlwaysComplete` is the other side: the block of a dial never goes away
before its `complete()`, so no cancel ever cancels a dial.

**ImsCall** (`ImsCallProofs`). `TypeCorrect`, `ListSoundness`,
`ChangesAnnounced`, `CallsLeaveByDisconnect`, `ImplementsContract`,
`InSyncAlways`. The invariant adds that the call being disconnected is listed
and that all ids are known ones; that a block and a slot are free for a new
call is a counting argument over the ids. The refinement needs `OthersKnown`:
while a disconnect signal is emitted every other call is as ofono saw it last.
`InSyncAlways` needs an invariant over the waiting indications (`SyncInv`): the
last one of a call that says something of it tells how the modem has it, and
if none does, ofono knows. `DisconnectedOnlyWhileSignalled` is the extent of
finding 3: the internal state is in the list only while the disconnect signal
is emitted, and only at the call it is about; ofono never has it from a
calls-changed signal (`DisconnectedNeverAnnounced`). `EndedCallsAreLeaving` is
the safety half of `EndedCallsLeave`: a call that has ended and that ofono still
knows has the indication that ends it waiting, or its signal is being emitted;
its invariant `EndsInv` adds that no indication of such a call comes after the
one that ends it.

**ImsRegistration** (`ImsRegistrationProofs`). `TypeCorrect`,
`AliveWhileUsedAlways`, `InSyncAlways`, `ConfiguredAlways`,
`ImplementsContract`. The reference count is the slot's and one for each
request that is not over (`RefsCounted`, a cardinality). `ConfiguredAlways`
needs to know what is still on the way: `BatchFollows` says that the modem's
settings, once everything before the setImsEnabled of the last registration is
taken, are those asked for, and `CompletedLast` carries that over to the answer
and the callback.

**IndicationDispatch** (`IndicationDispatchProofs`). `TypeCorrect`,
`AllowsMatchAlways`, `NoOfferForgottenAlways`,
`OnlyDamagedDifferAlways`. Each needs an invariant of its own over what waits:
`OffersSound`, that a sequence number is in one waiting offer or one waiting
answer, and is that of the call it names; `OffersOnTheirWay`, that an offered
call has its last offer, or the answer to it, on the way, or is `unheard`;
`CallsFollow` and `RegistrationFollows`, as in `ImsCall`, for the calls and the
registration whose last report was whole. With `Shapes = {"whole"}`, when firmware and code agree on the
arguments, nothing is lost (`NothingLost`): `WholeMessagesKeepInSync` says that
no undefined behaviour is reached and that ofono is in step once everything is
handled, `WholeOffersAreAnswered` that each offered call has its indication or
its answer on the way, unless gbinder refuses the transaction.

**SlotLifecycle** (`SlotLifecycleProofs`). `TypeCorrect`,
`RefsAccountedAlways`, `CallbacksHaveTargetAlways`, `AnswersStay`,
`StrandedAlways`. The invariant says that every slot that has objects was
created, and that one without objects holds nothing (`SlotsMade`); counts the references
(`Counted`); that everything that points to a slot's callbacks points to one
with a `MtkRadioExt` (`Targets`); and that a serial is in at most one place
(`SerialsOnce`), which is what keeps the answers of two slots apart. From the
counts follows that an object without references has no holder left
(`FreedHasNoHolder`). So what a pending request or dial points to is alive
(`RequestsKeepTheirObject`: a registration's and a dial's object by the
reference they took, an SMS's because the slot's own reference is never given
back), no freed object is referenced or unreferenced again
(`FreedForGood`), and an `MtkIms` that slot and ofono have given up is held by its
requests alone (`GivenUpImsHeldByRequests`, the safety half of
`GivenUpImsFreed`). `OnlyGivenUpImsUsed` is the extent of the use after free: an
indication runs on the `MtkIms` of a slot that was shut down or freed, never on
its call object or `MtkRadioExt`. A request that lost its callbacks is never
answered (`StrandedForGood`): it stays in the table, and a registration keeps
its `MtkIms` referenced, unless the cancel of a dial removes it as the one with
serial 1. That is why the liveness property excepts it.

**NmDbus** (`NmDbusProofs`). `TypeCorrect`, `InSyncAlways`,
`ProxiesBoundedAlways`, `FreedAfterReinit`. `InSyncAlways` needs four facts of
the signals on their way: they go to proxies of the object that emitted them
(`Addressed`), a proxy that sees one sees the later ones of that object
(`NoneMissed`), the last one of an object tells how it is (`LastIsTrue`), and a
device signal is still to come for the proxies of a configuration that is not
in use any more (`DevicesStay`). With `Follows`, that `NMInfo` has the current
configuration or will get it, the address of the last signal is the device's.
An `NMInfo` without a bus has no proxies (`PointersInv`), and nothing that a
forgotten proxy then does changes what the callback was given
(`WithoutBusEffect`).
`ForgottenForGood`: what a second initialization leaves behind is never
released; `FreedUsedByForgotten`: a freed `NMInfo` is used through that alone.

**WifiRegistration** (`WifiRegistrationProofs`). `WifiTypeCorrect`,
`MonitorIsNmDbus`, `MonitorFreedLastAlways`, `FollowsDeviceAlways`,
`FreshAlways`. Its steps are steps of `NmDbus` or leave the monitor alone
(`MonitorIsNmDbus`), so the invariant of `NmDbus` holds and its theorems are
theorems of `WifiSpec`. `FollowsDeviceAlways` adds that the last address handed
over, unless it was refused, is in use or the last one sent (`LastHandedOver`):
that a refusal before it changes nothing is what is to be shown. `FreshAlways`
needs what the first nm_initialize starts from (`NothingSent`, and no proxies,
so that no signal from before reaches anybody), that every address used, sent or
about to be read is one the device had since then (`Recent`), and that one goes
before the setImsEnabled, if it is not refused (`AddressFirst`). `MonitorFreedLastAlways` follows from
`FreedWithIms`, which ties `NMInfo` to the references, and from the proxies that
each nm_initialize leaves behind. `RegistrationLeaksForGood` carries
`ForgottenForGood` over to registrations.

Only model-checked: the liveness properties `EveryRequestReleased`,
`EndedCallsLeave` and `GivenUpImsFreed`, since fairness and ENABLED are out of
the prover's reach. Their safety halves above say that nothing but the delivery
of a message that is already on its way, and the main loop's turn, is missing.

## Assumptions about the environment

- Everything of the plugin runs on the GLib main loop; a callback does not run
  the loop again.
- Oneway transactions are delivered in order. gbinder runs the reply callback
  of a transaction at most once and not after it was cancelled.
- The modem stages features until one comes with `isLast`, and then uses them
  (the reading of the parameter that the code in `set_registration` implies).
- It holds an incoming call back until setCallIndication allows it, by its id
  and sequence number, and numbers its offers one after the other.
- The service calls the callback objects it was given last for an interface,
  and forgets them when it dies.
- The property `wifi.interface` does not change after boot.
- ofono passes a `complete` and a `destroy` (a registration may have no
  `complete`), frees nothing it has handed over, and cancels what is pending.
  It drops a slot before it creates another for the same radio.
- A `RadioRequest` calls its destroy function once, with its last reference.
- NetworkManager changes only the address of the configuration in use.
- Undefined behaviour ends the model. Nothing is said of what follows.

## Not modelled

- Handlers and interface functions that only log, except as one kind of
  indication.
- Layout of HIDL messages and D-Bus values, SMS encoding, names, logging: data.
  What the parsing of indications may miss is in `IndicationDispatch` as the
  shape of a message.
- `binder_util.c`: stateless conversions of ofono-binder-plugin, which the
  plugin does not call, but for copying and appending a string.
- The value of the disconnect reason that ofono reads from a pointer
  (`mtk_ims_call.c:554`), and what libgbinder-radio makes of a dial that times
  out (160): both are listed as hazards without a property.

## Plan

Done: the modules above, with all components that keep state, and theorems for
every safety property that a passing run checks, for the safety half of each
liveness property, and for the extent of the findings 1 and 3 and of the uses
after free.

Left: nothing of the state the plugin keeps. What the code does with the
values of messages and D-Bus properties (lengths, layout, number formats) stays
out, as said above; a theorem of the liveness properties would take a prover
with fairness and ENABLED.
