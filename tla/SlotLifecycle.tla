--------------------------- MODULE SlotLifecycle ---------------------------
(***************************************************************************)
(* The life of the slots that the plugin creates for one radio, one after  *)
(* the other: mtk_plugin.c, mtk_ext.c, mtk_slot.c, the constructors and    *)
(* finalizers of the four objects a slot makes, and the connection of      *)
(* mtk_radio_ext.c with the objects the service calls back.                *)
(*                                                                         *)
(* A slot holds a reference to each of its MtkIms, MtkImsCall, MtkImsSms   *)
(* and MtkRadioExt, the first three hold one to the MtkRadioExt, and ofono *)
(* one to each interface it took.  A registration holds one to the MtkIms  *)
(* until it is answered, a dial one to the MtkImsCall; an SMS keeps its    *)
(* MtkImsSms by a bare pointer.  The service keeps one set of callback     *)
(* objects; a new slot replaces those of the slot before.                  *)
(***************************************************************************)
EXTENDS Integers, FiniteSets

CONSTANTS
  Interfaces,  \* the interfaces that ofono takes
  Callbacks,   \* the sets of callback objects, those of IMS and those of MTK
  MaxGen,      \* bound on the slots created for the radio
  MaxSerial,   \* bound on the requests
  MaxDials,    \* bound on the dials of a slot that are not answered
  MaxTaken,    \* bound on what ofono holds and dials at once
  MaxMail      \* bound on the indications on their way

ASSUME BoundAssumption ==
  /\ MaxGen \in Nat \ {0}
  /\ MaxSerial \in Nat \ {0}
  /\ MaxDials \in Nat /\ MaxTaken \in Nat
  /\ MaxMail \in Nat

Gen == 1 .. MaxGen

Obj == {"ims", "call", "sms"}

ASSUME InterfacesAssumption == Interfaces \subseteq Obj

ASSUME CallbacksAssumption == "ims" \in Callbacks /\ Callbacks \subseteq {"ims", "mtk"}

(* The static unsigned last_id of new_req_id is one for all the slots. *)
Serial == 1 .. MaxSerial

Request == [serial : Serial, gen : Gen, obj : {"ims", "sms"}]

(* What the service has sent to a callback object of slot `to'. *)
Mail ==
  [kind : {"answer"}, to : Gen, request : Request]
    \cup [kind : {"registration", "callInfo"}, to : Gen]

VARIABLES
  plugin,      \* references to the MtkExt that libofonobinderpluginext holds
  slot,        \* [Gen -> "none", "open", "shut" or "freed"]
  slotIms,     \* [Gen -> whether self->ims is set]
  refs,        \* [Gen -> references to each object, 0 if there is none]
  ofono,       \* [Gen -> the interfaces ofono holds a reference to]
  lastId,      \* last_id
  dials,       \* [Gen -> its dials that the radio has not answered]
  pending,     \* requests in the table of their MtkRadioExt
  service,     \* whether the radio service runs
  subscriber,  \* [Callbacks -> the slot whose objects it has, 0 if none]
  atModem,     \* requests it has not answered
  mail,        \* what it has sent and the main loop has not dispatched
  broken       \* 0, or the slot whose freed object was used

vars == <<plugin, slot, slotIms, refs, ofono, lastId, dials, pending, service, subscriber,
          atModem, mail, broken>>

Refs == [Obj \cup {"ext"} -> Nat]

TypeOK ==
  /\ plugin \in 0 .. 1
  /\ slot \in [Gen -> {"none", "open", "shut", "freed"}]
  /\ slotIms \in [Gen -> BOOLEAN]
  /\ refs \in [Gen -> Refs]
  /\ ofono \in [Gen -> SUBSET Obj]
  /\ lastId \in 0 .. MaxSerial
  /\ dials \in [Gen -> 0 .. MaxDials]
  /\ pending \subseteq Request
  /\ service \in BOOLEAN
  /\ subscriber \in [Callbacks -> Gen \cup {0}]
  /\ atModem \subseteq Request
  /\ mail \subseteq Mail
  /\ broken \in Gen \cup {0}

NoRefs == [o \in Obj \cup {"ext"} |-> 0]

Init ==
  /\ plugin = 0
  /\ slot = [g \in Gen |-> "none"]
  /\ slotIms = [g \in Gen |-> FALSE]
  /\ refs = [g \in Gen |-> NoRefs]
  /\ ofono = [g \in Gen |-> {}]
  /\ lastId = 0
  /\ dials = [g \in Gen |-> 0]
  /\ pending = {}
  /\ service \in BOOLEAN
  /\ subscriber = [i \in Callbacks |-> 0]
  /\ atModem = {}
  /\ mail = {}
  /\ broken = 0

(***************************************************************************)
(* References.                                                             *)
(***************************************************************************)
(* Mutated form of Unref: finalize forgets the MtkRadioExt. *)
UnrefKeepsExt(r, o) == [r EXCEPT ![o] = @ - 1]

(* The last reference to an object runs its finalize, which drops the one  *)
(* to the MtkRadioExt.                                                     *)
Unref(r, o) ==
  LET less == [r EXCEPT ![o] = @ - 1] IN
  IF o # "ext" /\ less[o] = 0 THEN [less EXCEPT !["ext"] = @ - 1] ELSE less

(* Mutated forms of Terminate: self->ims is not cleared; the slot gives    *)
(* back all it holds, and the service is left with the callback objects.   *)
TerminateKeepsPointer(g) ==
  /\ refs' = IF slotIms[g] THEN [refs EXCEPT ![g] = Unref(@, "ims")] ELSE refs
  /\ UNCHANGED slotIms

TerminateReleasesAll(g) ==
  /\ refs' = IF slotIms[g]
             THEN [refs EXCEPT ![g] = Unref(Unref(Unref(Unref(@, "ims"), "call"), "sms"), "ext")]
             ELSE refs
  /\ slotIms' = [slotIms EXCEPT ![g] = FALSE]

(* mtk_slot_terminate. *)
Terminate(g) ==
  /\ refs' = IF slotIms[g] THEN [refs EXCEPT ![g] = Unref(@, "ims")] ELSE refs
  /\ slotIms' = [slotIms EXCEPT ![g] = FALSE]

(***************************************************************************)
(* The plugin and its slots.                                               *)
(***************************************************************************)
(* mtk_plugin_init: the reference of mtk_ext_new is dropped, the one of    *)
(* the registration stays.                                                 *)
PluginInit ==
  /\ plugin = 0
  /\ plugin' = 1
  /\ UNCHANGED <<slot, slotIms, refs, ofono, lastId, dials, pending, service, subscriber,
                 atModem, mail, broken>>

(* mtk_plugin_exit.  ofono has dropped the slots by then. *)
PluginExit ==
  /\ plugin = 1
  /\ \A g \in Gen : slot[g] \in {"none", "freed"}
  /\ plugin' = 0
  /\ UNCHANGED <<slot, slotIms, refs, ofono, lastId, dials, pending, service, subscriber,
                 atModem, mail, broken>>

(* Setting the response functions of one interface is a synchronous        *)
(* transaction, whose status is only logged.                               *)
Subscribed(g) ==
  {s \in [Callbacks -> Gen \cup {0}] : \A i \in Callbacks : s[i] \in {g, subscriber[i]}}

(* mtk_slot_new: if the service is there the slot is connected to it and   *)
(* its objects are made, else it has none of them.                         *)
NewSlot(g) ==
  /\ plugin = 1
  /\ slot[g] = "none"
  /\ \A h \in Gen : IF h < g THEN slot[h] \in {"shut", "freed"} ELSE slot[h] = "none"
  /\ slot' = [slot EXCEPT ![g] = "open"]
  /\ \/ /\ service
        /\ subscriber' \in Subscribed(g)
        /\ refs' = [refs EXCEPT ![g] = [ims |-> 1, call |-> 1, sms |-> 1, ext |-> 4]]
        /\ slotIms' = [slotIms EXCEPT ![g] = TRUE]
     \/ /\ ~service
        /\ UNCHANGED <<slotIms, refs, subscriber>>
  /\ UNCHANGED <<plugin, ofono, lastId, dials, pending, service, atModem, mail, broken>>

(* The interfaces that ofono holds, and the slots that it dials on. *)
Taken ==
  Cardinality({p \in Gen \X Obj : p[2] \in ofono[p[1]]}) + Cardinality({g \in Gen : dials[g] > 0})

(* ofono takes an interface of the slot, and gives it up. *)
TakeInterface(g, o) ==
  /\ slot[g] = "open" /\ o \in Interfaces \ ofono[g]
  /\ refs[g][o] > 0 /\ Taken < MaxTaken
  /\ ofono' = [ofono EXCEPT ![g] = @ \cup {o}]
  /\ refs' = [refs EXCEPT ![g][o] = @ + 1]
  /\ UNCHANGED <<plugin, slot, slotIms, lastId, dials, pending, service, subscriber,
                 atModem, mail, broken>>

DropInterface(g, o) ==
  /\ o \in ofono[g]
  /\ ofono' = [ofono EXCEPT ![g] = @ \ {o}]
  /\ refs' = [refs EXCEPT ![g] = Unref(@, o)]
  /\ UNCHANGED <<plugin, slot, slotIms, lastId, dials, pending, service, subscriber,
                 atModem, mail, broken>>

(* mtk_slot_shutdown. *)
Shutdown(g) ==
  /\ slot[g] = "open"
  /\ slot' = [slot EXCEPT ![g] = "shut"]
  /\ Terminate(g)
  /\ UNCHANGED <<plugin, ofono, lastId, dials, pending, service, subscriber, atModem,
                 mail, broken>>

(* mtk_slot_finalize; the other objects of the slot keep its reference. *)
FreeSlot(g) ==
  /\ slot[g] \in {"open", "shut"}
  /\ slot' = [slot EXCEPT ![g] = "freed"]
  /\ Terminate(g)
  /\ UNCHANGED <<plugin, ofono, lastId, dials, pending, service, subscriber, atModem,
                 mail, broken>>

(***************************************************************************)
(* Requests and answers.                                                   *)
(***************************************************************************)
(* Mutated forms: a counter in each MtkRadioExt; the id that goes into the *)
(* message is taken before the counter is advanced.                        *)
NewReqIdPerObject(g) == 1 + Cardinality({r \in pending \cup atModem : r.gen = g})

SentBefore(r) == [r EXCEPT !.serial = IF @ = 1 THEN MaxSerial ELSE @ - 1]

NewReqId(g) == lastId + 1

(* The serial the message carries is that of the entry of the table. *)
Sent(r) == r

(* A registration or an SMS.  Only the registration's request takes a      *)
(* reference to its object (mtk_ims_result_request_new).  A hangup's is    *)
(* left out: it is like an SMS's that points to nothing.  What a refusal   *)
(* does is modelled in ImsRegistration and ImsRequests.                    *)
Submit(g, o) ==
  /\ o \in ofono[g] /\ o # "call"
  /\ service /\ lastId < MaxSerial
  /\ lastId' = lastId + 1
  /\ LET r == [serial |-> NewReqId(g), gen |-> g, obj |-> o] IN
     /\ pending' = pending \cup {r}
     /\ atModem' = atModem \cup {Sent(r)}
  /\ refs' = IF o = "ims" THEN [refs EXCEPT ![g]["ims"] = @ + 1] ELSE refs
  /\ UNCHANGED <<plugin, slot, slotIms, ofono, dials, service, subscriber, mail, broken>>

(* mtk_ims_call_dial takes a reference to the MtkImsCall, and the answer,  *)
(* which is not the service's but the radio's, or its failure gives it     *)
(* back.                                                                   *)
Dial(g) ==
  /\ "call" \in ofono[g]
  /\ dials[g] < MaxDials /\ Taken < MaxTaken
  /\ dials' = [dials EXCEPT ![g] = @ + 1]
  /\ refs' = [refs EXCEPT ![g]["call"] = @ + 1]
  /\ UNCHANGED <<plugin, slot, slotIms, ofono, lastId, pending, service, subscriber, atModem,
                 mail, broken>>

DialEnds(g) ==
  /\ dials[g] > 0
  /\ dials' = [dials EXCEPT ![g] = @ - 1]
  /\ refs' = [refs EXCEPT ![g] = Unref(@, "call")]
  /\ UNCHANGED <<plugin, slot, slotIms, ofono, lastId, pending, service, subscriber, atModem,
                 mail, broken>>

(* mtk_ims_call_cancel of a pending dial, whose id is 1: what goes is the  *)
(* request with that serial in the table of the slot's MtkRadioExt, and    *)
(* its transaction if it was not sent yet.                                 *)
CancelDial(g) ==
  /\ "call" \in ofono[g]
  /\ dials[g] > 0
  /\ LET found == {r \in pending : r.gen = g /\ r.serial = 1} IN
     /\ pending' = pending \ found
     /\ atModem' \in {atModem, atModem \ found}
     /\ refs' = IF \E r \in found : r.obj = "ims" THEN [refs EXCEPT ![g] = Unref(@, "ims")]
                ELSE refs
  /\ UNCHANGED <<plugin, slot, slotIms, ofono, lastId, dials, service, subscriber, mail, broken>>

(* The service answers through the callback objects it has now. *)
Answer(r) ==
  /\ service /\ r \in atModem
  /\ atModem' = atModem \ {r}
  /\ mail' = IF subscriber["ims"] = 0 THEN mail
             ELSE mail \cup {[kind |-> "answer", to |-> subscriber["ims"], request |-> r]}
  /\ UNCHANGED <<plugin, slot, slotIms, refs, ofono, lastId, dials, pending, service,
                 subscriber, broken>>

Indicate(kind) ==
  /\ service /\ subscriber["ims"] # 0
  /\ Cardinality(mail) < MaxMail
  /\ mail' = mail \cup {[kind |-> kind, to |-> subscriber["ims"]]}
  /\ UNCHANGED <<plugin, slot, slotIms, refs, ofono, lastId, dials, pending, service,
                 subscriber, atModem, broken>>

(* The request that mtk_radio_ext_response finds for an answer. *)
Found(m) ==
  {r \in pending : r.gen = m.to /\ r.serial = m.request.serial /\ r.obj = m.request.obj}

(* The answer leads to an object that is gone: the MtkRadioExt, or the     *)
(* MtkImsSms that the request points to.                                   *)
Dangling(m) ==
  \/ refs[m.to]["ext"] = 0
  \/ \E r \in Found(m) : r.obj = "sms" /\ refs[m.to]["sms"] = 0

(* Mutated form of DeliverAnswer: the request is freed without its         *)
(* reference.                                                              *)
DeliverAnswerKeepsRef(m) ==
  /\ m \in mail /\ m.kind = "answer"
  /\ mail' = mail \ {m}
  /\ IF Dangling(m)
     THEN broken' = m.to /\ UNCHANGED pending
     ELSE pending' = pending \ Found(m) /\ UNCHANGED broken
  /\ UNCHANGED <<plugin, slot, slotIms, refs, ofono, lastId, dials, service, subscriber, atModem>>

(* An answer completes the request with its serial in the table of the     *)
(* MtkRadioExt it was sent to, and is ignored if there is none.            *)
DeliverAnswer(m) ==
  /\ m \in mail /\ m.kind = "answer"
  /\ mail' = mail \ {m}
  /\ IF Dangling(m)
     THEN broken' = m.to /\ UNCHANGED <<refs, pending>>
     ELSE /\ pending' = pending \ Found(m)
          /\ refs' = IF \E r \in Found(m) : r.obj = "ims"
                     THEN [refs EXCEPT ![m.to] = Unref(@, "ims")] ELSE refs
          /\ UNCHANGED broken
  /\ UNCHANGED <<plugin, slot, slotIms, ofono, lastId, dials, service, subscriber, atModem>>

(* An indication runs the handlers of the MtkIms or of the MtkImsCall,     *)
(* which were never disconnected.                                          *)
DeliverIndication(m) ==
  /\ m \in mail /\ m.kind # "answer"
  /\ mail' = mail \ {m}
  /\ broken' = IF \/ refs[m.to]["ext"] = 0
                  \/ refs[m.to][IF m.kind = "registration" THEN "ims" ELSE "call"] = 0
               THEN m.to ELSE broken
  /\ UNCHANGED <<plugin, slot, slotIms, refs, ofono, lastId, dials, pending, service,
                 subscriber, atModem>>

(***************************************************************************)
(* The radio service dies with what it knew, and is started again.         *)
(***************************************************************************)
ServiceDies ==
  /\ service
  /\ service' = FALSE
  /\ subscriber' = [i \in Callbacks |-> 0]
  /\ atModem' = {}
  /\ UNCHANGED <<plugin, slot, slotIms, refs, ofono, lastId, dials, pending, mail, broken>>

ServiceStarts ==
  /\ ~service
  /\ service' = TRUE
  /\ UNCHANGED <<plugin, slot, slotIms, refs, ofono, lastId, dials, pending, subscriber,
                 atModem, mail, broken>>

AnyAnswer == \E r \in atModem : Answer(r)

AnyAnswerDelivered == \E m \in mail : DeliverAnswer(m)

Next ==
  /\ broken = 0
  /\ \/ PluginInit \/ PluginExit
     \/ \E g \in Gen : NewSlot(g) \/ Shutdown(g) \/ FreeSlot(g)
     \/ \E g \in Gen : Dial(g) \/ DialEnds(g) \/ CancelDial(g)
     \/ \E g \in Gen, o \in Obj : TakeInterface(g, o) \/ DropInterface(g, o) \/ Submit(g, o)
     \/ AnyAnswer
     \/ \E kind \in {"registration", "callInfo"} : Indicate(kind)
     \/ AnyAnswerDelivered
     \/ \E m \in mail : DeliverIndication(m)
     \/ ServiceDies \/ ServiceStarts

Spec == Init /\ [][Next]_vars

(* The service answers what it was asked, and the main loop runs. *)
FairSpec == Spec /\ WF_vars(broken = 0 /\ AnyAnswer) /\ WF_vars(broken = 0 /\ AnyAnswerDelivered)

(***************************************************************************)
(* Properties.                                                             *)
(***************************************************************************)
Held(g, o) == IF o \in ofono[g] THEN 1 ELSE 0

Requests(g, o) == Cardinality({r \in pending : r.gen = g /\ r.obj = o})

(* Every reference is accounted for: shutdown and finalize release nothing *)
(* twice and nothing that somebody still holds; what the slot never gives  *)
(* back are its references to the call, SMS and radio objects.             *)
RefsAccounted ==
  \A g \in Gen : refs[g] # NoRefs =>
    /\ refs[g]["ims"] = (IF slotIms[g] THEN 1 ELSE 0) + Held(g, "ims") + Requests(g, "ims")
    /\ refs[g]["call"] = 1 + Held(g, "call") + dials[g]
    /\ refs[g]["sms"] = 1 + Held(g, "sms")
    /\ refs[g]["ext"] = 1 + Cardinality({o \in Obj : refs[g][o] > 0})

(* What a pending request or dial points to is alive, and so is the        *)
(* MtkRadioExt that has the table, whatever slot and ofono have dropped:   *)
(* for a registration and a dial by the reference that was taken, for an   *)
(* SMS, whose req->self is a bare pointer, only because the slot never     *)
(* gives its own references back.                                          *)
RequestsHaveTarget ==
  /\ \A r \in pending : refs[r.gen][r.obj] > 0 /\ refs[r.gen]["ext"] > 0
  /\ \A g \in Gen : dials[g] > 0 => refs[g]["call"] > 0

(* Whatever the service still calls back leads to a living MtkRadioExt,    *)
(* after the slot was freed too.                                           *)
CallbacksHaveTarget ==
  /\ \A m \in mail : refs[m.to]["ext"] > 0
  /\ \A i \in Callbacks : subscriber[i] # 0 => refs[subscriber[i]]["ext"] > 0

(* An answer to a request of an earlier slot never completes a request of  *)
(* the slot that took over.                                                *)
AnswersStayInTheirSlot ==
  \A m \in mail : m.kind = "answer" =>
    \A r \in Found(m) : r = m.request

(* A request that nobody will answer any more belongs to a slot that lost  *)
(* its callbacks: to the service's death, to a later slot, or because the  *)
(* status of its own subscription was ignored.                             *)
Stranded(r) ==
  /\ r \in pending /\ r \notin atModem
  /\ [kind |-> "answer", to |-> r.gen, request |-> r] \notin mail

StrandedOnlyByTakeover == \A r \in pending : Stranded(r) => subscriber["ims"] # r.gen

(* An MtkIms that slot and ofono have given up is freed, unless a request  *)
(* of it is stranded, or a freed object was used.                          *)
GivenUpImsFreed ==
  \A g \in Gen :
    (slot[g] = "freed" /\ "ims" \notin ofono[g])
      ~> \/ refs[g]["ims"] = 0
         \/ \E r \in pending : r.gen = g /\ r.obj = "ims" /\ Stranded(r)
         \/ broken # 0
=============================================================================
