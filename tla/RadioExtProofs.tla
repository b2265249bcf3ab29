--------------------------- MODULE RadioExtProofs ---------------------------
(***************************************************************************)
(* Proofs about RadioExt, for every set of blocks, user_data and           *)
(* transactions, every width of the serial counter and every bound.        *)
(***************************************************************************)
EXTENDS RadioExt, TLAPS

(* The remainder used by NewReqId is a serial again. *)
LEMMA NewReqIdInIds ==
  ASSUME TypeOK PROVE NewReqId \in Ids
  BY IdAssumption DEF TypeOK, NewReqId, Ids

(* What the destruction of blocks of the heap leaves well typed. *)
LEMMA HelpersTyped ==
  ASSUME TypeOK, NEW D \in SUBSET Addr
  PROVE  /\ CancelTx(D) \in [Tx -> Addr \cup {NoAddr}]
         /\ DestroyUserData(D) \in [Token -> [complete : Nat, destroy : Nat]]
         /\ FreeBlocks(D) \in [Addr -> Request]
<1>1. CancelTx(D) \in [Tx -> Addr \cup {NoAddr}]
  BY DEF CancelTx, TypeOK
<1>2. DestroyUserData(D) \in [Token -> [complete : Nat, destroy : Nat]]
  BY DEF DestroyUserData, TypeOK
<1>3. 0 \in Ids
  BY IdAssumption DEF Ids
<1>4. FreeBlocks(D) \in [Addr -> Request]
  BY <1>3 DEF FreeBlocks, TypeOK, Freed, Request
<1> QED BY <1>1, <1>2, <1>4

LEMMA EntryInAddr ==
  ASSUME TypeOK, NEW id \in Ids PROVE Entry(id) \in SUBSET Addr
  BY DEF Entry, TypeOK

LEMMA StartTyped ==
  ASSUME NEW c \in [Token -> [complete : Nat, destroy : Nat]], NEW u, NEW n \in Nat
  PROVE  Start(c, u, n) \in [Token -> [complete : Nat, destroy : Nat]]
  BY DEF Start

(* Every answer, block and table entry has the type its declaration gives  *)
(* it after any sequence of calls and callbacks.                           *)
LEMMA TypeInit == Init => TypeOK
<1>1. 0 \in Ids
  BY IdAssumption DEF Ids
<1> QED BY <1>1 DEF Init, TypeOK, Freed, Request

LEMMA RemoveTyped ==
  ASSUME TypeOK, NEW id \in Ids, RemoveRequest(id)
  PROVE  /\ requests' \in [Ids -> Addr \cup {NoAddr}]
         /\ txs' \in [Tx -> Addr \cup {NoAddr}]
         /\ calls' \in [Token -> [complete : Nat, destroy : Nat]]
         /\ heap' \in [Addr -> Request]
  BY EntryInAddr, HelpersTyped DEF RemoveRequest, TypeOK

LEMMA TypeNext ==
  ASSUME TypeOK, [Next]_vars
  PROVE  TypeOK'
<1> USE NewReqIdInIds, KindsAssumption
<1>1. ASSUME NEW k \in Kinds, NEW u \in Token \cup {NoToken}, NEW w \in BOOLEAN,
             SubmitAccepted(k, u, w)
      PROVE  TypeOK'
  <2> DEFINE id == NewReqId
  <2>1. PICK a \in Addr \ Live, t \in {t \in Tx : txs[t] = NoAddr} :
          /\ lastId' = id
          /\ requests' = [requests EXCEPT ![id] = a]
          /\ heap' = [FreeBlocks(Entry(id)) EXCEPT ![a] = RequestAlloc(id, k, u, w, t)]
          /\ txs' = [CancelTx(Entry(id)) EXCEPT ![t] = a]
          /\ calls' = Start(DestroyUserData(Entry(id)), u, 0)
          /\ wire' = wire \cup {[id |-> id, kind |-> k, ud |-> u]}
    BY <1>1 DEF SubmitAccepted
  <2>2. id \in Ids /\ Entry(id) \in SUBSET Addr
    BY EntryInAddr
  <2>3. RequestAlloc(id, k, u, w, t) \in Request
    BY <2>2 DEF RequestAlloc, Request
  <2>4. heap' \in [Addr -> Request]
    BY <2>1, <2>2, <2>3, HelpersTyped
  <2>5. txs' \in [Tx -> Addr \cup {NoAddr}]
    BY <2>1, <2>2, HelpersTyped
  <2>6. calls' \in [Token -> [complete : Nat, destroy : Nat]]
    BY <2>1, <2>2, HelpersTyped, StartTyped
  <2>7. k \in DOMAIN AnswerCode
    BY DEF ResponseCode, AnswerCode
  <2>8. wire' \subseteq Message
    BY <2>1, <2>2, <2>7 DEF TypeOK, Message
  <2>9. requests' \in [Ids -> Addr \cup {NoAddr}] /\ lastId' \in Ids
    BY <2>1, <2>2 DEF TypeOK
  <2> QED BY <2>4, <2>5, <2>6, <2>8, <2>9, <1>1 DEF TypeOK, SubmitAccepted
<1>2. ASSUME NEW u \in Token \cup {NoToken}, NEW w \in BOOLEAN, SubmitRefused(u, w)
      PROVE  TypeOK'
  <2>1. Entry(NewReqId) \in SUBSET Addr
    BY EntryInAddr
  <2> QED BY <1>2, <2>1, HelpersTyped, StartTyped DEF SubmitRefused, TypeOK
<1>3. ASSUME NEW id \in Ids, Cancel(id) PROVE TypeOK'
  BY <1>3, RemoveTyped DEF Cancel, TypeOK
<1>4. ASSUME NEW t \in Tx, RequestSent(t) PROVE TypeOK'
  BY <1>4 DEF RequestSent, TypeOK, Request
<1>5. ASSUME NEW m \in wire, ResponseBegin(m) PROVE TypeOK'
  <2>1. m.id \in Ids
    BY DEF TypeOK, Message
  <2> QED BY <1>5, <2>1 DEF ResponseBegin, TypeOK
<1>6. ASSUME NEW m \in wire, ResponseFailed(m) \/ ResponseIgnored(m) \/ AnswerLost(m)
      PROVE  TypeOK'
  BY <1>6 DEF ResponseFailed, ResponseIgnored, AnswerLost, TypeOK
<1>7. ASSUME ResponseEnd PROVE TypeOK'
  <2>1. 0 \in Ids /\ dispatching \in Ids
    BY IdAssumption DEF Ids, TypeOK
  <2> QED BY <1>7, <2>1, RemoveTyped DEF ResponseEnd, TypeOK
<1>8. ASSUME HandleIncomingCallIndication PROVE TypeOK'
  <2>1. [id |-> NewReqId, kind |-> "setCallIndication", ud |-> NoToken] \in Message
    BY DEF Message, AnswerCode
  <2> QED BY <1>8, <2>1 DEF HandleIncomingCallIndication, TypeOK
<1>9. ASSUME OtherSlotRequest PROVE TypeOK'
  BY <1>9 DEF OtherSlotRequest, TypeOK
<1>10. CASE UNCHANGED vars
  BY <1>10 DEF vars, TypeOK
<1> QED
  BY <1>1, <1>2, <1>3, <1>4, <1>5, <1>6, <1>7, <1>8, <1>9, <1>10 DEF Next, Response

THEOREM TypeCorrect == Spec => []TypeOK
<1>1. Init => TypeOK
  BY TypeInit
<1>2. TypeOK /\ [Next]_vars => TypeOK'
  BY TypeNext
<1> QED BY <1>1, <1>2, PTL DEF Spec

(***************************************************************************)
(* The inductive invariant.  CompletedInDispatch strengthens the contract: *)
(* without it a second answer could complete a request twice.              *)
(***************************************************************************)
IInv == TypeOK /\ TableSound /\ TxOwned /\ CallbackContract /\ CompletedInDispatch

(* How the callback counts of one user_data may change in a step. *)
CallStep(c, d) ==
  \/ d = c
  \/ c.destroy = 1 /\ d.complete = 0 /\ d.destroy \in {0, 1}             \* submitted
  \/ c.destroy = 0 /\ c.complete = 0 /\ d.complete = 1 /\ d.destroy = 0  \* completed
  \/ c.destroy = 0 /\ d.complete = c.complete /\ d.destroy = 1           \* destroyed

CallSteps == \A v \in Token : CallStep(calls[v], calls'[v])

LEMMA IInvInit == Init => IInv
<1>1. ASSUME Init PROVE IInv
  <2>1. TypeOK
    BY <1>1, TypeInit
  <2>2. Live = {}
    BY <1>1 DEF Init, Live, Freed
  <2> QED BY <1>1, <2>1, <2>2
       DEF Init, IInv, TableSound, TxOwned, CallbackContract, CompletedInDispatch, Held
<1> QED BY <1>1

(* The block under a key is the only live request with that serial. *)
LEMMA EntryFacts ==
  ASSUME TypeOK, TableSound, NEW id \in Ids
  PROVE  /\ Entry(id) \subseteq Live
         /\ \A a \in Live : a \in Entry(id) <=> heap[a].id = id
  BY NullAssumption DEF TableSound, Entry, Live, TypeOK

(* Freeing blocks takes exactly these out of the live ones. *)
LEMMA FreeFacts ==
  ASSUME TypeOK, NEW D \in SUBSET Addr, heap' = FreeBlocks(D)
  PROVE  /\ Live' = Live \ D
         /\ \A a \in Live' : heap'[a] = heap[a]
  BY DEF FreeBlocks, Live, TypeOK, Freed

(* Destroying one request disturbs no other one: its table entry, its      *)
(* transaction and its user_data go, those of the others stay.             *)
LEMMA RemoveInv ==
  ASSUME IInv, NEW id \in Ids, RemoveRequest(id),
         dispatching' = dispatching \/ (dispatching = id /\ dispatching' = 0)
  PROVE  TableSound' /\ TxOwned' /\ CallbackContract' /\ CompletedInDispatch' /\ CallSteps
<1> DEFINE D == Entry(id)
<1> USE DEF IInv
<1>1. D \in SUBSET Addr /\ D \subseteq Live /\ \A a \in Live : a \in D <=> heap[a].id = id
  BY EntryInAddr, EntryFacts
<1>2. Live' = Live \ D /\ \A a \in Live' : heap'[a] = heap[a]
  BY <1>1, FreeFacts DEF RemoveRequest
<1>3. TableSound'
  BY <1>1, <1>2, NullAssumption DEF TableSound, RemoveRequest, TypeOK, Live, Request
<1>4. \A t \in Tx : txs'[t] = IF \E a \in D : heap[a].tx = t THEN NoAddr ELSE txs[t]
  BY DEF RemoveRequest, CancelTx
<1>5. TxOwned'
  BY <1>1, <1>2, <1>4, NullAssumption DEF TxOwned, TypeOK, Request, Live
<1>6. \A u \in Token : calls'[u] = IF \E a \in D : heap[a].ud = u
                    THEN [calls[u] EXCEPT !.destroy = calls[u].destroy + 1] ELSE calls[u]
  BY DEF RemoveRequest, DestroyUserData
<1>7. \A u \in Token :
        IF \E a \in D : heap[a].ud = u
        THEN calls'[u].complete = calls[u].complete /\ calls'[u].destroy = 1
        ELSE calls'[u] = calls[u]
  <2> SUFFICES ASSUME NEW u \in Token
               PROVE  IF \E a \in D : heap[a].ud = u
                      THEN calls'[u].complete = calls[u].complete /\ calls'[u].destroy = 1
                      ELSE calls'[u] = calls[u]
    OBVIOUS
  <2>1. calls[u] \in [complete : Nat, destroy : Nat]
    BY DEF TypeOK
  <2>2. CASE \E a \in D : heap[a].ud = u
    <3>1. calls[u].destroy = 0
      BY <1>1, <2>2 DEF CallbackContract, Held
    <3>2. calls'[u] = [calls[u] EXCEPT !.destroy = calls[u].destroy + 1]
      BY <1>6, <2>2
    <3> QED BY <2>1, <2>2, <3>1, <3>2
  <2>3. CASE ~ \E a \in D : heap[a].ud = u
    BY <1>6, <2>3
  <2> QED BY <2>2, <2>3
<1>8. CallbackContract'
  BY <1>1, <1>2, <1>7 DEF CallbackContract, Held, TypeOK
<1>9. CompletedInDispatch'
  BY <1>1, <1>2, <1>7 DEF CompletedInDispatch, TypeOK
<1>10. CallSteps
  BY <1>1, <1>7 DEF CallSteps, CallStep, CallbackContract, Held
<1> QED BY <1>3, <1>5, <1>8, <1>9, <1>10

(* A submission first destroys the request that still holds the serial     *)
(* (only a wrapped counter finds one).  What is left is sound.             *)
LEMMA SubmitFacts ==
  ASSUME IInv, NEW id \in Ids
  PROVE  LET D == Entry(id) IN
         /\ D \in SUBSET Addr /\ D \subseteq Live
         /\ \A a \in Live : a \in D <=> heap[a].id = id
         /\ \A u \in Token :
              IF \E a \in D : heap[a].ud = u
              THEN /\ DestroyUserData(D)[u].complete = calls[u].complete
                   /\ DestroyUserData(D)[u].destroy = 1
              ELSE DestroyUserData(D)[u] = calls[u]
<1> DEFINE D == Entry(id)
<1>1. D \in SUBSET Addr /\ D \subseteq Live /\ \A a \in Live : a \in D <=> heap[a].id = id
  BY EntryInAddr, EntryFacts DEF IInv
<1>2. ASSUME NEW u \in Token
      PROVE  IF \E a \in D : heap[a].ud = u
             THEN /\ DestroyUserData(D)[u].complete = calls[u].complete
                  /\ DestroyUserData(D)[u].destroy = 1
             ELSE DestroyUserData(D)[u] = calls[u]
  <2>1. calls[u] \in [complete : Nat, destroy : Nat]
    BY DEF TypeOK, IInv
  <2>2. CASE \E a \in D : heap[a].ud = u
    <3>1. calls[u].destroy = 0
      BY <1>1, <2>2 DEF CallbackContract, Held, IInv
    <3>2. DestroyUserData(D)[u] = [calls[u] EXCEPT !.destroy = calls[u].destroy + 1]
      BY <2>2 DEF DestroyUserData
    <3> QED BY <2>1, <2>2, <3>1, <3>2
  <2>3. CASE ~ \E a \in D : heap[a].ud = u
    BY <2>3 DEF DestroyUserData
  <2> QED BY <2>2, <2>3
<1> QED BY <1>1, <1>2

LEMMA SubmitRefusedInv ==
  ASSUME IInv, NEW u \in Token \cup {NoToken}, NEW w \in BOOLEAN, SubmitRefused(u, w)
  PROVE  TableSound' /\ TxOwned' /\ CallbackContract' /\ CompletedInDispatch' /\ CallSteps
<1> DEFINE id == NewReqId
           D == Entry(id)
<1> USE DEF IInv
<1>0. id \in Ids
  BY NewReqIdInIds
<1>1. D \in SUBSET Addr /\ D \subseteq Live /\ \A a \in Live : a \in D <=> heap[a].id = id
  BY <1>0, SubmitFacts
<1>2. Live' = Live \ D /\ \A a \in Live' : heap'[a] = heap[a]
  BY <1>1, FreeFacts DEF SubmitRefused
<1>3. TableSound'
  BY <1>0, <1>1, <1>2, NullAssumption DEF TableSound, SubmitRefused, TypeOK, Live, Request
<1>4. \A t \in Tx : txs'[t] = IF \E a \in D : heap[a].tx = t THEN NoAddr ELSE txs[t]
  BY DEF SubmitRefused, CancelTx
<1>5. TxOwned'
  BY <1>1, <1>2, <1>4, NullAssumption DEF TxOwned, TypeOK, Request, Live
<1>6. u \in Token => \A a \in Live : heap[a].ud # u
  BY NullAssumption DEF SubmitRefused, CallerMaySubmit, CallbackContract, Held
<1>7. \A v \in Token :
        /\ v = u => calls'[v].complete = 0 /\ calls'[v].destroy = 1
        /\ v # u => IF \E a \in D : heap[a].ud = v
                    THEN calls'[v].complete = calls[v].complete /\ calls'[v].destroy = 1
                    ELSE calls'[v] = calls[v]
  BY <1>0, SubmitFacts DEF SubmitRefused, Start
<1>8. CallbackContract'
  BY <1>1, <1>2, <1>6, <1>7 DEF CallbackContract, Held, TypeOK
<1>9. CompletedInDispatch'
  BY <1>1, <1>2, <1>6, <1>7 DEF CompletedInDispatch, SubmitRefused
<1>10. u \in Token => calls[u].destroy = 1
  <2>1. u \in Token => calls[u].destroy # 0
    BY NullAssumption DEF SubmitRefused, CallerMaySubmit, Held
  <2>2. u \in Token => calls[u].destroy \in Nat /\ calls[u].destroy <= 1
    BY DEF TypeOK, CallbackContract
  <2> QED BY <2>1, <2>2
<1>11. CallSteps
  BY <1>1, <1>7, <1>10 DEF CallSteps, CallStep, CallbackContract, Held
<1> QED BY <1>3, <1>5, <1>8, <1>9, <1>11

LEMMA SubmitAcceptedInv ==
  ASSUME IInv, NEW k \in Kinds, NEW u \in Token \cup {NoToken}, NEW w \in BOOLEAN,
         SubmitAccepted(k, u, w)
  PROVE  TableSound' /\ TxOwned' /\ CallbackContract' /\ CompletedInDispatch' /\ CallSteps
<1> DEFINE id == NewReqId
           D == Entry(id)
<1> USE DEF IInv
<1>0. id \in Ids
  BY NewReqIdInIds
<1>1. D \in SUBSET Addr /\ D \subseteq Live /\ \A a \in Live : a \in D <=> heap[a].id = id
  BY <1>0, SubmitFacts
<1>2. PICK a \in Addr \ Live, t \in {t \in Tx : txs[t] = NoAddr} :
        /\ lastId' = id
        /\ requests' = [requests EXCEPT ![id] = a]
        /\ heap' = [FreeBlocks(D) EXCEPT ![a] = RequestAlloc(id, k, u, w, t)]
        /\ txs' = [CancelTx(D) EXCEPT ![t] = a]
        /\ calls' = Start(DestroyUserData(D), u, 0)
        /\ wire' = wire \cup {[id |-> id, kind |-> k, ud |-> u]}
  BY DEF SubmitAccepted
<1>3. heap'[a] = RequestAlloc(id, k, u, w, t)
  BY <1>2 DEF FreeBlocks
<1>4. \A b \in Addr \ {a} : heap'[b] = IF b \in D THEN Freed ELSE heap[b]
  BY <1>2 DEF FreeBlocks
<1>5. k # "freed"
  BY KindsAssumption DEF ResponseCode
<1>6. Live' = (Live \ D) \cup {a}
  BY <1>1, <1>2, <1>3, <1>4, <1>5 DEF Live, Freed, RequestAlloc
<1>7. \A b \in Live \ D : heap'[b] = heap[b]
  BY <1>1, <1>2, <1>4 DEF Live
<1>8. TableSound'
  BY <1>0, <1>1, <1>2, <1>3, <1>6, <1>7, NullAssumption
     DEF TableSound, TypeOK, Live, Request, RequestAlloc
<1>9. \A s \in Tx : txs'[s] = IF s = t THEN a
                              ELSE IF \E b \in D : heap[b].tx = s THEN NoAddr ELSE txs[s]
  BY <1>2 DEF CancelTx
<1>10. TxOwned'
  <2>1. \A b \in Live : heap[b].tx # t
    BY <1>2, NullAssumption DEF TxOwned, TypeOK, Live
  <2> QED BY <1>1, <1>2, <1>3, <1>6, <1>7, <1>9, <2>1, NullAssumption
          DEF TxOwned, TypeOK, Request, RequestAlloc, Live
<1>11. u \in Token => \A b \in Live : heap[b].ud # u
  BY NullAssumption DEF SubmitAccepted, CallerMaySubmit, CallbackContract, Held
<1>12. \A v \in Token :
         /\ v = u => calls'[v].complete = 0 /\ calls'[v].destroy = 0
         /\ v # u => IF \E b \in D : heap[b].ud = v
                     THEN calls'[v].complete = calls[v].complete /\ calls'[v].destroy = 1
                     ELSE calls'[v] = calls[v]
  BY <1>0, <1>2, SubmitFacts DEF Start
<1>13. CallbackContract'
  <2>1. heap'[a].ud = u /\ a \in Live' /\ a \notin Live
    BY <1>2, <1>3, <1>6 DEF RequestAlloc
  <2>2. \A v \in Token : calls'[v].complete <= 1 /\ calls'[v].destroy <= 1
    BY <1>12 DEF CallbackContract
  <2>3. ASSUME NEW v \in Token
        PROVE  calls'[v].destroy = 0 <=> \E b \in Live' : heap'[b].ud = v
    <3>1. CASE v = u
      BY <1>12, <2>1, <3>1
    <3>2. CASE v # u /\ \E b \in D : heap[b].ud = v
      <4>1. calls'[v].destroy = 1
        BY <1>12, <3>2
      <4>2. \A b \in Live \ D : heap[b].ud # v
        BY <1>1, <3>2 DEF CallbackContract
      <4>3. \A b \in Live' : heap'[b].ud # v
        BY <1>6, <1>7, <2>1, <3>2, <4>2
      <4> QED BY <4>1, <4>3
    <3>3. CASE v # u /\ ~\E b \in D : heap[b].ud = v
      <4>1. calls'[v] = calls[v]
        BY <1>12, <3>3
      <4>2. calls[v].destroy = 0 <=> \E b \in Live \ D : heap[b].ud = v
        BY <1>1, <3>3 DEF CallbackContract, Held
      <4>3. (\E b \in Live' : heap'[b].ud = v) <=> \E b \in Live \ D : heap[b].ud = v
        BY <1>6, <1>7, <2>1, <3>3
      <4> QED BY <4>1, <4>2, <4>3
    <3> QED BY <3>1, <3>2, <3>3
  <2>4. ASSUME NEW b \in Live', NEW c \in Live', heap'[b].ud \in Token, heap'[b].ud = heap'[c].ud
        PROVE  b = c
    <3>1. CASE b # a /\ c # a
      BY <1>6, <1>7, <2>4, <3>1 DEF CallbackContract
    <3>2. CASE b = a \/ c = a
      <4>1. u \in Token /\ heap'[b].ud = u /\ heap'[c].ud = u
        BY <2>1, <2>4, <3>2
      <4>2. \A d \in Live' : d # a => heap'[d].ud # u
        BY <1>6, <1>7, <1>11, <4>1
      <4> QED BY <3>2, <4>1, <4>2
    <3> QED BY <3>1, <3>2
  <2> QED BY <2>2, <2>3, <2>4 DEF CallbackContract, Held
<1>14. CompletedInDispatch'
  BY <1>1, <1>2, <1>3, <1>6, <1>7, <1>11, <1>12
     DEF CompletedInDispatch, SubmitAccepted, RequestAlloc
<1>15. u \in Token => calls[u].destroy = 1
  <2>1. u \in Token => calls[u].destroy # 0
    BY NullAssumption DEF SubmitAccepted, CallerMaySubmit, Held
  <2>2. u \in Token => calls[u].destroy \in Nat /\ calls[u].destroy <= 1
    BY DEF TypeOK, CallbackContract
  <2> QED BY <2>1, <2>2
<1>16. CallSteps
  BY <1>1, <1>12, <1>15 DEF CallSteps, CallStep, CallbackContract, Held
<1> QED BY <1>8, <1>10, <1>13, <1>14, <1>16

LEMMA RequestSentInv ==
  ASSUME IInv, NEW t \in Tx, RequestSent(t)
  PROVE  TableSound' /\ TxOwned' /\ CallbackContract' /\ CompletedInDispatch' /\ CallSteps
<1> USE DEF IInv
<1> DEFINE r == txs[t]
<1>1. r \in Live /\ heap[r].tx = t
  BY DEF RequestSent, TxOwned
<1>2. heap[r] \in Request
  BY <1>1 DEF TypeOK, Live
<1>3. \A b \in Addr : /\ heap'[b].kind = heap[b].kind
                      /\ heap'[b].id = heap[b].id
                      /\ heap'[b].ud = heap[b].ud
                      /\ b # r => heap'[b] = heap[b]
  BY <1>1, <1>2 DEF RequestSent, TypeOK, Request
<1>4. heap'[r].tx = NoTx
  BY <1>1, <1>2 DEF RequestSent, TypeOK, Request, Live
<1>5. Live' = Live
  BY <1>3 DEF Live
<1>6. TableSound'
  BY <1>3, <1>5 DEF TableSound, RequestSent, TypeOK, Live
<1>7. TxOwned'
  BY <1>1, <1>3, <1>4, <1>5, NullAssumption DEF TxOwned, RequestSent, TypeOK, Live
<1>8. CallbackContract' /\ CompletedInDispatch'
  BY <1>3, <1>5 DEF CallbackContract, CompletedInDispatch, Held, RequestSent, Live
<1>9. CallSteps
  BY DEF CallSteps, CallStep, RequestSent
<1> QED BY <1>6, <1>7, <1>8, <1>9

LEMMA ResponseBeginInv ==
  ASSUME IInv, NEW m \in wire, ResponseBegin(m)
  PROVE  TableSound' /\ TxOwned' /\ CallbackContract' /\ CompletedInDispatch' /\ CallSteps
<1> USE DEF IInv
<1> DEFINE a == requests[m.id]
<1>1. m.id \in Ids /\ m.id # 0
  BY DEF TypeOK, Message, ResponseBegin, Matches
<1>2. a \in Live /\ heap[a].id = m.id
  BY <1>1 DEF TableSound, ResponseBegin, Matches
<1>3. Live' = Live
  BY DEF ResponseBegin, Live
<1>4. TableSound' /\ TxOwned'
  BY <1>3 DEF TableSound, TxOwned, ResponseBegin
<1>5. \A v \in Token : calls'[v] = IF heap[a].completes /\ heap[a].ud = v
                                   THEN [calls[v] EXCEPT !.complete = @ + 1] ELSE calls[v]
  BY DEF ResponseBegin
<1>6. \A v \in Token : IF heap[a].completes /\ heap[a].ud = v
                       THEN calls'[v].complete = 1 /\ calls'[v].destroy = 0
                       ELSE calls'[v] = calls[v]
  <2> SUFFICES ASSUME NEW v \in Token, heap[a].completes, heap[a].ud = v
               PROVE  calls'[v].complete = 1 /\ calls'[v].destroy = 0
    BY <1>5
  <2>1. calls[v] \in [complete : Nat, destroy : Nat]
    BY DEF TypeOK
  <2>2. calls[v].complete = 0 /\ calls[v].destroy = 0
    BY <1>1, <1>2 DEF CompletedInDispatch, CallbackContract, Held, ResponseBegin
  <2>3. calls'[v] = [calls[v] EXCEPT !.complete = calls[v].complete + 1]
    BY <1>5
  <2> QED BY <2>1, <2>2, <2>3
<1>7. CallbackContract'
  BY <1>2, <1>3, <1>6 DEF CallbackContract, Held, ResponseBegin
<1>8. CompletedInDispatch'
  BY <1>1, <1>2, <1>3, <1>6 DEF CompletedInDispatch, CallbackContract, ResponseBegin
<1>9. CallSteps
  BY <1>1, <1>2, <1>6
     DEF CallSteps, CallStep, CompletedInDispatch, CallbackContract, Held, ResponseBegin
<1> QED BY <1>4, <1>7, <1>8, <1>9

LEMMA IInvNext ==
  ASSUME IInv, [Next]_vars PROVE IInv' /\ CallSteps
<1>0. TypeOK'
  BY TypeNext DEF IInv
<1> DEFINE Rest == TableSound' /\ TxOwned' /\ CallbackContract' /\ CompletedInDispatch' /\ CallSteps
<1>1. ASSUME NEW k \in Kinds, NEW u \in Token \cup {NoToken}, NEW w \in BOOLEAN,
             SubmitAccepted(k, u, w)
      PROVE  Rest
  BY <1>1, SubmitAcceptedInv
<1>2. ASSUME NEW u \in Token \cup {NoToken}, NEW w \in BOOLEAN, SubmitRefused(u, w)
      PROVE  Rest
  BY <1>2, SubmitRefusedInv
<1>3. ASSUME NEW id \in Ids, Cancel(id) PROVE Rest
  BY <1>3, RemoveInv DEF Cancel
<1>4. ASSUME NEW t \in Tx, RequestSent(t) PROVE Rest
  BY <1>4, RequestSentInv
<1>5. ASSUME NEW m \in wire, ResponseBegin(m) PROVE Rest
  BY <1>5, ResponseBeginInv
<1>6. ASSUME ResponseEnd PROVE Rest
  <2>1. dispatching \in Ids
    BY DEF IInv, TypeOK
  <2> QED BY <1>6, <2>1, RemoveInv DEF ResponseEnd
<1>7. ASSUME UNCHANGED <<requests, heap, txs, calls, dispatching>> PROVE Rest
  BY <1>7 DEF IInv, TableSound, TxOwned, CallbackContract, CompletedInDispatch, Live, Held,
              CallSteps, CallStep
<1>8. ASSUME NEW m \in wire, ResponseFailed(m) \/ ResponseIgnored(m) \/ AnswerLost(m)
      PROVE  Rest
  BY <1>7, <1>8 DEF ResponseFailed, ResponseIgnored, AnswerLost
<1>9. ASSUME HandleIncomingCallIndication \/ OtherSlotRequest \/ UNCHANGED vars PROVE Rest
  BY <1>7, <1>9 DEF HandleIncomingCallIndication, OtherSlotRequest, vars
<1>10. Rest
  BY <1>1, <1>2, <1>3, <1>4, <1>5, <1>6, <1>8, <1>9 DEF Next, Response
<1> QED BY <1>0, <1>10 DEF IInv

LEMMA IInvAlways == Spec => []IInv
<1>1. Init => IInv
  BY IInvInit
<1>2. IInv /\ [Next]_vars => IInv'
  BY IInvNext
<1> QED BY <1>1, <1>2, PTL DEF Spec

(* A request that completed and is still there is the one whose complete() *)
(* is running: no answer can reach it a second time.                       *)
THEOREM CompletedOnlyInDispatch == Spec => []CompletedInDispatch
<1>1. IInv => CompletedInDispatch
  BY DEF IInv
<1> QED BY <1>1, IInvAlways, PTL

(* Table and heap agree after every sequence of calls and callbacks, even  *)
(* when serials wrap around and are used again while they are pending.     *)
THEOREM TableSoundness == Spec => []TableSound
<1>1. IInv => TableSound
  BY DEF IInv
<1> QED BY <1>1, IInvAlways, PTL

(* The reply callback of gbinder never writes to a freed or reused block.  *)
THEOREM TxOwnership == Spec => []TxOwned
<1>1. IInv => TxOwned
  BY DEF IInv
<1> QED BY <1>1, IInvAlways, PTL

(* complete at most once, destroy exactly once, for every user_data.       *)
THEOREM CallbacksRespectContract == Spec => []CallbackContract
<1>1. IInv => CallbackContract
  BY DEF IInv
<1> QED BY <1>1, IInvAlways, PTL

(* The request layer implements the contract its callers rely on: every    *)
(* step moves each user_data along a step of RequestContract, or not.      *)
LEMMA PhaseOfCalls ==
  ASSUME NEW c \in [complete : Nat, destroy : Nat], c.complete <= 1, c.destroy <= 1
  PROVE  PhaseOf(c) = IF c.destroy = 0
                      THEN IF c.complete = 0 THEN "pending" ELSE "completed"
                      ELSE IF c.complete = 0 THEN "released" ELSE "done"
  BY DEF PhaseOf

THEOREM ImplementsContract == Spec => ContractSpec
<1> DEFINE ph == [u \in Token |-> PhaseOf(calls[u])]
<1>1. Init => Contract!Init
  BY DEF Init, Contract!Init, PhaseOf
<1>2. IInv /\ IInv' /\ CallSteps => Contract!Next
  <2> SUFFICES ASSUME IInv, IInv', CallSteps PROVE Contract!Next
    OBVIOUS
  <2>1. \A u \in Token :
          /\ calls[u] \in [complete : Nat, destroy : Nat]
          /\ calls[u].complete <= 1 /\ calls[u].destroy <= 1
          /\ calls'[u] \in [complete : Nat, destroy : Nat]
          /\ calls'[u].complete <= 1 /\ calls'[u].destroy <= 1
    BY DEF IInv, TypeOK, CallbackContract
  <2>2. \A u \in Token : ph[u] = PhaseOf(calls[u]) /\ ph'[u] = PhaseOf(calls'[u])
    OBVIOUS
  <2>3. ph' \in [Token -> Contract!Phase]
    BY <2>1, PhaseOfCalls DEF Contract!Phase
  <2>4. ASSUME NEW u \in Token PROVE ph'[u] = ph[u] \/ Contract!Step(ph[u], ph'[u])
    BY <2>1, <2>2, PhaseOfCalls DEF CallSteps, CallStep, Contract!Step, Contract!Free
  <2> QED BY <2>3, <2>4 DEF Contract!Next
<1>3. IInv /\ [Next]_vars => IInv' /\ CallSteps
  BY IInvNext
<1> QED BY <1>1, <1>2, <1>3, IInvAlways, PTL DEF Spec, ContractSpec, Contract!Spec

(***************************************************************************)
(* Serials.  What a step does to the requests and to the answers owed: it  *)
(* only takes some away, or it adds an answer under a new serial.          *)
(***************************************************************************)
Survives(a) ==
  /\ a \in Live
  /\ heap'[a].id = heap[a].id /\ heap'[a].ud = heap[a].ud /\ heap'[a].kind = heap[a].kind

Issued == CanIssue /\ lastId' = NewReqId

Quiet ==
  /\ lastId' = lastId \/ Issued
  /\ wire' \subseteq wire
  /\ \A a \in Live' : Survives(a)

Indicated ==
  /\ Issued
  /\ wire' = wire \cup {[id |-> NewReqId, kind |-> "setCallIndication", ud |-> NoToken]}
  /\ \A a \in Live' : Survives(a)

Submitted(k, u, a) ==
  /\ Issued
  /\ wire' = wire \cup {[id |-> NewReqId, kind |-> k, ud |-> u]}
  /\ heap'[a].id = NewReqId /\ heap'[a].ud = u /\ heap'[a].kind = k
  /\ \A b \in Live' : b = a \/ (Survives(b) /\ heap[b].id # NewReqId)

(* The steps after which the modem owes an answer more. *)
Sends ==
  \/ HandleIncomingCallIndication
  \/ \E k \in Kinds, u \in Token \cup {NoToken}, w \in BOOLEAN : SubmitAccepted(k, u, w)

LEMMA RemoveSurvives ==
  ASSUME IInv, NEW id \in Ids, heap' = FreeBlocks(Entry(id)) PROVE \A a \in Live' : Survives(a)
<1>1. Live' = Live \ Entry(id) /\ \A a \in Live' : heap'[a] = heap[a]
  BY EntryInAddr, FreeFacts DEF IInv
<1> QED BY <1>1 DEF Survives

LEMMA SubmittedStep ==
  ASSUME IInv, NEW k \in Kinds, NEW u \in Token \cup {NoToken}, NEW w \in BOOLEAN,
         SubmitAccepted(k, u, w)
  PROVE  \E a \in Addr : Submitted(k, u, a)
<1> DEFINE id == NewReqId
           D == Entry(id)
<1> USE DEF IInv
<1>1. PICK a \in Addr \ Live, t \in {t \in Tx : txs[t] = NoAddr} :
        /\ lastId' = id
        /\ heap' = [FreeBlocks(D) EXCEPT ![a] = RequestAlloc(id, k, u, w, t)]
        /\ wire' = wire \cup {[id |-> id, kind |-> k, ud |-> u]}
  BY DEF SubmitAccepted
<1>2. id \in Ids /\ \A b \in Live : b \in D <=> heap[b].id = id
  BY NewReqIdInIds, EntryFacts
<1>3. heap'[a] = RequestAlloc(id, k, u, w, t)
      /\ \A b \in Addr \ {a} : heap'[b] = IF b \in D THEN Freed ELSE heap[b]
  BY <1>1 DEF FreeBlocks
<1>4. heap'[a].id = id /\ heap'[a].ud = u /\ heap'[a].kind = k
  BY <1>3 DEF RequestAlloc
<1>5. ASSUME NEW b \in Live', b # a PROVE Survives(b) /\ heap[b].id # id
  <2>1. b \in Addr /\ heap'[b].kind # "freed"
    BY DEF Live
  <2>2. b \notin D /\ heap'[b] = heap[b]
    BY <1>3, <1>5, <2>1 DEF Freed
  <2> QED BY <1>2, <2>1, <2>2 DEF Survives, Live
<1> QED BY <1>1, <1>4, <1>5 DEF Submitted, Issued, SubmitAccepted

LEMMA StepCases ==
  ASSUME IInv, [Next]_vars
  PROVE  \/ Quiet
         \/ Sends /\ Indicated
         \/ Sends /\ \E k \in Kinds, u \in Token \cup {NoToken}, a \in Addr : Submitted(k, u, a)
<1> DEFINE Goal == \/ Quiet
                   \/ Sends /\ Indicated
                   \/ Sends /\ \E k \in Kinds, u \in Token \cup {NoToken}, a \in Addr :
                                 Submitted(k, u, a)
<1>1. ASSUME NEW k \in Kinds, NEW u \in Token \cup {NoToken}, NEW w \in BOOLEAN,
             SubmitAccepted(k, u, w)
      PROVE  Goal
  BY <1>1, SubmittedStep DEF Sends
<1>2. ASSUME NEW u \in Token \cup {NoToken}, NEW w \in BOOLEAN, SubmitRefused(u, w) PROVE Goal
  BY <1>2, NewReqIdInIds, RemoveSurvives DEF SubmitRefused, Quiet, Issued, IInv
<1>3. ASSUME NEW id \in Ids, Cancel(id) PROVE Goal
  BY <1>3, RemoveSurvives DEF Cancel, RemoveRequest, Quiet
<1>4. ASSUME ResponseEnd PROVE Goal
  BY <1>4, RemoveSurvives DEF ResponseEnd, RemoveRequest, Quiet, IInv, TypeOK
<1>5. ASSUME NEW t \in Tx, RequestSent(t) PROVE Goal
  <2>1. txs[t] \in Live /\ heap[txs[t]] \in Request
    BY <1>5 DEF RequestSent, IInv, TxOwned, TypeOK, Live
  <2>2. \A b \in Addr : /\ heap'[b].kind = heap[b].kind
                        /\ heap'[b].id = heap[b].id
                        /\ heap'[b].ud = heap[b].ud
    BY <1>5, <2>1 DEF RequestSent, IInv, TypeOK, Request
  <2> QED BY <1>5, <2>2 DEF RequestSent, Quiet, Survives, Live
<1>6. ASSUME lastId' = lastId \/ Issued, wire' \subseteq wire, heap' = heap PROVE Quiet
  BY <1>6 DEF Quiet, Survives, Live
<1>7. ASSUME NEW m \in wire, Response(m) \/ AnswerLost(m) PROVE Goal
  BY <1>6, <1>7 DEF Response, ResponseBegin, ResponseFailed, ResponseIgnored, AnswerLost
<1>8. ASSUME HandleIncomingCallIndication PROVE Goal
  BY <1>8 DEF HandleIncomingCallIndication, Sends, Indicated, Issued, Survives, Live
<1>9. ASSUME OtherSlotRequest \/ UNCHANGED vars PROVE Goal
  BY <1>6, <1>9 DEF OtherSlotRequest, Issued, vars
<1> QED BY <1>1, <1>2, <1>3, <1>4, <1>5, <1>7, <1>8, <1>9 DEF Next

(***************************************************************************)
(* A serial is free if no request and no answer that is owed bears it.     *)
(***************************************************************************)
SerialFree == requests[NewReqId] = NoAddr /\ \A m \in wire : m.id # NewReqId

(* The counter may wrap around, but only serials that are free are used.   *)
OnlyFreeSerials == [][Sends => SerialFree]_vars

(* AnswersOwnRequest, said of the heap. *)
OwnAnswers ==
  \A m \in wire : \A a \in Live :
    heap[a].id = m.id => heap[a].ud = m.ud /\ heap[a].kind = m.kind

LEMMA OwnAnswersMeans == IInv /\ OwnAnswers => AnswersOwnRequest
<1> SUFFICES ASSUME IInv, OwnAnswers, NEW m \in wire, NEW a \in Entry(m.id)
             PROVE  heap[a].ud = m.ud /\ heap[a].kind = m.kind
  BY DEF AnswersOwnRequest
<1>1. m.id \in Ids
  BY DEF IInv, TypeOK, Message
<1>2. a \in Live /\ heap[a].id = m.id
  BY <1>1, EntryFacts DEF IInv
<1> QED BY <1>2 DEF OwnAnswers

LEMMA OwnAnswersNext ==
  ASSUME IInv, OwnAnswers, [Next]_vars, Sends => SerialFree PROVE OwnAnswers'
<1> SUFFICES ASSUME NEW m \in wire', NEW a \in Live', heap'[a].id = m.id
             PROVE  heap'[a].ud = m.ud /\ heap'[a].kind = m.kind
  BY DEF OwnAnswers
<1>1. ASSUME m \in wire, Survives(a) PROVE heap'[a].ud = m.ud /\ heap'[a].kind = m.kind
  BY <1>1 DEF Survives, OwnAnswers
<1>2. CASE Quiet
  BY <1>1, <1>2 DEF Quiet
<1>3. ASSUME SerialFree, NEW b \in Live PROVE heap[b].id # NewReqId
  <2>1. b \in Addr /\ requests[heap[b].id] = b
    BY DEF IInv, TableSound, Live
  <2> QED BY <1>3, <2>1, NullAssumption DEF SerialFree
<1>4. CASE Sends /\ Indicated
  <2>1. Survives(a) /\ heap[a].id # NewReqId
    BY <1>3, <1>4 DEF Indicated, Survives
  <2>2. m.id # NewReqId
    BY <2>1 DEF Survives
  <2>3. m \in wire
    BY <1>4, <2>2 DEF Indicated
  <2> QED BY <1>1, <2>1, <2>3
<1>5. ASSUME Sends, NEW k \in Kinds, NEW u \in Token \cup {NoToken}, NEW b \in Addr,
             Submitted(k, u, b)
      PROVE  heap'[a].ud = m.ud /\ heap'[a].kind = m.kind
  <2>1. CASE a = b
    <3>1. m.id = NewReqId
      BY <1>5, <2>1 DEF Submitted
    <3>2. m = [id |-> NewReqId, kind |-> k, ud |-> u]
      BY <1>5, <3>1 DEF Submitted, SerialFree
    <3> QED BY <1>5, <2>1, <3>2 DEF Submitted
  <2>2. CASE a # b
    <3>1. Survives(a) /\ heap[a].id # NewReqId
      BY <1>5, <2>2 DEF Submitted
    <3>2. m.id # NewReqId
      BY <3>1 DEF Survives
    <3>3. m \in wire
      BY <1>5, <3>2 DEF Submitted
    <3> QED BY <1>1, <3>1, <3>3
  <2> QED BY <2>1, <2>2
<1> QED BY <1>2, <1>4, <1>5, StepCases

(* An answer completes the request it was sent for, also when the counter  *)
(* has wrapped around, as long as no serial is used again while a request  *)
(* or an answer on its way bears it.                                       *)
THEOREM AnswersReachTheirRequestAfterWrap == Spec /\ OnlyFreeSerials => []AnswersOwnRequest
<1>1. Init => OwnAnswers
  BY DEF Init, OwnAnswers
<1>2. IInv /\ OwnAnswers /\ [Next]_vars /\ [Sends => SerialFree]_vars => OwnAnswers'
  <2> SUFFICES ASSUME IInv, OwnAnswers, [Next]_vars, [Sends => SerialFree]_vars
               PROVE  OwnAnswers'
    OBVIOUS
  <2>1. CASE Sends => SerialFree
    BY <2>1, OwnAnswersNext
  <2>2. CASE UNCHANGED vars
    BY <2>2 DEF vars, OwnAnswers, Live
  <2> QED BY <2>1, <2>2
<1> QED BY <1>1, <1>2, OwnAnswersMeans, IInvAlways, PTL DEF Spec, OnlyFreeSerials

(***************************************************************************)
(* While the counter has not wrapped (fewer than IdSpace requests were     *)
(* made since the plugin was loaded), every serial that is used is free.   *)
(***************************************************************************)
SerialsBounded ==
  /\ lastId <= MaxId
  /\ \A m \in wire : 0 < m.id /\ m.id <= lastId
  /\ \A a \in Live : heap[a].id <= lastId

LEMMA NewReqIdFresh ==
  ASSUME TypeOK, SerialsBounded, CanIssue, MaxId < IdSpace
  PROVE  NewReqId = lastId + 1 /\ NewReqId <= MaxId
<1>1. lastId \in Nat /\ lastId + 1 \in 0 .. IdSpace - 1 /\ lastId + 1 <= MaxId
  BY IdAssumption DEF TypeOK, Ids, SerialsBounded, CanIssue
<1>2. (lastId + 1) % IdSpace = lastId + 1
  BY <1>1, IdAssumption
<1> QED BY <1>1, <1>2 DEF NewReqId

LEMMA SerialTyped ==
  ASSUME TypeOK
  PROVE  /\ lastId \in Nat
         /\ \A m \in wire : m.id \in Ids /\ m.id \in Nat
         /\ \A a \in Addr : heap[a].id \in Ids /\ heap[a].id \in Nat
  BY IdAssumption DEF TypeOK, Message, Request, Ids

LEMMA FreshIsFree ==
  ASSUME IInv, SerialsBounded, CanIssue, MaxId < IdSpace PROVE SerialFree
<1>1. NewReqId = lastId + 1 /\ NewReqId \in Ids
  BY NewReqIdFresh, NewReqIdInIds DEF IInv
<1>2. \A m \in wire : m.id # NewReqId
  BY <1>1, SerialTyped DEF IInv, SerialsBounded
<1>3. requests[NewReqId] = NoAddr
  BY <1>1, SerialTyped DEF IInv, SerialsBounded, TableSound, Live
<1> QED BY <1>2, <1>3 DEF SerialFree

LEMMA SerialsBoundedNext ==
  ASSUME IInv, SerialsBounded, [Next]_vars, MaxId < IdSpace PROVE SerialsBounded'
<1>1. /\ lastId \in Nat
      /\ \A m \in wire : m.id \in Nat
      /\ \A a \in Live : heap[a].id \in Nat
  BY SerialTyped DEF IInv, Live
<1>2. lastId' = lastId \/ Issued => lastId' \in Nat /\ lastId <= lastId' /\ lastId' <= MaxId
  BY <1>1, NewReqIdFresh, IdAssumption DEF IInv, Issued, SerialsBounded
<1>3. Issued => 0 < NewReqId /\ NewReqId <= lastId'
  BY <1>1, NewReqIdFresh DEF IInv, Issued
<1>4. ASSUME NEW a \in Live', Survives(a), lastId' = lastId \/ Issued
      PROVE  heap'[a].id <= lastId'
  BY <1>1, <1>2, <1>4 DEF Survives, SerialsBounded
<1>5. CASE Quiet
  <2>1. \A m \in wire' : 0 < m.id /\ m.id <= lastId'
    BY <1>1, <1>2, <1>5 DEF Quiet, SerialsBounded
  <2> QED BY <1>2, <1>4, <1>5, <2>1 DEF Quiet, SerialsBounded
<1>6. CASE Indicated
  <2>1. \A m \in wire' : 0 < m.id /\ m.id <= lastId'
    BY <1>1, <1>2, <1>3, <1>6 DEF Indicated, SerialsBounded
  <2> QED BY <1>2, <1>4, <1>6, <2>1 DEF Indicated, SerialsBounded
<1>7. ASSUME NEW k, NEW u, NEW b, Submitted(k, u, b) PROVE SerialsBounded'
  <2>1. \A m \in wire' : 0 < m.id /\ m.id <= lastId'
    BY <1>1, <1>2, <1>3, <1>7 DEF Submitted, SerialsBounded
  <2>2. \A a \in Live' : heap'[a].id <= lastId'
    BY <1>3, <1>4, <1>7 DEF Submitted
  <2> QED BY <1>2, <1>7, <2>1, <2>2 DEF Submitted, SerialsBounded
<1> QED BY <1>5, <1>6, <1>7, StepCases

LEMMA SerialsBoundedAlways == ASSUME MaxId < IdSpace PROVE Spec => []SerialsBounded
<1>1. Init => SerialsBounded
  BY IdAssumption DEF Init, SerialsBounded, Live, Freed
<1>2. IInv /\ SerialsBounded /\ [Next]_vars => SerialsBounded'
  BY SerialsBoundedNext
<1> QED BY <1>1, <1>2, IInvAlways, PTL DEF Spec

LEMMA SerialsStayFree == ASSUME MaxId < IdSpace PROVE Spec => OnlyFreeSerials
<1>1. IInv /\ SerialsBounded => (Sends => SerialFree)
  BY FreshIsFree DEF Sends, SubmitAccepted, HandleIncomingCallIndication
<1> QED BY <1>1, SerialsBoundedAlways, IInvAlways, PTL DEF OnlyFreeSerials

(* Before the counter wraps around an answer completes the request it was  *)
(* sent for, not a later one that was given its serial.                    *)
THEOREM AnswersReachTheirRequest ==
  ASSUME MaxId < IdSpace PROVE Spec => []AnswersOwnRequest
  BY SerialsStayFree, AnswersReachTheirRequestAfterWrap, PTL

(***************************************************************************)
(* Which answers are rejected.                                             *)
(***************************************************************************)
(* The answer that is subscribed to is the one the request waits for. *)
Expected(k) == ResponseCode[k] = AnswerCode[k]

LEMMA AnswersKnown ==
  ASSUME IInv, SerialsBounded, AnswersOwnRequest, NEW m \in wire, ResponseFailed(m)
  PROVE  m.kind \in DOMAIN ResponseCode /\ ~Expected(m.kind)
<1>1. m.id \in Ids /\ m.id # 0
  BY SerialTyped DEF IInv, SerialsBounded
<1>2. requests[m.id] # NoAddr /\ ~Matches(m)
  BY <1>1 DEF ResponseFailed, ResponseFails
<1>3. requests[m.id] \in Entry(m.id)
  BY <1>2 DEF Entry
<1>4. heap[requests[m.id]].kind = m.kind /\ requests[m.id] \in Live
  BY <1>1, <1>3, EntryFacts DEF AnswersOwnRequest, IInv
<1>5. m.kind \in DOMAIN ResponseCode
  BY <1>4 DEF IInv, TypeOK, Request, Live
<1> QED BY <1>1, <1>2, <1>4, <1>5 DEF Matches, Expected

(* mtk_radio_ext_response rejects no answer but those of requests that     *)
(* were allocated with another response code than the service answers      *)
(* with; these are setWifiEnabled and setWifiIpAddress.                    *)
THEOREM OnlyUnexpectedRejected ==
  ASSUME MaxId < IdSpace
  PROVE  Spec => [][\A m \in wire : ResponseFailed(m) =>
                      m.kind \in {"setWifiEnabled", "setWifiIpAddress"}]_vars
<1> DEFINE Rejected == \A m \in wire : ResponseFailed(m) =>
                         m.kind \in {"setWifiEnabled", "setWifiIpAddress"}
<1>1. \A k \in DOMAIN ResponseCode :
        ~Expected(k) => k \in {"setWifiEnabled", "setWifiIpAddress"}
  BY DEF Expected, ResponseCode, AnswerCode
<1>2. IInv /\ SerialsBounded /\ AnswersOwnRequest => Rejected
  BY <1>1, AnswersKnown
<1> QED BY <1>2, IInvAlways, SerialsBoundedAlways, AnswersReachTheirRequest, PTL

(* Callers that make none of these two requests never have an answer       *)
(* rejected: the property that a run refutes holds for all the others.     *)
THEOREM NoneRejectedWithoutWifi ==
  ASSUME MaxId < IdSpace, Kinds \cap {"setWifiEnabled", "setWifiIpAddress"} = {}
  PROVE  Spec => NoAnswerRejected
<1> DEFINE Own == \A m \in wire : m.kind \in Kinds \cup {"setCallIndication"}
           Rejects == \E m \in Message : ResponseFailed(m)
<1>1. Init => Own
  BY DEF Init
<1>2. IInv /\ Own /\ [Next]_vars => Own'
  <2> SUFFICES ASSUME IInv, Own, [Next]_vars PROVE Own'
    OBVIOUS
  <2>1. CASE Quiet
    BY <2>1 DEF Quiet
  <2>2. CASE Indicated
    BY <2>2 DEF Indicated
  <2>3. ASSUME NEW k \in Kinds, NEW u, NEW a, Submitted(k, u, a) PROVE Own'
    BY <2>3 DEF Submitted
  <2> QED BY <2>1, <2>2, <2>3, StepCases
<1>3. \A k \in Kinds : Expected(k)
  BY KindsAssumption DEF Expected, ResponseCode, AnswerCode
<1>4. "setCallIndication" \notin DOMAIN ResponseCode
  BY DEF ResponseCode
<1>5. IInv /\ SerialsBounded /\ AnswersOwnRequest /\ Own => \A m \in Message : ~ResponseFailed(m)
  BY <1>3, <1>4, AnswersKnown DEF ResponseFailed
<1> QED BY <1>1, <1>2, <1>5, IInvAlways, SerialsBoundedAlways, AnswersReachTheirRequest, PTL
     DEF Spec, NoAnswerRejected

(***************************************************************************)
(* Nothing is stranded.                                                    *)
(***************************************************************************)
(* Every request in the table will be ended by an answer that is owed and  *)
(* that the handler accepts, or is being ended.                            *)
NothingStranded ==
  \A a \in Live :
    \/ \E m \in wire : m.id = heap[a].id /\ Matches(m)
    \/ dispatching # 0 /\ dispatching = heap[a].id

Answered(a) ==
  \E m \in wire : m.id = heap[a].id /\ ResponseCode[heap[a].kind] = AnswerCode[m.kind]

AllAnswered == \A a \in Live : Answered(a) \/ (dispatching # 0 /\ dispatching = heap[a].id)

LEMMA AllAnsweredMeans == IInv /\ SerialsBounded /\ AllAnswered => NothingStranded
<1> SUFFICES ASSUME IInv, SerialsBounded, NEW a \in Live,
                    NEW m \in wire, m.id = heap[a].id,
                    ResponseCode[heap[a].kind] = AnswerCode[m.kind]
             PROVE  Matches(m)
  BY DEF AllAnswered, Answered, NothingStranded
<1>1. requests[m.id] = a /\ a \in Addr
  BY DEF IInv, TableSound, Live
<1>2. m.id # 0
  BY DEF SerialsBounded
<1> QED BY <1>1, <1>2, NullAssumption DEF Matches

(* An answer goes only when its request is being ended, or is not there,   *)
(* or when it is not the one that the request waits for.                   *)
LEMMA AnswerTaken ==
  ASSUME IInv, SerialsBounded, ~Lossy, [Next]_vars,
         NEW a \in Live, NEW m \in wire, m.id = heap[a].id,
         ResponseCode[heap[a].kind] = AnswerCode[m.kind]
  PROVE  m \in wire' \/ (dispatching' # 0 /\ dispatching' = heap[a].id)
<1>1. m.id # 0 /\ requests[m.id] = a /\ a \in Addr
  BY DEF IInv, TableSound, Live, SerialsBounded
<1>2. Matches(m)
  BY <1>1, NullAssumption DEF Matches
<1>3. ASSUME NEW n \in wire, Response(n)
      PROVE  m \in wire' \/ (dispatching' # 0 /\ dispatching' = heap[a].id)
  <2>1. CASE n = m
    <3>1. ~ResponseFailed(m) /\ ~ResponseIgnored(m)
      BY <1>1, <1>2, NullAssumption DEF ResponseFailed, ResponseFails, ResponseIgnored
    <3> QED BY <1>1, <1>3, <2>1, <3>1 DEF Response, ResponseBegin
  <2>2. CASE n # m
    BY <1>3, <2>2 DEF Response, ResponseBegin, ResponseFailed, ResponseIgnored
  <2> QED BY <2>1, <2>2
<1>4. CASE \E n \in wire : Response(n)
  BY <1>3, <1>4
<1>5. ASSUME ~ \E n \in wire : Response(n) PROVE m \in wire'
  BY <1>5 DEF Next, vars, SubmitAccepted, SubmitRefused, Cancel, RequestSent, ResponseEnd,
              HandleIncomingCallIndication, OtherSlotRequest, AnswerLost
<1> QED BY <1>4, <1>5

(* The request whose complete() runs stays the one that is being ended.    *)
LEMMA DispatchStays ==
  ASSUME IInv, [Next]_vars, dispatching # 0, NEW a \in Live', Survives(a),
         heap[a].id = dispatching
  PROVE  dispatching' = dispatching
<1>1. dispatching \in Ids
  BY DEF IInv, TypeOK
<1>2. ~ResponseEnd
  <2>1. ResponseEnd => Live' = Live \ Entry(dispatching)
    BY <1>1, EntryInAddr, FreeFacts DEF ResponseEnd, RemoveRequest, IInv
  <2>2. a \in Entry(dispatching)
    BY <1>1, EntryFacts DEF IInv, Survives
  <2> QED BY <2>1, <2>2
<1> QED BY <1>2 DEF Next, vars, SubmitAccepted, SubmitRefused, Cancel, RequestSent, Response,
                    ResponseBegin, ResponseFailed, ResponseIgnored,
                    HandleIncomingCallIndication, OtherSlotRequest, AnswerLost

LEMMA AllAnsweredNext ==
  ASSUME IInv, SerialsBounded, AllAnswered, [Next]_vars, ~Lossy, \A k \in Kinds : Expected(k)
  PROVE  AllAnswered'
<1> DEFINE Good(a) == Answered(a)' \/ (dispatching' # 0 /\ dispatching' = heap'[a].id)
<1> SUFFICES ASSUME NEW a \in Live' PROVE Good(a)
  BY DEF AllAnswered
<1>1. ASSUME Survives(a) PROVE Good(a)
  <2>1. a \in Live
    BY <1>1 DEF Survives
  <2>2. CASE Answered(a)
    <3>1. PICK m \in wire : m.id = heap[a].id /\ ResponseCode[heap[a].kind] = AnswerCode[m.kind]
      BY <2>2 DEF Answered
    <3>2. m \in wire' \/ (dispatching' # 0 /\ dispatching' = heap[a].id)
      BY <2>1, <3>1, AnswerTaken
    <3> QED BY <1>1, <3>1, <3>2 DEF Answered, Survives
  <2>3. CASE dispatching # 0 /\ dispatching = heap[a].id
    BY <1>1, <2>3, DispatchStays DEF Survives
  <2> QED BY <2>1, <2>2, <2>3 DEF AllAnswered
<1>2. CASE Quiet \/ Indicated
  BY <1>1, <1>2 DEF Quiet, Indicated
<1>3. ASSUME NEW k \in Kinds, NEW u \in Token \cup {NoToken}, NEW b \in Addr, Submitted(k, u, b)
      PROVE  Good(a)
  <2>1. CASE a = b
    <3> DEFINE n == [id |-> NewReqId, kind |-> k, ud |-> u]
    <3>1. n \in wire' /\ n.id = heap'[a].id /\ heap'[a].kind = k
      BY <1>3, <2>1 DEF Submitted
    <3>2. ResponseCode[heap'[a].kind] = AnswerCode[n.kind]
      BY <3>1 DEF Expected
    <3> QED BY <3>1, <3>2 DEF Answered
  <2> QED BY <1>1, <1>3, <2>1 DEF Submitted
<1> QED BY <1>2, <1>3, StepCases

(* With a modem that answers, a counter that has not wrapped and requests  *)
(* that wait for the answer they get, every request in the table has an    *)
(* answer on its way that will end it: no cancel, failed or unexpected     *)
(* answer or refused submission leaves one behind.  This is what           *)
(* EveryRequestReleased rests on, besides fairness.                        *)
THEOREM NothingStrandedAlways ==
  ASSUME MaxId < IdSpace, ~Lossy,
         Kinds \cap {"setWifiEnabled", "setWifiIpAddress"} = {}
  PROVE  Spec => []NothingStranded
<1>1. \A k \in Kinds : Expected(k)
  BY KindsAssumption DEF Expected, ResponseCode, AnswerCode
<1>2. Init => AllAnswered
  BY DEF Init, AllAnswered, Live, Freed
<1>3. IInv /\ SerialsBounded /\ AllAnswered /\ [Next]_vars => AllAnswered'
  BY <1>1, AllAnsweredNext
<1> QED BY <1>2, <1>3, AllAnsweredMeans, IInvAlways, SerialsBoundedAlways, PTL DEF Spec
=============================================================================
