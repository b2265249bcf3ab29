--------------------------- MODULE ImsCallProofs ----------------------------
(***************************************************************************)
(* Proofs about ImsCall, for every finite set of call ids, every set of    *)
(* heap blocks and every bound on the waiting indications.                 *)
(***************************************************************************)
EXTENDS ImsCall, FiniteSetTheorems, SequenceTheorems, TLAPS

LEMMA CardCallId == Cardinality(CallId) \in Nat
  BY SizeAssumption, FS_CardinalityType

(* Calls with pairwise different ids are no more than there are ids. *)
LEMMA IdsBoundLength ==
  ASSUME NEW n \in Nat, NEW f \in [1 .. n -> CallId],
         \A i, j \in 1 .. n : i # j => f[i] # f[j]
  PROVE  n <= Cardinality(CallId)
<1>1. IsFiniteSet(1 .. n) /\ Cardinality(1 .. n) = n
  BY FS_Interval
<1>2. SUFFICES ASSUME Cardinality(CallId) < Cardinality(1 .. n) PROVE FALSE
  BY <1>1, CardCallId
<1>3. \E x, y \in 1 .. n : x # y /\ f[x] = f[y]
  BY <1>1, <1>2, SizeAssumption, FS_PigeonHole
<1> QED BY <1>3

(***************************************************************************)
(* The inductive invariant.  KnownIds says what NoSilentChange leaves open *)
(* while the disconnect signal is emitted.                                 *)
(***************************************************************************)
EmittingListed == emitting # Null => emitting \in Listed

KnownIds == \A c \in known : \E d \in Calls : d.id = c.id

IInv == TypeOK /\ ListSound /\ EmittingListed /\ NoSilentChange /\ KnownIds

LEMMA ListedFacts ==
  ASSUME TypeOK, ListSound
  PROVE  /\ \A i \in 1 .. len : i \in Slots /\ pdata[i] \in Ptr /\ info[pdata[i]] \in Info
         /\ \A i, j \in 1 .. len : pdata[i] = pdata[j] => i = j
         /\ \A p \in Listed : p \in Ptr /\ info[p] \in Info /\ \E i \in 1 .. len : pdata[i] = p
         /\ \A p \in Ptr : p \notin Listed <=> info[p] = Freed
         /\ Calls \subseteq Info
<1>1. \A i \in 1 .. len : i \in Slots
  BY CardCallId DEF TypeOK, Slots
<1>2. \A p \in Listed : p \in Ptr /\ info[p] \in Info
  BY DEF TypeOK, ListSound
<1>3. \A i \in 1 .. len : pdata[i] \in Listed
  BY DEF Listed
<1>4. \A p \in Listed : \E i \in 1 .. len : pdata[i] = p
  BY DEF Listed
<1>5. \A p \in Ptr : p \notin Listed <=> info[p] = Freed
  BY DEF ListSound
<1>6. Calls \subseteq Info
  BY <1>2 DEF Calls
<1> QED BY <1>1, <1>2, <1>3, <1>4, <1>5, <1>6 DEF ListSound

(* Looking a call up or adding it keeps the list sound, and changes or     *)
(* adds only the call of the given id.                                     *)
LEMMA UpdateSound ==
  ASSUME TypeOK, ListSound, NEW id \in CallId, NEW state \in State, NEW p \in Ptr,
         UpdateCall(id, state, p)
  PROVE  /\ pdata' \in [Slots -> Ptr \cup {Null, Junk}]
         /\ len' \in 0 .. Cardinality(CallId)
         /\ info' \in [Ptr -> Info \cup {Freed}]
         /\ ListSound'
         /\ p \in Listed'
         /\ \A c \in Calls : \E d \in Calls' : d.id = c.id
<1>1. [id |-> id, state |-> state] \in Info
  BY DEF Info
<1>2. info' \in [Ptr -> Info \cup {Freed}] /\ info'[p] = [id |-> id, state |-> state]
      /\ \A q \in Ptr : q # p => info'[q] = info[q]
  BY <1>1 DEF UpdateCall, TypeOK
<1>3. len \in Nat /\ Cardinality(CallId) \in Nat
  BY CardCallId DEF TypeOK
<1>4. CASE Find(id) # {}
  <2>1. p \in Listed /\ info[p].id = id /\ pdata' = pdata /\ len' = len
    BY <1>4 DEF UpdateCall, Find
  <2>2. Listed' = Listed
    BY <2>1 DEF Listed
  <2>3. \A i \in 1 .. len : info'[pdata[i]].id = info[pdata[i]].id
    BY <1>2, <2>1, ListedFacts
  <2>4. ListSound'
    BY <1>1, <1>2, <2>1, <2>2, <2>3, ListedFacts, FreedAssumption DEF ListSound
  <2>5. \A c \in Calls : \E d \in Calls' : d.id = c.id
    BY <1>2, <2>1, <2>2, ListedFacts DEF Calls
  <2> QED BY <1>2, <2>1, <2>2, <2>4, <2>5 DEF TypeOK
<1>5. CASE Find(id) = {}
  <2>1. info[p] = Freed /\ len' = len + 1 /\ pdata' = [pdata EXCEPT ![len + 1] = p]
    BY <1>5 DEF UpdateCall
  <2>2. \A i \in 1 .. len : info[pdata[i]].id # id
    BY <1>5 DEF Find, Listed
  <2>3. p \notin Listed
    BY <2>1, ListedFacts
  <2>4. len' <= Cardinality(CallId)
    <3> DEFINE f == [i \in 1 .. len + 1 |-> IF i = len + 1 THEN id ELSE info[pdata[i]].id]
    <3>1. \A i \in 1 .. len + 1 : i # len + 1 => i \in 1 .. len
      BY <1>3
    <3>2. \A i \in 1 .. len : info[pdata[i]].id \in CallId
      BY ListedFacts DEF Info
    <3>3. f \in [1 .. len + 1 -> CallId]
      BY <3>1, <3>2
    <3>4. \A i, j \in 1 .. len + 1 : i # j => f[i] # f[j]
      BY <2>2, <3>1 DEF ListSound
    <3>5. len + 1 \in Nat
      BY <1>3
    <3> HIDE DEF f
    <3>6. len + 1 <= Cardinality(CallId)
      BY <3>3, <3>4, <3>5, IdsBoundLength
    <3> QED BY <2>1, <3>6
  <2>5. len + 1 \in Slots
    BY <1>3, <2>1, <2>4 DEF Slots
  <2>6. \A i \in 1 .. len + 1 : pdata'[i] = IF i = len + 1 THEN p ELSE pdata[i]
    BY <1>3, <2>1, <2>5, ListedFacts DEF TypeOK, Slots
  <2>7. Listed' = Listed \cup {p}
    <3>1. \A i \in 1 .. len : i \in 1 .. len + 1 /\ i # len + 1
      BY <1>3
    <3>2. \A i \in 1 .. len + 1 : i # len + 1 => i \in 1 .. len
      BY <1>3
    <3>3. len + 1 \in 1 .. len + 1
      BY <1>3
    <3> QED BY <2>1, <2>6, <3>1, <3>2, <3>3 DEF Listed
  <2>8. \A q \in Listed : info'[q] = info[q]
    BY <1>2, <2>3, ListedFacts
  <2>9. ListSound'
    <3>1. Listed' = {q \in Ptr : info'[q] # Freed}
      BY <1>1, <1>2, <2>3, <2>7, <2>8, ListedFacts, FreedAssumption
    <3>2. \A i \in 1 .. len + 1 : i # len + 1 => i \in 1 .. len
      BY <1>3
    <3>3. \A i \in 1 .. len : pdata'[i] = pdata[i] /\ info'[pdata[i]] = info[pdata[i]]
      BY <1>3, <2>6, <2>8 DEF Listed
    <3>4. pdata'[len + 1] = p /\ info'[p].id = id
      BY <1>2, <1>3, <2>6
    <3>5. \A i, j \in 1 .. len + 1 : i # j => info'[pdata'[i]].id # info'[pdata'[j]].id
      BY <2>2, <3>2, <3>3, <3>4 DEF ListSound
    <3> QED BY <2>1, <3>1, <3>5 DEF ListSound
  <2>10. \A c \in Calls : \E d \in Calls' : d.id = c.id
    BY <2>7, <2>8 DEF Calls
  <2>11. len' \in 0 .. Cardinality(CallId)
    BY <1>3, <2>1, <2>4
  <2>12. pdata' \in [Slots -> Ptr \cup {Null, Junk}]
    BY <2>1 DEF TypeOK
  <2> QED BY <1>2, <2>7, <2>9, <2>10, <2>11, <2>12
<1> QED BY <1>4, <1>5

(* Removing a call keeps the list sound and the other calls unchanged. *)
LEMMA RemoveSound ==
  ASSUME TypeOK, ListSound, NEW p \in Listed, RemoveCall(p)
  PROVE  /\ pdata' \in [Slots -> Ptr \cup {Null, Junk}]
         /\ len' \in 0 .. Cardinality(CallId)
         /\ info' \in [Ptr -> Info \cup {Freed}]
         /\ ListSound'
         /\ Listed' = Listed \ {p}
         /\ \A q \in Listed' : info'[q] = info[q]
<1> DEFINE at == CHOOSE i \in 1 .. len : pdata[i] = p
<1>1. at \in 1 .. len /\ pdata[at] = p
  BY ListedFacts
<1> HIDE DEF at
<1>2. /\ pdata' = [i \in Slots |-> IF i \in at .. len - 1 THEN pdata[i + 1] ELSE pdata[i]]
      /\ len' = len - 1
      /\ info' = [info EXCEPT ![p] = Freed]
  BY DEF RemoveCall, at
<1>3. len \in Nat /\ at \in Nat /\ 1 <= at /\ at <= len /\ Cardinality(CallId) \in Nat
      /\ len <= Cardinality(CallId)
  BY <1>1, CardCallId DEF TypeOK
<1>4. len' \in 0 .. Cardinality(CallId)
  BY <1>2, <1>3
<1>5. \A i \in Slots : i \in at .. len - 1 => i + 1 \in Slots
  BY <1>3 DEF Slots
<1>6. pdata' \in [Slots -> Ptr \cup {Null, Junk}]
  BY <1>2, <1>5 DEF TypeOK
<1>7. info' \in [Ptr -> Info \cup {Freed}] /\ p \in Ptr
      /\ \A q \in Ptr : info'[q] = IF q = p THEN Freed ELSE info[q]
  BY <1>2, ListedFacts DEF TypeOK
<1> DEFINE old(i) == IF i < at THEN i ELSE i + 1
<1>8. \A i \in 1 .. len - 1 : /\ old(i) \in 1 .. len
                              /\ old(i) # at
                              /\ pdata'[i] = pdata[old(i)]
  BY <1>2, <1>3 DEF Slots
<1>9. \A i, j \in 1 .. len - 1 : i # j => old(i) # old(j)
  BY <1>3
<1>10. \A k \in 1 .. len : k # at => \E i \in 1 .. len - 1 : old(i) = k
  <2> SUFFICES ASSUME NEW k \in 1 .. len, k # at PROVE \E i \in 1 .. len - 1 : old(i) = k
    OBVIOUS
  <2>1. CASE k < at
    BY <1>3, <2>1
  <2>2. CASE k > at
    <3>1. k - 1 \in 1 .. len - 1 /\ old(k - 1) = k
      BY <1>3, <2>2
    <3> QED BY <3>1
  <2> QED BY <2>1, <2>2, <1>3
<1> HIDE DEF old
<1>11. Listed' = Listed \ {p}
  <2>1. ASSUME NEW q \in Listed' PROVE q \in Listed \ {p}
    <3>1. PICK i \in 1 .. len - 1 : q = pdata'[i]
      BY <1>2, <2>1 DEF Listed
    <3>2. q = pdata[old(i)] /\ old(i) \in 1 .. len /\ old(i) # at
      BY <1>8, <3>1
    <3> QED BY <3>2, <1>1, ListedFacts DEF Listed
  <2>2. ASSUME NEW q \in Listed \ {p} PROVE q \in Listed'
    <3>1. PICK k \in 1 .. len : pdata[k] = q
      BY <2>2, ListedFacts
    <3>2. k # at
      BY <3>1, <1>1, <2>2
    <3>3. PICK i \in 1 .. len - 1 : old(i) = k
      BY <1>10, <3>2
    <3>4. q = pdata'[i]
      BY <1>8, <3>1, <3>3
    <3> QED BY <1>2, <3>4 DEF Listed
  <2> QED BY <2>1, <2>2
<1>12. \A q \in Listed' : info'[q] = info[q]
  BY <1>7, <1>11, ListedFacts
<1>13. ListSound'
  <2>1. Listed' = {q \in Ptr : info'[q] # Freed}
    BY <1>7, <1>11, ListedFacts, FreedAssumption
  <2>2. ASSUME NEW i \in 1 .. len - 1, NEW j \in 1 .. len - 1, i # j
        PROVE  info'[pdata'[i]].id # info'[pdata'[j]].id
    <3>1. old(i) \in 1 .. len /\ old(j) \in 1 .. len /\ old(i) # old(j)
      BY <1>8, <1>9, <2>2
    <3>2. pdata'[i] = pdata[old(i)] /\ pdata'[j] = pdata[old(j)]
      BY <1>8
    <3>3. pdata'[i] \in Listed' /\ pdata'[j] \in Listed'
      BY <1>2 DEF Listed
    <3> QED BY <1>12, <3>1, <3>2, <3>3 DEF ListSound
  <2> QED BY <1>2, <2>1, <2>2 DEF ListSound
<1> QED BY <1>4, <1>6, <1>7, <1>11, <1>12, <1>13

LEMMA InitInv == Init => IInv
<1> SUFFICES ASSUME Init PROVE IInv
  OBVIOUS
<1>1. Listed = {} /\ Calls = {}
  BY DEF Init, Listed, Calls
<1>2. TypeOK
  <2>1. Null \in Ptr \cup {Null, Junk} /\ Junk \in Ptr \cup {Null, Junk}
    OBVIOUS
  <2>2. pdata \in [Slots -> Ptr \cup {Null, Junk}]
    BY <2>1 DEF Init
  <2>3. inbox \in Seq([id : CallId, type : MsgType])
    BY DEF Init
  <2> QED BY <2>2, <2>3, CardCallId DEF Init, TypeOK, ModemState
<1> QED BY <1>1, <1>2
     DEF Init, IInv, ListSound, EmittingListed, NoSilentChange, KnownIds

(* Messages that the modem sends leave the list alone. *)
LEMMA SendInv ==
  ASSUME IInv, NEW id \in CallId, NEW type \in MsgType, Send(id, type),
         modem' \in [CallId -> ModemState]
  PROVE  IInv'
<1>1. inbox' \in Seq([id : CallId, type : MsgType])
  BY AppendProperties DEF Send, IInv, TypeOK
<1>2. UNCHANGED <<pdata, len, info, emitting, known>> /\ Listed' = Listed /\ Calls' = Calls
  BY DEF Send, Listed, Calls
<1>3. TypeOK'
  BY <1>1, <1>2 DEF IInv, TypeOK
<1> QED BY <1>2, <1>3 DEF IInv, ListSound, EmittingListed, NoSilentChange, KnownIds

LEMMA HeadTyped ==
  ASSUME TypeOK, inbox # <<>>
  PROVE  /\ Head(inbox) \in [id : CallId, type : MsgType]
         /\ Tail(inbox) \in Seq([id : CallId, type : MsgType])
         /\ MsgTypeToState[Head(inbox).type] # "invalid"
              => MsgTypeToState[Head(inbox).type] \in State
<1>1. /\ Head(inbox) \in [id : CallId, type : MsgType]
      /\ Tail(inbox) \in Seq([id : CallId, type : MsgType])
  BY HeadTailProperties DEF TypeOK
<1>2. \A type \in MsgType : MsgTypeToState[type] # "invalid" => MsgTypeToState[type] \in State
  BY DEF MsgType, MsgTypeToState, State
<1> QED BY <1>1, <1>2

(* What ofono reads from a sound list is the set of its calls. *)
LEMMA NotifyReadsCalls ==
  ASSUME NotifyCallsChanged PROVE known' = Calls'
  BY DEF NotifyCallsChanged, Calls, Listed

LEMMA HandlerInv ==
  ASSUME IInv, Handler PROVE IInv'
<1> USE DEF IInv
<1>1. CASE IgnoreCallInfo
  <2>1. UNCHANGED <<pdata, len, info, emitting, modem, known>> /\ inbox' = Tail(inbox)
        /\ inbox # <<>>
    BY <1>1 DEF IgnoreCallInfo
  <2>2. Listed' = Listed /\ Calls' = Calls
    BY <2>1 DEF Listed, Calls
  <2>3. TypeOK'
    BY <2>1, HeadTyped DEF TypeOK
  <2> QED BY <2>1, <2>2, <2>3 DEF ListSound, EmittingListed, NoSilentChange, KnownIds
<1>2. CASE HandleCallInfo
  <2>1. PICK p \in Ptr : UpdateCall(Head(inbox).id, MsgTypeToState[Head(inbox).type], p)
    BY <1>2 DEF HandleCallInfo
  <2>2. Head(inbox).id \in CallId /\ MsgTypeToState[Head(inbox).type] \in State
    BY <1>2, HeadTyped DEF HandleCallInfo
  <2>3. /\ pdata' \in [Slots -> Ptr \cup {Null, Junk}]
        /\ len' \in 0 .. Cardinality(CallId)
        /\ info' \in [Ptr -> Info \cup {Freed}]
        /\ ListSound'
    BY <2>1, <2>2, UpdateSound
  <2>4. known' = Calls'
    BY <1>2, NotifyReadsCalls DEF HandleCallInfo
  <2>5. Calls' \subseteq Info
    BY <2>3 DEF Calls, ListSound
  <2>6. emitting' = emitting /\ emitting = Null /\ modem' = modem /\ inbox' = Tail(inbox)
        /\ inbox # <<>>
    BY <1>2 DEF HandleCallInfo
  <2>7. TypeOK'
    BY <2>3, <2>4, <2>5, <2>6, HeadTyped DEF TypeOK
  <2> QED BY <2>3, <2>4, <2>6, <2>7 DEF EmittingListed, NoSilentChange, KnownIds
<1>3. CASE DisconnectBegin
  <2>1. PICK p \in Ptr : UpdateCall(Head(inbox).id, "disconnected", p) /\ emitting' = p
    BY <1>3 DEF DisconnectBegin
  <2>2. Head(inbox).id \in CallId /\ "disconnected" \in State
    BY <1>3, HeadTyped DEF DisconnectBegin, State
  <2>3. /\ pdata' \in [Slots -> Ptr \cup {Null, Junk}]
        /\ len' \in 0 .. Cardinality(CallId)
        /\ info' \in [Ptr -> Info \cup {Freed}]
        /\ ListSound'
        /\ p \in Listed'
        /\ \A c \in Calls : \E d \in Calls' : d.id = c.id
    BY <2>1, <2>2, UpdateSound
  <2>4. known' = known /\ modem' = modem /\ inbox' = Tail(inbox) /\ inbox # <<>> /\ emitting = Null
    BY <1>3 DEF DisconnectBegin
  <2>5. TypeOK'
    BY <2>1, <2>3, <2>4, HeadTyped DEF TypeOK
  <2>6. known = Calls
    BY <2>4 DEF NoSilentChange
  <2> QED BY <2>1, <2>3, <2>4, <2>5, <2>6, PtrAssumption
          DEF EmittingListed, NoSilentChange, KnownIds
<1>4. CASE DisconnectEnd
  <2>1. emitting \in Listed /\ RemoveCall(emitting) /\ emitting' = Null
        /\ UNCHANGED <<inbox, modem>>
    BY <1>4 DEF DisconnectEnd, EmittingListed
  <2>2. /\ pdata' \in [Slots -> Ptr \cup {Null, Junk}]
        /\ len' \in 0 .. Cardinality(CallId)
        /\ info' \in [Ptr -> Info \cup {Freed}]
        /\ ListSound'
    BY <2>1, RemoveSound
  <2>3. known' = Calls'
    BY <1>4, NotifyReadsCalls DEF DisconnectEnd
  <2>4. Calls' \subseteq Info
    BY <2>2 DEF Calls, ListSound
  <2>5. TypeOK'
    BY <2>1, <2>2, <2>3, <2>4 DEF TypeOK
  <2> QED BY <2>1, <2>2, <2>3, <2>5 DEF EmittingListed, NoSilentChange, KnownIds
<1> QED BY <1>1, <1>2, <1>3, <1>4 DEF Handler

LEMMA NextInv ==
  ASSUME IInv, [Next]_vars PROVE IInv'
<1>0. \A type \in MsgType : type \notin {"disconnected", "mo_call_id_assign"} =>
        MsgTypeToState[type] \in ModemState
  BY DEF MsgType, MsgTypeToState, ModemState, State
<1>1. ASSUME NEW id \in CallId, NEW type \in MsgType, CallStarts(id, type) PROVE IInv'
  <2>1. modem' \in [CallId -> ModemState]
    BY <1>0, <1>1 DEF CallStarts, IInv, TypeOK, ModemState
  <2> QED BY <1>1, <2>1, SendInv DEF CallStarts
<1>2. ASSUME NEW id \in CallId, NEW type \in MsgType, CallProgresses(id, type) PROVE IInv'
  <2>1. modem' \in [CallId -> ModemState]
    BY <1>0, <1>2 DEF CallProgresses, IInv, TypeOK
  <2> QED BY <1>2, <2>1, SendInv DEF CallProgresses
<1>3. ASSUME NEW id \in CallId, CallEnds(id) PROVE IInv'
  <2>1. modem' \in [CallId -> ModemState]
    BY <1>3 DEF CallEnds, IInv, TypeOK, ModemState
  <2>2. "disconnected" \in MsgType
    BY DEF MsgType, MsgTypeToState
  <2> QED BY <1>3, <2>1, <2>2, SendInv DEF CallEnds
<1>4. CASE Handler
  BY <1>4, HandlerInv
<1>5. CASE UNCHANGED vars
  BY <1>5 DEF vars, IInv, TypeOK, ListSound, EmittingListed, NoSilentChange, KnownIds,
              Listed, Calls
<1> QED BY <1>1, <1>2, <1>3, <1>4, <1>5 DEF Next

LEMMA IInvAlways == Spec => []IInv
<1>1. Init => IInv
  BY InitInv
<1>2. IInv /\ [Next]_vars => IInv'
  BY NextInv
<1> QED BY <1>1, <1>2, PTL DEF Spec

(* The list, its blocks and the indications keep their types; a block is   *)
(* free for every call the modem may start.                                *)
THEOREM TypeCorrect == Spec => []TypeOK
<1>1. IInv => TypeOK
  BY DEF IInv
<1> QED BY <1>1, IInvAlways, PTL

(* The list of the handler never holds a freed block, a block twice or a   *)
(* call id twice, and no block is lost.                                    *)
THEOREM ListSoundness == Spec => []ListSound
<1>1. IInv => ListSound
  BY DEF IInv
<1> QED BY <1>1, IInvAlways, PTL

(* Outside the disconnect signal ofono knows the list as it is. *)
THEOREM ChangesAnnounced == Spec => []NoSilentChange
<1>1. IInv => NoSilentChange
  BY DEF IInv
<1> QED BY <1>1, IInvAlways, PTL

(* A call that disappears from ofono's view is the one whose disconnect    *)
(* signal has just been emitted.                                           *)
THEOREM CallsLeaveByDisconnect == Spec => LeavesByDisconnect
<1> DEFINE A == \A c \in known : (\A d \in known' : d.id # c.id) =>
                   emitting # Null /\ info[emitting].id = c.id
<1>1. ASSUME IInv, [Next]_vars PROVE [A]_vars
  <2> USE <1>1 DEF IInv
  <2>1. CASE known' = known
    BY <2>1
  <2>2. CASE HandleCallInfo
    <3>1. PICK p \in Ptr : UpdateCall(Head(inbox).id, MsgTypeToState[Head(inbox).type], p)
      BY <2>2 DEF HandleCallInfo
    <3>2. Head(inbox).id \in CallId /\ MsgTypeToState[Head(inbox).type] \in State
      BY <2>2, HeadTyped DEF HandleCallInfo
    <3>3. \A c \in Calls : \E d \in Calls' : d.id = c.id
      BY <3>1, <3>2, UpdateSound
    <3>4. known = Calls /\ known' = Calls'
      BY <2>2, NotifyReadsCalls DEF HandleCallInfo, NoSilentChange
    <3> QED BY <3>3, <3>4
  <2>3. CASE DisconnectEnd
    <3>1. emitting # Null /\ emitting \in Listed /\ RemoveCall(emitting)
      BY <2>3 DEF DisconnectEnd, EmittingListed
    <3>2. Listed' = Listed \ {emitting} /\ \A q \in Listed' : info'[q] = info[q]
      BY <3>1, RemoveSound
    <3>3. known' = Calls'
      BY <2>3, NotifyReadsCalls DEF DisconnectEnd
    <3>4. \A q \in Listed : q # emitting => info[q] \in known'
      BY <3>2, <3>3 DEF Calls
    <3> QED BY <3>1, <3>4 DEF KnownIds, Calls
  <2> QED BY <2>1, <2>2, <2>3
          DEF Next, vars, CallStarts, CallProgresses, CallEnds, Send, Handler,
              IgnoreCallInfo, DisconnectBegin
<1> QED BY <1>1, IInvAlways, PTL DEF Spec, LeavesByDisconnect

(***************************************************************************)
(* ImsCall implements CallContract.                                        *)
(***************************************************************************)
(* What ofono takes for the state of a call when it has read the calls K. *)
At(K, id) ==
  IF \E c \in K : c.id = id THEN (CHOOSE c \in K : c.id = id).state ELSE "absent"

UniqueAt(K, id) == \A c, d \in K : c.id = id /\ d.id = id => c = d

OthersOf(K, id) == {c \in K : c.id # id}

(* While the disconnect signal is emitted ofono's view and the list agree  *)
(* on every other call.                                                    *)
OthersKnown ==
  emitting # Null => OthersOf(known, info[emitting].id) = OthersOf(Calls, info[emitting].id)

LEMMA AtUnique ==
  ASSUME NEW K, NEW c \in K, UniqueAt(K, c.id)
  PROVE  At(K, c.id) = c.state
<1>1. \E d \in K : d.id = c.id
  OBVIOUS
<1>2. (CHOOSE d \in K : d.id = c.id) \in K /\ (CHOOSE d \in K : d.id = c.id).id = c.id
  BY <1>1
<1>3. (CHOOSE d \in K : d.id = c.id) = c
  BY <1>2 DEF UniqueAt
<1> QED BY <1>1, <1>3 DEF At

(* Sets that differ only in the call e give every other call one state. *)
LEMMA AtOthers ==
  ASSUME NEW K, NEW L, NEW e, NEW id, id # e,
         OthersOf(K, e) = OthersOf(L, e), UniqueAt(L, id)
  PROVE  At(K, id) = At(L, id)
<1>1. \A c : c \in K /\ c.id = id <=> c \in L /\ c.id = id
  BY DEF OthersOf
<1>2. CASE \E c \in L : c.id = id
  <2>1. PICK c \in L : c.id = id
    BY <1>2
  <2>2. c \in K /\ UniqueAt(K, id)
    BY <1>1, <2>1 DEF UniqueAt
  <2> QED BY <2>1, <2>2, AtUnique
<1>3. CASE ~ \E c \in L : c.id = id
  BY <1>1, <1>3 DEF At
<1> QED BY <1>2, <1>3

LEMMA CallsUnique ==
  ASSUME TypeOK, ListSound, NEW id PROVE UniqueAt(Calls, id)
<1>1. \A i, j \in 1 .. len : info[pdata[i]].id = info[pdata[j]].id => i = j
  BY DEF ListSound
<1> QED BY <1>1 DEF UniqueAt, Calls, Listed

LEMMA CallsUniquePrime ==
  ASSUME TypeOK', ListSound', NEW id PROVE UniqueAt(Calls', id)
<1>1. \A i, j \in 1 .. len' : info'[pdata'[i]].id = info'[pdata'[j]].id => i = j
  BY DEF ListSound
<1> QED BY <1>1 DEF UniqueAt, Calls, Listed

(* An update gives the call its state and leaves the others as they are. *)
LEMMA UpdateOthers ==
  ASSUME TypeOK, ListSound, NEW id \in CallId, NEW state \in State, NEW p \in Ptr,
         UpdateCall(id, state, p)
  PROVE  /\ OthersOf(Calls', id) = OthersOf(Calls, id)
         /\ [id |-> id, state |-> state] \in Calls'
         /\ info'[p].id = id
<1>1. info'[p] = [id |-> id, state |-> state] /\ \A q \in Ptr : q # p => info'[q] = info[q]
  BY DEF UpdateCall, TypeOK
<1>2. p \in Listed'
  BY UpdateSound
<1>3. Listed' = Listed \cup {p} /\ (p \in Listed => info[p].id = id)
  <2>1. CASE Find(id) # {}
    BY <2>1 DEF UpdateCall, Find, Listed
  <2>2. CASE Find(id) = {}
    <3>1. info[p] = Freed /\ len' = len + 1 /\ pdata' = [pdata EXCEPT ![len + 1] = p]
      BY <2>2 DEF UpdateCall
    <3>2. len \in Nat /\ len + 1 \in 1 .. len + 1 /\ \A i \in 1 .. len : i \in 1 .. len + 1
      BY CardCallId DEF TypeOK
    <3>3. \A i \in 1 .. len + 1 : i # len + 1 => i \in 1 .. len
      BY <3>2
    <3>4. len' \in 0 .. Cardinality(CallId)
      BY UpdateSound
    <3>5. len + 1 \in Slots
      BY <3>1, <3>2, <3>4, CardCallId DEF Slots
    <3>6. pdata'[len + 1] = p /\ \A i \in 1 .. len : pdata'[i] = pdata[i]
      BY <3>1, <3>2, <3>5, ListedFacts DEF TypeOK
    <3>7. Listed' = Listed \cup {p}
      BY <3>1, <3>2, <3>3, <3>6 DEF Listed
    <3>8. p \notin Listed
      BY <3>1, ListedFacts
    <3> QED BY <3>7, <3>8
  <2> QED BY <2>1, <2>2
<1>4. \A q \in Listed : q \in Ptr
  BY ListedFacts
<1>5. OthersOf(Calls', id) = OthersOf(Calls, id)
  BY <1>1, <1>3, <1>4 DEF OthersOf, Calls
<1> QED BY <1>1, <1>2, <1>5 DEF Calls

LEMMA OthersKnownInv ==
  ASSUME IInv, OthersKnown, [Next]_vars PROVE OthersKnown'
<1> USE DEF IInv
<1>1. CASE DisconnectBegin
  <2>1. PICK p \in Ptr : UpdateCall(Head(inbox).id, "disconnected", p) /\ emitting' = p
    BY <1>1 DEF DisconnectBegin
  <2>2. Head(inbox).id \in CallId /\ "disconnected" \in State
    BY <1>1, HeadTyped DEF DisconnectBegin, State
  <2>3. OthersOf(Calls', Head(inbox).id) = OthersOf(Calls, Head(inbox).id)
        /\ info'[p].id = Head(inbox).id
    BY <2>1, <2>2, UpdateOthers
  <2>4. known' = known /\ known = Calls
    BY <1>1 DEF DisconnectBegin, NoSilentChange
  <2> QED BY <2>1, <2>3, <2>4 DEF OthersKnown
<1>2. CASE emitting' = Null
  BY <1>2 DEF OthersKnown
<1>3. CASE UNCHANGED <<pdata, len, info, emitting, known>>
  BY <1>3 DEF OthersKnown, Calls, Listed
<1> QED BY <1>1, <1>2, <1>3
        DEF Next, vars, CallStarts, CallProgresses, CallEnds, Send, Handler,
            IgnoreCallInfo, HandleCallInfo, DisconnectEnd

(***************************************************************************)
(* What a step changes of ofono's view.                                    *)
(***************************************************************************)
LEMMA SeenAt ==
  Seen = [id \in CallId |-> At(known, id)] /\ Seen' = [id \in CallId |-> At(known', id)]
  BY DEF Seen, At

LEMMA HandleCallInfoSeen ==
  ASSUME IInv, IInv', HandleCallInfo
  PROVE  /\ Head(inbox).id \in CallId
         /\ MsgTypeToState[Head(inbox).type] \in State \ {"disconnected"}
         /\ Seen' = [Seen EXCEPT ![Head(inbox).id] = MsgTypeToState[Head(inbox).type]]
         /\ EndingCall = Null /\ EndingCall' = Null
<1> USE DEF IInv
<1> DEFINE id == Head(inbox).id
           state == MsgTypeToState[Head(inbox).type]
<1>1. PICK p \in Ptr : UpdateCall(id, state, p)
  BY DEF HandleCallInfo
<1>2. id \in CallId /\ state \in State /\ state # "disconnected"
  <2>1. Head(inbox).type \in MsgType /\ Head(inbox).type # "disconnected"
        /\ MsgTypeToState[Head(inbox).type] # "invalid"
    BY HeadTyped DEF HandleCallInfo
  <2>2. \A type \in MsgType : type # "disconnected" => MsgTypeToState[type] # "disconnected"
    BY DEF MsgType, MsgTypeToState
  <2> QED BY <2>1, <2>2, HeadTyped DEF HandleCallInfo
<1> HIDE DEF id, state
<1>3. OthersOf(Calls', id) = OthersOf(Calls, id) /\ [id |-> id, state |-> state] \in Calls'
  BY <1>1, <1>2, UpdateOthers
<1>4. emitting = Null /\ emitting' = Null /\ known = Calls /\ known' = Calls'
  BY NotifyReadsCalls DEF HandleCallInfo, NoSilentChange
<1>5. At(known', id) = state
  <2>1. UniqueAt(Calls', id)
    BY CallsUniquePrime
  <2> QED BY <1>3, <1>4, <2>1, AtUnique
<1>6. \A c \in CallId : c # id => At(known', c) = At(known, c)
  BY <1>3, <1>4, CallsUnique, AtOthers
<1>7. Seen' = [Seen EXCEPT ![id] = state]
  BY SeenAt, <1>2, <1>5, <1>6
<1>8. EndingCall = Null /\ EndingCall' = Null
  BY <1>4 DEF EndingCall
<1> QED BY <1>2, <1>7, <1>8 DEF id, state

LEMMA DisconnectBeginSeen ==
  ASSUME IInv, IInv', DisconnectBegin
  PROVE  /\ Head(inbox).id \in CallId
         /\ EndingCall = Null /\ EndingCall' = Head(inbox).id
         /\ Seen' = Seen
<1> USE DEF IInv
<1>1. PICK p \in Ptr : UpdateCall(Head(inbox).id, "disconnected", p) /\ emitting' = p
  BY DEF DisconnectBegin
<1>2. Head(inbox).id \in CallId /\ "disconnected" \in State
  BY HeadTyped DEF DisconnectBegin, State
<1>3. info'[p].id = Head(inbox).id
  BY <1>1, <1>2, UpdateOthers
<1>4. known' = known /\ emitting = Null
  BY DEF DisconnectBegin
<1>5. EndingCall = Null /\ EndingCall' = Head(inbox).id /\ Seen' = Seen
  BY SeenAt, <1>1, <1>3, <1>4, PtrAssumption DEF EndingCall
<1> QED BY <1>2, <1>5

LEMMA DisconnectEndSeen ==
  ASSUME IInv, IInv', OthersKnown, DisconnectEnd
  PROVE  /\ EndingCall \in CallId /\ EndingCall' = Null
         /\ Seen' = [Seen EXCEPT ![EndingCall] = "absent"]
<1> USE DEF IInv
<1> DEFINE e == info[emitting].id
<1>1. emitting # Null /\ emitting \in Listed /\ RemoveCall(emitting) /\ emitting' = Null
  BY DEF DisconnectEnd, EmittingListed
<1>2. e \in CallId
  BY <1>1, ListedFacts DEF Info
<1> HIDE DEF e
<1>3. Listed' = Listed \ {emitting} /\ \A q \in Listed' : info'[q] = info[q]
  BY <1>1, RemoveSound
<1>4. known' = Calls'
  BY NotifyReadsCalls DEF DisconnectEnd
<1>5. \A q \in Listed : info[q].id = e => q = emitting
  BY <1>1 DEF ListSound, Listed, e
<1>6. Calls' = OthersOf(Calls, e)
  BY <1>1, <1>3, <1>5 DEF Calls, OthersOf, e
<1>7. OthersOf(known, e) = OthersOf(Calls, e)
  BY <1>1 DEF OthersKnown, e
<1>8. At(known', e) = "absent"
  BY <1>4, <1>6 DEF At, OthersOf
<1>9. \A c \in CallId : c # e => At(known', c) = At(known, c)
  <2>1. SUFFICES ASSUME NEW c \in CallId, c # e PROVE At(known', c) = At(known, c)
    OBVIOUS
  <2>2. At(known, c) = At(Calls, c)
    BY <1>7, <2>1, CallsUnique, AtOthers
  <2>3. OthersOf(known', e) = OthersOf(Calls, e)
    BY <1>4, <1>6 DEF OthersOf
  <2>4. At(known', c) = At(Calls, c)
    BY <2>1, <2>3, CallsUnique, AtOthers
  <2> QED BY <2>2, <2>4
<1>10. Seen' = [Seen EXCEPT ![e] = "absent"]
  BY SeenAt, <1>2, <1>8, <1>9
<1>11. EndingCall = e /\ EndingCall' = Null
  BY <1>1 DEF EndingCall, e
<1> QED BY <1>2, <1>10, <1>11

LEMMA OtherStepsSeen ==
  ASSUME [Next]_vars, ~HandleCallInfo, ~DisconnectBegin, ~DisconnectEnd
  PROVE  UNCHANGED <<Seen, EndingCall>>
<1>1. UNCHANGED <<pdata, len, info, emitting, known>>
  BY DEF Next, vars, CallStarts, CallProgresses, CallEnds, Send, Handler, IgnoreCallInfo
<1> QED BY <1>1 DEF Seen, EndingCall

(* Every step of the list is a step of the contract, or none of it. *)
LEMMA StepRefines ==
  ASSUME IInv, OthersKnown, [Next]_vars, IInv'
  PROVE  [Contract!Next]_<<Seen, EndingCall>>
<1>1. CASE HandleCallInfo
  <2>1. Contract!Changed(Head(inbox).id, MsgTypeToState[Head(inbox).type])
    BY <1>1, HandleCallInfoSeen DEF Contract!Changed
  <2> QED BY <1>1, <2>1, HandleCallInfoSeen DEF Contract!Next
<1>2. CASE DisconnectBegin
  BY <1>2, DisconnectBeginSeen DEF Contract!Next, Contract!Ending
<1>3. CASE DisconnectEnd
  BY <1>3, DisconnectEndSeen DEF Contract!Next, Contract!Ended
<1> QED BY <1>1, <1>2, <1>3, OtherStepsSeen

(* What get_calls shows ofono at the signals is what CallContract allows:  *)
(* one call at a time, no internal state, no call gone without its signal. *)
THEOREM ImplementsContract == Spec => ContractSpec
<1>1. Init => Contract!Init
  BY DEF Init, Contract!Init, Seen, EndingCall
<1>2. Init => OthersKnown
  BY DEF Init, OthersKnown
<1>3. IInv /\ OthersKnown /\ [Next]_vars => OthersKnown'
  BY OthersKnownInv
<1>4. IInv /\ OthersKnown /\ [Next]_vars /\ IInv' => [Contract!Next]_<<Seen, EndingCall>>
  BY StepRefines
<1> QED BY <1>1, <1>2, <1>3, <1>4, IInvAlways, PTL DEF Spec, ContractSpec, Contract!Spec

(***************************************************************************)
(* Once the indications are handled ofono knows the calls of the modem.    *)
(***************************************************************************)
(* The modem's view of a call, in the terms of ofono. *)
View(m, id) == IF m[id] \in {"idle", "unreported"} THEN "absent" ELSE m[id]

(* What an indication tells, and whether it tells anything. *)
Told(m) == IF m.type = "disconnected" THEN "absent" ELSE MsgTypeToState[m.type]

Tells(m) == Told(m) # "invalid"

(* The last indication of each call tells how it is. *)
LastTellsTrue ==
  \A i \in 1 .. Len(inbox) :
    /\ Tells(inbox[i])
    /\ \A j \in 1 .. Len(inbox) : i < j /\ Tells(inbox[j]) => inbox[j].id # inbox[i].id
    => Told(inbox[i]) = View(modem, inbox[i].id)

(* Of a call of which nothing is on its way, ofono knows how it is, or     *)
(* will when the disconnect signal returns.                                *)
KnownOrOnItsWay ==
  \A id \in CallId :
    (\A i \in 1 .. Len(inbox) : Tells(inbox[i]) => inbox[i].id # id) =>
      View(modem, id) = (IF EndingCall = id THEN "absent" ELSE Seen[id])

SyncInv == LastTellsTrue /\ KnownOrOnItsWay

LEMMA InboxTyped ==
  ASSUME TypeOK, NEW i \in 1 .. Len(inbox) PROVE inbox[i].id \in CallId
<1> DEFINE Msg == [id : CallId, type : MsgType]
<1>1. inbox \in Seq(Msg)
  BY DEF TypeOK
<1>2. \A m \in Msg : m.id \in CallId
  OBVIOUS
<1> HIDE DEF Msg
<1>3. inbox[i] \in Msg
  BY <1>1
<1> QED BY <1>2, <1>3

LEMMA SendSync ==
  ASSUME TypeOK, SyncInv, NEW id \in CallId, NEW type \in MsgType, Send(id, type),
         modem' \in [CallId -> ModemState],
         \A c \in CallId : c # id => modem'[c] = modem[c],
         IF type = "mo_call_id_assign" THEN View(modem', id) = View(modem, id)
         ELSE View(modem', id) = Told([id |-> id, type |-> type])
  PROVE  SyncInv'
<1> DEFINE n == Len(inbox)
           m == [id |-> id, type |-> type]
<1>1. /\ n \in Nat /\ Len(inbox') = n + 1
      /\ \A i \in 1 .. n : inbox'[i] = inbox[i]
      /\ inbox'[n + 1] = m
  BY DEF Send, TypeOK
<1>2. \A i \in 1 .. Len(inbox') : i \in 1 .. n \/ i = n + 1
  BY <1>1
<1>3. Tells(m) <=> type # "mo_call_id_assign"
  BY DEF Tells, Told, MsgType, MsgTypeToState
<1>4. m.id = id /\ \A i \in 1 .. n : inbox[i].id \in CallId
  BY InboxTyped
<1>5. \A c \in CallId : c # id => View(modem', c) = View(modem, c)
  BY DEF View
<1>6. Seen' = Seen /\ EndingCall' = EndingCall
  BY DEF Send, Seen, EndingCall
<1>7. n + 1 \in 1 .. Len(inbox') /\ \A i \in 1 .. n : i < n + 1 /\ i \in 1 .. Len(inbox')
  BY <1>1
<1>8. Tells(m) => View(modem', id) = Told(m)
  BY <1>3
<1>9. ~Tells(m) => View(modem', id) = View(modem, id)
  BY <1>3
<1> HIDE DEF n, m
<1>10. LastTellsTrue'
  <2>1. SUFFICES ASSUME NEW i \in 1 .. Len(inbox'), Tells(inbox'[i]),
                        \A j \in 1 .. Len(inbox') : i < j /\ Tells(inbox'[j]) =>
                          inbox'[j].id # inbox'[i].id
                 PROVE  Told(inbox'[i]) = View(modem', inbox'[i].id)
    BY DEF LastTellsTrue, View, Told, Tells
  <2>2. CASE i = n + 1
    BY <1>1, <1>4, <1>8, <2>1, <2>2
  <2>3. CASE i \in 1 .. n
    <3>1. inbox'[i] = inbox[i]
      BY <1>1, <2>3
    <3>2. \A j \in 1 .. n : i < j /\ Tells(inbox[j]) => inbox[j].id # inbox[i].id
      BY <1>1, <1>7, <2>1, <3>1
    <3>3. Told(inbox[i]) = View(modem, inbox[i].id)
      BY <2>1, <2>3, <3>1, <3>2 DEF SyncInv, LastTellsTrue, n
    <3>4. Tells(m) => inbox[i].id # id
      BY <1>1, <1>4, <1>7, <2>1, <2>3, <3>1
    <3>5. View(modem', inbox[i].id) = View(modem, inbox[i].id)
      BY <1>1, <1>4, <1>5, <1>9, <2>3, <3>1, <3>4
    <3> QED BY <3>1, <3>3, <3>5
  <2> QED BY <1>2, <2>2, <2>3
<1>11. KnownOrOnItsWay'
  <2>1. SUFFICES ASSUME NEW c \in CallId,
                        \A i \in 1 .. Len(inbox') : Tells(inbox'[i]) => inbox'[i].id # c
                 PROVE  View(modem', c) = (IF EndingCall = c THEN "absent" ELSE Seen[c])
    BY <1>6 DEF KnownOrOnItsWay
  <2>2. \A i \in 1 .. n : Tells(inbox[i]) => inbox[i].id # c
    BY <1>1, <1>7, <2>1
  <2>3. View(modem, c) = (IF EndingCall = c THEN "absent" ELSE Seen[c])
    BY <2>2 DEF SyncInv, KnownOrOnItsWay, n
  <2>4. Tells(m) => id # c
    BY <1>1, <1>4, <1>7, <2>1
  <2> QED BY <1>5, <1>9, <2>3, <2>4
<1> QED BY <1>10, <1>11 DEF SyncInv

(* The first indication is taken, and what it told arrives. *)
LEMMA TakeSync ==
  ASSUME TypeOK, SyncInv, inbox # <<>>, inbox' = Tail(inbox), modem' = modem,
         \A c \in CallId : c # Head(inbox).id \/ ~Tells(Head(inbox)) =>
           (IF EndingCall' = c THEN "absent" ELSE Seen'[c])
             = (IF EndingCall = c THEN "absent" ELSE Seen[c]),
         Tells(Head(inbox)) =>
           Told(Head(inbox)) = (IF EndingCall' = Head(inbox).id THEN "absent"
                                ELSE Seen'[Head(inbox).id])
  PROVE  SyncInv'
<1>1. /\ Len(inbox) \in Nat \ {0} /\ Len(inbox') = Len(inbox) - 1
      /\ Head(inbox) = inbox[1]
      /\ \A i \in 1 .. Len(inbox') : i + 1 \in 1 .. Len(inbox) /\ inbox'[i] = inbox[i + 1]
  BY DEF TypeOK
<1>2. \A k \in 1 .. Len(inbox) : 1 < k =>
        k - 1 \in 1 .. Len(inbox') /\ (k - 1) + 1 = k /\ inbox'[k - 1] = inbox[k]
  <2>1. \A k \in 1 .. Len(inbox) : 1 < k => k - 1 \in 1 .. Len(inbox') /\ (k - 1) + 1 = k
    BY <1>1
  <2> QED BY <1>1, <2>1
<1>3. \A c \in CallId : View(modem', c) = View(modem, c)
  BY DEF View
<1>4. \A i \in 1 .. Len(inbox) : inbox[i].id \in CallId
  BY InboxTyped
<1>5. LastTellsTrue'
  <2>1. SUFFICES ASSUME NEW i \in 1 .. Len(inbox'), Tells(inbox'[i]),
                        \A j \in 1 .. Len(inbox') : i < j /\ Tells(inbox'[j]) =>
                          inbox'[j].id # inbox'[i].id
                 PROVE  Told(inbox'[i]) = View(modem', inbox'[i].id)
    BY DEF LastTellsTrue, View, Told, Tells
  <2>2. i + 1 \in 1 .. Len(inbox) /\ inbox'[i] = inbox[i + 1]
    BY <1>1
  <2>3. ASSUME NEW k \in 1 .. Len(inbox), i + 1 < k, Tells(inbox[k])
        PROVE  inbox[k].id # inbox[i + 1].id
    <3>1. k - 1 \in 1 .. Len(inbox') /\ i < k - 1 /\ inbox'[k - 1] = inbox[k]
      BY <1>1, <1>2, <2>3
    <3> QED BY <2>1, <2>2, <2>3, <3>1
  <2>4. Told(inbox[i + 1]) = View(modem, inbox[i + 1].id)
    BY <2>1, <2>2, <2>3 DEF SyncInv, LastTellsTrue
  <2> QED BY <1>3, <1>4, <2>2, <2>4
<1>6. KnownOrOnItsWay'
  <2>1. SUFFICES ASSUME NEW c \in CallId,
                        \A i \in 1 .. Len(inbox') : Tells(inbox'[i]) => inbox'[i].id # c
                 PROVE  View(modem, c) = (IF EndingCall' = c THEN "absent" ELSE Seen'[c])
    BY <1>3 DEF KnownOrOnItsWay
  <2>2. \A k \in 1 .. Len(inbox) : 1 < k /\ Tells(inbox[k]) => inbox[k].id # c
    BY <1>2, <2>1
  <2>3. CASE Tells(inbox[1]) /\ inbox[1].id = c
    <3>1. Told(inbox[1]) = View(modem, c)
      BY <1>1, <2>2, <2>3 DEF SyncInv, LastTellsTrue
    <3> QED BY <1>1, <2>3, <3>1
  <2>4. CASE ~(Tells(inbox[1]) /\ inbox[1].id = c)
    <3>1. \A k \in 1 .. Len(inbox) : k = 1 \/ 1 < k
      BY <1>1
    <3>2. View(modem, c) = (IF EndingCall = c THEN "absent" ELSE Seen[c])
      BY <2>2, <2>4, <3>1 DEF SyncInv, KnownOrOnItsWay
    <3> QED BY <1>1, <2>4, <3>2
  <2> QED BY <2>3, <2>4
<1> QED BY <1>5, <1>6 DEF SyncInv

LEMMA ModemSync ==
  ASSUME IInv, SyncInv, IInv', NEW id \in CallId, NEW type \in MsgType,
         CallStarts(id, type) \/ CallProgresses(id, type) \/ CallEnds(id)
  PROVE  SyncInv'
<1>1. TypeOK /\ modem \in [CallId -> ModemState] /\ modem' \in [CallId -> ModemState]
  BY DEF IInv, TypeOK
<1>2. CASE CallStarts(id, type)
  <2>1. Send(id, type) /\ \A c \in CallId : c # id => modem'[c] = modem[c]
    BY <1>1, <1>2 DEF CallStarts
  <2>2. CASE type = "setup"
    <3>1. modem'[id] = "incoming"
      BY <1>1, <1>2, <2>2 DEF CallStarts, MsgTypeToState
    <3>2. View(modem', id) = Told([id |-> id, type |-> type])
      BY <2>2, <3>1 DEF View, Told, MsgTypeToState
    <3> QED BY <1>1, <2>1, <2>2, <3>2, SendSync
  <2>3. CASE type = "mo_call_id_assign"
    <3>1. View(modem', id) = View(modem, id)
      BY <1>1, <1>2, <2>3 DEF CallStarts, View
    <3> QED BY <1>1, <2>1, <2>3, <3>1, SendSync
  <2> QED BY <1>2, <2>2, <2>3 DEF CallStarts
<1>3. CASE CallProgresses(id, type)
  <2>1. Send(id, type) /\ (\A c \in CallId : c # id => modem'[c] = modem[c])
        /\ modem'[id] = MsgTypeToState[type]
    BY <1>1, <1>3 DEF CallProgresses
  <2>2. type \in {"alert", "connected", "held", "active", "remote_hold", "remote_resume"}
    BY <1>3 DEF CallProgresses
  <2>3. View(modem', id) = Told([id |-> id, type |-> type]) /\ type # "mo_call_id_assign"
    BY <2>1, <2>2 DEF View, Told, MsgTypeToState
  <2> QED BY <1>1, <2>1, <2>3, SendSync
<1>4. CASE CallEnds(id)
  <2>1. Send(id, "disconnected") /\ (\A c \in CallId : c # id => modem'[c] = modem[c])
        /\ modem'[id] = "idle"
    BY <1>1, <1>4 DEF CallEnds
  <2>2. View(modem', id) = Told([id |-> id, type |-> "disconnected"]) /\ "disconnected" \in MsgType
    BY <2>1 DEF View, Told, MsgType, MsgTypeToState
  <2> QED BY <1>1, <2>1, <2>2, SendSync
<1> QED BY <1>2, <1>3, <1>4

LEMMA HandlerSync ==
  ASSUME IInv, OthersKnown, SyncInv, IInv', Handler
  PROVE  SyncInv'
<1>0. TypeOK
  BY DEF IInv
<1>1. CASE IgnoreCallInfo
  <2>1. ~Tells(Head(inbox)) /\ inbox # <<>> /\ inbox' = Tail(inbox) /\ modem' = modem
    BY <1>1, <1>0, HeadTyped DEF IgnoreCallInfo, Tells, Told, MsgTypeToState
  <2>2. Seen' = Seen /\ EndingCall' = EndingCall
    BY <1>1 DEF IgnoreCallInfo, Seen, EndingCall
  <2> QED BY <1>0, <2>1, <2>2, TakeSync
<1>2. CASE HandleCallInfo
  <2>1. inbox # <<>> /\ inbox' = Tail(inbox) /\ modem' = modem
        /\ Told(Head(inbox)) = MsgTypeToState[Head(inbox).type]
    BY <1>2 DEF HandleCallInfo, Told
  <2>2. /\ Head(inbox).id \in CallId
        /\ Seen' = [Seen EXCEPT ![Head(inbox).id] = MsgTypeToState[Head(inbox).type]]
        /\ EndingCall = Null /\ EndingCall' = Null
    BY <1>2, HandleCallInfoSeen
  <2>3. Tells(Head(inbox))
    BY <1>2, <2>1 DEF HandleCallInfo, Tells
  <2>4. Seen'[Head(inbox).id] = MsgTypeToState[Head(inbox).type]
        /\ \A c \in CallId : c # Head(inbox).id => Seen'[c] = Seen[c]
    BY <2>2, SeenAt
  <2> QED BY <1>0, <2>1, <2>2, <2>3, <2>4, SizeAssumption, TakeSync
<1>3. CASE DisconnectBegin
  <2>1. inbox # <<>> /\ inbox' = Tail(inbox) /\ modem' = modem
        /\ Told(Head(inbox)) = "absent"
    BY <1>3 DEF DisconnectBegin, Told
  <2>2. /\ Head(inbox).id \in CallId
        /\ EndingCall = Null /\ EndingCall' = Head(inbox).id /\ Seen' = Seen
    BY <1>3, DisconnectBeginSeen
  <2>3. Tells(Head(inbox))
    BY <2>1 DEF Tells
  <2> QED BY <1>0, <2>1, <2>2, <2>3, SizeAssumption, TakeSync
<1>4. CASE DisconnectEnd
  <2>1. EndingCall \in CallId /\ EndingCall' = Null
        /\ Seen' = [Seen EXCEPT ![EndingCall] = "absent"]
    BY <1>4, DisconnectEndSeen
  <2>2. inbox' = inbox /\ modem' = modem
    BY <1>4 DEF DisconnectEnd
  <2>3. \A c \in CallId : (IF EndingCall' = c THEN "absent" ELSE Seen'[c])
                            = (IF EndingCall = c THEN "absent" ELSE Seen[c])
    BY <2>1, SeenAt, SizeAssumption
  <2> QED BY <2>2, <2>3 DEF SyncInv, LastTellsTrue, KnownOrOnItsWay, View, Told, Tells
<1> QED BY <1>1, <1>2, <1>3, <1>4 DEF Handler

(* When no indication waits ofono's list is that of the modem, although a  *)
(* call id is used again while the messages of the call before wait.       *)
THEOREM InSyncAlways == Spec => []InSyncWhenHandled
<1>1. Init => SyncInv /\ OthersKnown
  BY DEF Init, SyncInv, LastTellsTrue, KnownOrOnItsWay, OthersKnown, View, Seen, EndingCall
<1>2. IInv /\ OthersKnown /\ SyncInv /\ [Next]_vars /\ IInv' => SyncInv'
  <2>1. SUFFICES ASSUME IInv, OthersKnown, SyncInv, [Next]_vars, IInv' PROVE SyncInv'
    OBVIOUS
  <2>2. CASE UNCHANGED vars
    BY <2>1, <2>2 DEF vars, SyncInv, LastTellsTrue, KnownOrOnItsWay, View, Seen, EndingCall,
                      Told, Tells
  <2>3. "setup" \in MsgType
    BY DEF MsgType, MsgTypeToState
  <2> QED BY <2>1, <2>2, <2>3, ModemSync, HandlerSync DEF Next
<1>3. IInv /\ OthersKnown /\ [Next]_vars => OthersKnown'
  BY OthersKnownInv
<1>4. IInv /\ SyncInv => InSyncWhenHandled
  <2>1. SUFFICES ASSUME IInv, SyncInv, inbox = <<>>, emitting = Null
                 PROVE  known = {[id |-> id, state |-> modem[id]] :
                                   id \in {c \in CallId : modem[c] \notin {"idle", "unreported"}}}
    BY DEF InSyncWhenHandled
  <2>2. known = Calls /\ TypeOK /\ ListSound /\ known \subseteq Info
    BY <2>1 DEF IInv, NoSilentChange, TypeOK
  <2>3. ASSUME NEW id \in CallId PROVE At(known, id) = View(modem, id)
    <3>1. EndingCall = Null /\ EndingCall # id /\ Seen[id] = At(known, id)
      BY <2>1, SizeAssumption, SeenAt DEF EndingCall
    <3> QED BY <2>1, <3>1 DEF SyncInv, KnownOrOnItsWay
  <2>4. ASSUME NEW c \in known
        PROVE  /\ c.id \in CallId /\ modem[c.id] \notin {"idle", "unreported"}
               /\ c = [id |-> c.id, state |-> modem[c.id]]
    <3>1. c = [id |-> c.id, state |-> c.state] /\ c.id \in CallId /\ c.state \in State
      BY <2>2 DEF Info
    <3>2. At(known, c.id) = c.state
      BY <2>2, CallsUnique, AtUnique
    <3>3. c.state = View(modem, c.id) /\ c.state # "absent"
      BY <2>3, <3>1, <3>2 DEF State
    <3> QED BY <3>1, <3>3 DEF View
  <2>5. ASSUME NEW id \in CallId, modem[id] \notin {"idle", "unreported"}
        PROVE  [id |-> id, state |-> modem[id]] \in known
    <3>1. At(known, id) = modem[id] /\ modem[id] # "absent"
      BY <2>2, <2>3, <2>5 DEF View, TypeOK, ModemState, State
    <3>2. PICK c \in known : c.id = id
      BY <3>1 DEF At
    <3> QED BY <2>4, <3>2
  <2> QED BY <2>4, <2>5
<1> QED BY <1>1, <1>2, <1>3, <1>4, IInvAlways, PTL DEF Spec

(***************************************************************************)
(* The state DISCONNECTED.                                                 *)
(***************************************************************************)
(* The one call in that state is the call whose signal is emitted. *)
OnlyEmitted ==
  /\ \A c \in Calls : c.state = "disconnected" => emitting # Null /\ info[emitting] = c
  /\ \A c \in known : c.state # "disconnected"

LEMMA OnlyEmittedInv ==
  ASSUME IInv, IInv', OnlyEmitted, [Next]_vars
  PROVE  OnlyEmitted'
<1> USE DEF IInv
<1>1. CASE HandleCallInfo
  <2> DEFINE id == Head(inbox).id
             state == MsgTypeToState[Head(inbox).type]
  <2>1. PICK p \in Ptr : UpdateCall(id, state, p)
    BY <1>1 DEF HandleCallInfo
  <2>2. id \in CallId /\ state \in State /\ state # "disconnected"
    BY <1>1, HandleCallInfoSeen
  <2> HIDE DEF id, state
  <2>3. OthersOf(Calls', id) = OthersOf(Calls, id) /\ [id |-> id, state |-> state] \in Calls'
    BY <2>1, <2>2, UpdateOthers
  <2>4. emitting = Null /\ known' = Calls'
    BY <1>1, NotifyReadsCalls DEF HandleCallInfo
  <2>5. ASSUME NEW c \in Calls' PROVE c.state # "disconnected"
    <3>1. CASE c.id = id
      <4>1. UniqueAt(Calls', id)
        BY CallsUniquePrime
      <4>2. c = [id |-> id, state |-> state]
        BY <2>3, <3>1, <4>1 DEF UniqueAt
      <4> QED BY <2>2, <4>2
    <3>2. CASE c.id # id
      <4>1. c \in Calls
        BY <2>3, <3>2 DEF OthersOf
      <4> QED BY <2>4, <4>1 DEF OnlyEmitted
    <3> QED BY <3>1, <3>2
  <2> QED BY <2>4, <2>5 DEF OnlyEmitted
<1>2. CASE DisconnectBegin
  <2> DEFINE id == Head(inbox).id
  <2>1. PICK p \in Ptr : UpdateCall(id, "disconnected", p) /\ emitting' = p
    BY <1>2 DEF DisconnectBegin
  <2>2. id \in CallId /\ "disconnected" \in State
    BY <1>2, HeadTyped DEF DisconnectBegin, State
  <2> HIDE DEF id
  <2>3. OthersOf(Calls', id) = OthersOf(Calls, id) /\ [id |-> id, state |-> "disconnected"] \in Calls'
    BY <2>1, <2>2, UpdateOthers
  <2>4. emitting = Null /\ known' = known
    BY <1>2 DEF DisconnectBegin
  <2>5. emitting' # Null /\ info'[emitting'] = [id |-> id, state |-> "disconnected"]
    BY <2>1, PtrAssumption DEF UpdateCall, TypeOK
  <2>6. ASSUME NEW c \in Calls', c.state = "disconnected"
        PROVE  c = [id |-> id, state |-> "disconnected"]
    <3>1. CASE c.id = id
      <4>1. UniqueAt(Calls', id)
        BY CallsUniquePrime
      <4> QED BY <2>3, <3>1, <4>1 DEF UniqueAt
    <3>2. CASE c.id # id
      <4>1. c \in Calls
        BY <2>3, <3>2 DEF OthersOf
      <4> QED BY <2>4, <2>6, <4>1 DEF OnlyEmitted
    <3> QED BY <3>1, <3>2
  <2> QED BY <2>4, <2>5, <2>6 DEF OnlyEmitted
<1>3. CASE DisconnectEnd
  <2>1. emitting # Null /\ emitting \in Listed /\ RemoveCall(emitting)
    BY <1>3 DEF DisconnectEnd, EmittingListed
  <2>2. Listed' = Listed \ {emitting} /\ \A q \in Listed' : info'[q] = info[q]
    BY <2>1, RemoveSound
  <2>3. known' = Calls'
    BY <1>3, NotifyReadsCalls DEF DisconnectEnd
  <2>4. \A q \in Listed : info[q].id = info[emitting].id => q = emitting
    BY <2>1 DEF ListSound, Listed
  <2>5. ASSUME NEW c \in Calls' PROVE c.state # "disconnected"
    <3>1. PICK q \in Listed' : c = info[q]
      BY <2>2 DEF Calls
    <3>2. c \in Calls /\ c # info[emitting]
      BY <2>2, <2>4, <3>1 DEF Calls
    <3> QED BY <3>2 DEF OnlyEmitted
  <2> QED BY <2>3, <2>5 DEF OnlyEmitted
<1>4. CASE UNCHANGED <<pdata, len, info, emitting, known>>
  BY <1>4 DEF OnlyEmitted, Calls, Listed
<1> QED BY <1>1, <1>2, <1>3, <1>4
        DEF Next, vars, CallStarts, CallProgresses, CallEnds, Send, Handler, IgnoreCallInfo

LEMMA OnlyEmittedAlways == Spec => []OnlyEmitted
<1>1. Init => OnlyEmitted
  BY DEF Init, OnlyEmitted, Calls, Listed
<1>2. IInv /\ IInv' /\ OnlyEmitted /\ [Next]_vars => OnlyEmitted'
  BY OnlyEmittedInv
<1> QED BY <1>1, <1>2, IInvAlways, PTL DEF Spec

(* The extent of what DisconnectedIsInternal reports: ofono can find the   *)
(* internal state in the list only from within the disconnect signal, and  *)
(* only at the call the signal is about.                                   *)
THEOREM DisconnectedOnlyWhileSignalled ==
  Spec => [](/\ emitting = Null => DisconnectedIsInternal
             /\ \A c \in Calls : c.state = "disconnected" => info[emitting] = c)
<1>1. OnlyEmitted =>
        /\ emitting = Null => DisconnectedIsInternal
        /\ \A c \in Calls : c.state = "disconnected" => info[emitting] = c
  BY DEF OnlyEmitted, DisconnectedIsInternal
<1> QED BY <1>1, OnlyEmittedAlways, PTL

(* At the calls-changed signal ofono never reads the internal state.       *)
THEOREM DisconnectedNeverAnnounced == Spec => [](\A c \in known : c.state # "disconnected")
<1>1. OnlyEmitted => \A c \in known : c.state # "disconnected"
  BY DEF OnlyEmitted
<1> QED BY <1>1, OnlyEmittedAlways, PTL

(***************************************************************************)
(* Calls that have ended.                                                  *)
(***************************************************************************)
EndOf(id) == [id |-> id, type |-> "disconnected"]

(* The end of the call waits in the queue q, not before place i. *)
EndWaits(q, id, i) == \E j \in i .. Len(q) : q[j] = EndOf(id)

(* Whatever waits of a call that has ended, its end waits behind; and if   *)
(* ofono still knows the call, its end waits or is being signalled.        *)
EndsInv ==
  /\ \A i \in 1 .. Len(inbox) :
       modem[inbox[i].id] = "idle" => EndWaits(inbox, inbox[i].id, i)
  /\ \A id \in CallId :
       modem[id] = "idle" /\ Seen[id] # "absent" =>
         EndingCall = id \/ EndWaits(inbox, id, 1)

(* A message more at the end, and one less at the front. *)
LEMMA SendEnds ==
  ASSUME TypeOK, EndsInv, NEW id \in CallId, NEW type \in MsgType, Send(id, type),
         modem' \in [CallId -> ModemState],
         \A c \in CallId : c # id => modem'[c] = modem[c],
         modem'[id] = "idle" => type = "disconnected"
  PROVE  EndsInv'
<1> DEFINE n == Len(inbox)
           q == inbox'
           m == [id |-> id, type |-> type]
<1>1. /\ n \in Nat /\ Len(q) = n + 1
      /\ \A i \in 1 .. n : q[i] = inbox[i]
      /\ q[n + 1] = m
  BY DEF Send, TypeOK
<1>2. \A i \in 1 .. n : inbox[i].id \in CallId
  BY InboxTyped
<1>3. ASSUME NEW c \in CallId, NEW i \in 1 .. n + 1, modem'[c] = "idle",
             c = id \/ EndWaits(inbox, c, i)
      PROVE  EndWaits(q, c, i)
  <2>1. CASE c = id
    <3>1. n + 1 \in i .. Len(q) /\ q[n + 1] = EndOf(c)
      BY <1>1, <1>3, <2>1 DEF EndOf
    <3> QED BY <3>1 DEF EndWaits
  <2>2. CASE EndWaits(inbox, c, i)
    <3>1. PICK j \in i .. n : inbox[j] = EndOf(c)
      BY <2>2 DEF EndWaits
    <3>2. j \in 1 .. n /\ j \in i .. Len(q)
      BY <1>1, <3>1
    <3>3. q[j] = EndOf(c)
      BY <1>1, <3>1, <3>2
    <3> QED BY <3>2, <3>3 DEF EndWaits
  <2> QED BY <1>3, <2>1, <2>2
<1>4. Seen' = Seen /\ EndingCall' = EndingCall
  BY DEF Send, Seen, EndingCall
<1> HIDE DEF q, m, n
<1>5. ASSUME NEW i \in 1 .. Len(q), modem'[q[i].id] = "idle"
      PROVE  EndWaits(q, q[i].id, i)
  <2>1. CASE i = n + 1
    <3>1. q[i].id = id
      BY <1>1, <2>1 DEF m
    <3> QED BY <1>1, <1>3, <1>5, <2>1, <3>1
  <2>2. CASE i \in 1 .. n
    <3>1. q[i].id = inbox[i].id /\ inbox[i].id \in CallId /\ i \in 1 .. n + 1
      BY <1>1, <1>2, <2>2
    <3>2. inbox[i].id # id => EndWaits(inbox, inbox[i].id, i)
      BY <1>5, <2>2, <3>1 DEF EndsInv, n
    <3> QED BY <1>3, <1>5, <3>1, <3>2
  <2> QED BY <1>1, <2>1, <2>2
<1>6. ASSUME NEW c \in CallId, modem'[c] = "idle", Seen[c] # "absent"
      PROVE  EndingCall = c \/ EndWaits(q, c, 1)
  <2>1. 1 \in 1 .. n + 1
    BY <1>1
  <2>2. c # id => EndingCall = c \/ EndWaits(inbox, c, 1)
    BY <1>6 DEF EndsInv
  <2> QED BY <1>3, <1>6, <2>1, <2>2
<1> QED BY <1>4, <1>5, <1>6 DEF EndsInv, EndWaits, q

LEMMA TakeEnds ==
  ASSUME TypeOK, EndsInv, inbox # <<>>, inbox' = Tail(inbox), modem' = modem,
         \A c \in CallId : c # Head(inbox).id =>
           Seen'[c] = Seen[c] /\ (EndingCall = c => EndingCall' = c),
         Head(inbox) = EndOf(Head(inbox).id) => EndingCall' = Head(inbox).id
  PROVE  EndsInv'
<1> DEFINE q == inbox'
           n == Len(inbox)
<1>1. /\ n \in Nat \ {0} /\ Len(q) = n - 1
      /\ Head(inbox) = inbox[1]
      /\ \A i \in 1 .. n - 1 : i + 1 \in 1 .. n /\ q[i] = inbox[i + 1]
  BY DEF TypeOK
<1>2. Head(inbox).id \in CallId
  BY HeadTyped
<1> HIDE DEF q, n
<1>3. ASSUME NEW c, NEW i \in 1 .. n, EndWaits(inbox, c, i), i > 1 \/ inbox[1] # EndOf(c)
      PROVE  EndWaits(q, c, IF i > 1 THEN i - 1 ELSE 1)
  <2>1. PICK j \in i .. n : inbox[j] = EndOf(c)
    BY <1>3 DEF EndWaits, n
  <2>2. j > 1
    BY <1>1, <1>3, <2>1
  <2>3. j - 1 \in 1 .. n - 1 /\ (j - 1) + 1 = j /\ j - 1 \in (IF i > 1 THEN i - 1 ELSE 1) .. Len(q)
    BY <1>1, <1>3, <2>1, <2>2
  <2>4. q[j - 1] = EndOf(c)
    BY <1>1, <2>1, <2>3
  <2> QED BY <2>3, <2>4 DEF EndWaits
<1>4. ASSUME NEW i \in 1 .. Len(q), modem[q[i].id] = "idle"
      PROVE  EndWaits(q, q[i].id, i)
  <2>1. i + 1 \in 1 .. n /\ q[i] = inbox[i + 1] /\ i + 1 > 1 /\ (i + 1) - 1 = i
    BY <1>1
  <2>2. EndWaits(inbox, inbox[i + 1].id, i + 1)
    BY <1>4, <2>1 DEF EndsInv, n
  <2> QED BY <1>3, <2>1, <2>2
<1>5. ASSUME NEW c \in CallId, modem[c] = "idle", Seen'[c] # "absent"
      PROVE  EndingCall' = c \/ EndWaits(q, c, 1)
  <2>1. 1 \in 1 .. n /\ ~(1 > 1)
    BY <1>1
  <2>2. CASE c = Head(inbox).id
    <3>1. EndWaits(inbox, c, 1)
      BY <1>1, <1>5, <2>1, <2>2 DEF EndsInv, n
    <3>2. inbox[1] # EndOf(c) => EndWaits(q, c, 1)
      BY <1>3, <2>1, <3>1
    <3> QED BY <1>1, <2>2, <3>2
  <2>3. CASE c # Head(inbox).id
    <3>1. EndingCall = c \/ EndWaits(inbox, c, 1)
      BY <1>5, <2>3 DEF EndsInv
    <3>2. inbox[1] # EndOf(c)
      BY <1>1, <2>3 DEF EndOf
    <3> QED BY <1>3, <2>1, <2>3, <3>1, <3>2
  <2> QED BY <2>2, <2>3
<1> QED BY <1>4, <1>5 DEF EndsInv, EndWaits, q

LEMMA EndsStep ==
  ASSUME IInv, IInv', OthersKnown, EndsInv, [Next]_vars
  PROVE  EndsInv'
<1>1. TypeOK /\ modem \in [CallId -> ModemState] /\ modem' \in [CallId -> ModemState]
  BY DEF IInv, TypeOK
<1>2. ASSUME NEW id \in CallId, NEW type \in MsgType,
             CallStarts(id, type) \/ CallProgresses(id, type)
      PROVE  EndsInv'
  <2>1. modem'[id] # "idle"
    BY <1>1, <1>2 DEF CallStarts, CallProgresses, MsgTypeToState
  <2>2. Send(id, type) /\ \A c \in CallId : c # id => modem'[c] = modem[c]
    BY <1>1, <1>2 DEF CallStarts, CallProgresses
  <2> QED BY <1>1, <2>1, <2>2, SendEnds
<1>3. ASSUME NEW id \in CallId, CallEnds(id) PROVE EndsInv'
  <2>1. Send(id, "disconnected") /\ \A c \in CallId : c # id => modem'[c] = modem[c]
    BY <1>1, <1>3 DEF CallEnds
  <2>2. "disconnected" \in MsgType
    BY DEF MsgType, MsgTypeToState
  <2> QED BY <1>1, <2>1, <2>2, SendEnds
<1>4. CASE IgnoreCallInfo
  <2>1. inbox # <<>> /\ inbox' = Tail(inbox) /\ modem' = modem
        /\ Seen' = Seen /\ EndingCall' = EndingCall
    BY <1>4 DEF IgnoreCallInfo, Seen, EndingCall
  <2>2. Head(inbox) # EndOf(Head(inbox).id)
    BY <1>4 DEF IgnoreCallInfo, EndOf, MsgTypeToState
  <2> QED BY <1>1, <2>1, <2>2, TakeEnds
<1>5. CASE HandleCallInfo
  <2>1. inbox # <<>> /\ inbox' = Tail(inbox) /\ modem' = modem
        /\ Head(inbox) # EndOf(Head(inbox).id)
    BY <1>5 DEF HandleCallInfo, EndOf
  <2>2. /\ EndingCall = Null /\ EndingCall' = Null
        /\ \A c \in CallId : c # Head(inbox).id => Seen'[c] = Seen[c]
    BY <1>5, HandleCallInfoSeen, SeenAt
  <2> QED BY <1>1, <2>1, <2>2, TakeEnds
<1>6. CASE DisconnectBegin
  <2>1. inbox # <<>> /\ inbox' = Tail(inbox) /\ modem' = modem
    BY <1>6 DEF DisconnectBegin
  <2>2. EndingCall = Null /\ EndingCall' = Head(inbox).id /\ Seen' = Seen
    BY <1>6, DisconnectBeginSeen
  <2> QED BY <1>1, <2>1, <2>2, SizeAssumption, TakeEnds
<1>7. CASE DisconnectEnd
  <2>1. EndingCall \in CallId /\ Seen' = [Seen EXCEPT ![EndingCall] = "absent"]
    BY <1>7, DisconnectEndSeen
  <2>2. UNCHANGED <<inbox, modem>>
    BY <1>7 DEF DisconnectEnd
  <2>3. \A c \in CallId : Seen'[c] # "absent" => c # EndingCall /\ Seen[c] # "absent"
    BY <2>1, SeenAt
  <2> QED BY <2>2, <2>3 DEF EndsInv, EndWaits
<1>8. CASE UNCHANGED vars
  BY <1>8 DEF vars, EndsInv, EndWaits, Seen, EndingCall
<1> QED BY <1>2, <1>3, <1>4, <1>5, <1>6, <1>7, <1>8 DEF Next, Handler

(* The safety half of EndedCallsLeave: as long as ofono still knows a call *)
(* that the modem has ended, and whose id is not in use again, the message *)
(* that takes it off the list waits, or its signal is being emitted.       *)
THEOREM EndedCallsAreLeaving ==
  Spec => [](\A c \in known : modem[c.id] = "idle" =>
               EndingCall = c.id \/ EndWaits(inbox, c.id, 1))
<1>1. Init => EndsInv /\ OthersKnown
  BY DEF Init, EndsInv, OthersKnown, Seen
<1>2. IInv /\ IInv' /\ OthersKnown /\ EndsInv /\ [Next]_vars => EndsInv'
  BY EndsStep
<1>3. IInv /\ OthersKnown /\ [Next]_vars => OthersKnown'
  BY OthersKnownInv
<1>4. IInv /\ EndsInv =>
        \A c \in known : modem[c.id] = "idle" => EndingCall = c.id \/ EndWaits(inbox, c.id, 1)
  <2>1. SUFFICES ASSUME IInv, EndsInv, NEW c \in known, modem[c.id] = "idle"
                 PROVE  EndingCall = c.id \/ EndWaits(inbox, c.id, 1)
    OBVIOUS
  <2>2. known \subseteq Info /\ c.id \in CallId
    BY <2>1 DEF IInv, TypeOK, Info
  <2>3. (CHOOSE d \in known : d.id = c.id) \in known
    BY <2>1
  <2>4. At(known, c.id) \in State
    BY <2>1, <2>2, <2>3 DEF At, Info
  <2>5. Seen[c.id] # "absent"
    BY <2>2, <2>4, SeenAt DEF State
  <2> QED BY <2>1, <2>2, <2>5 DEF EndsInv
<1> QED BY <1>1, <1>2, <1>3, <1>4, IInvAlways, PTL DEF Spec
=============================================================================
