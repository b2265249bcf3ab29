----------------------- MODULE ImsRegistrationProofs ------------------------
(***************************************************************************)
(* Theorems about ImsRegistration, for every set of user_data, every       *)
(* choice of indications and every bound on the queues.  The invariants    *)
(* the runs check are not inductive: the references take a count of the    *)
(* requests, the signalled state what waits in the main loop, and the      *)
(* configuration what of the batch is still on its way to the modem.       *)
(***************************************************************************)
EXTENDS ImsRegistration, FiniteSetTheorems, SequenceTheorems, TLAPS

(***************************************************************************)
(* The inductive invariant, a part for each concern.                       *)
(***************************************************************************)
Active == {u \in Token : reqs[u] # "none"}

Dangling == broken = "used_after_finalize"

(* One reference for the slot and one for each MtkImsResultRequest. *)
RefsCounted ==
  /\ IsFiniteSet(Active)
  /\ refs = (IF slotIms THEN 1 ELSE 0) + Cardinality(Active)
  /\ Dangling => ~slotIms

(* Where a request is tells which of ofono's callbacks it has called. *)
CallsMatch ==
  \A u \in Token :
    /\ reqs[u] = "none" => calls[u].destroy = 1 /\ calls[u].complete \in 0 .. 1
    /\ reqs[u] \in {"pending", "silent"} => calls[u].destroy = 0 /\ calls[u].complete = 0
    /\ reqs[u] = "completing" => calls[u].destroy = 0 /\ calls[u].complete = 1

(* ofono knows the state that is stored, and the last indication that      *)
(* waits, or the stored state if none does, is what the modem reported.    *)
StateFollows ==
  /\ known = imsState
  /\ (\A i \in 1 .. Len(inbox) : inbox[i] \in Logged) => reported = imsState
  /\ \A i \in 1 .. Len(inbox) :
       inbox[i] \notin Logged /\ (\A j \in i + 1 .. Len(inbox) : inbox[j] \in Logged)
         => reported = StateOf[inbox[i]]

(* A user_data is on its way to the modem once, or its answer is there.    *)
AnsweredOnce ==
  /\ \A i \in 1 .. Len(sent) : sent[i].ud \in Token =>
       /\ reqs[sent[i].ud] \in {"pending", "silent"}
       /\ sent[i].ud \notin answers
       /\ \A j \in 1 .. Len(sent) : sent[j].ud = sent[i].ud => j = i
  /\ \A u \in answers : reqs[u] \in {"pending", "silent"}

(* The last batch ends what is on its way, and the modem has taken in the  *)
(* part of it that is not.                                                 *)
BatchSent(n) ==
  /\ n >= 1 => sent[n] = AskEnabled(asked.value, asked.ud)
  /\ ~haveWifi /\ n >= 2 => sent[n - 1] = Volte(asked.value)
  /\ haveWifi /\ n >= 2 => sent[n - 1] = WifiState(asked.value)
  /\ haveWifi /\ n >= 3 => sent[n - 2] = Vowifi(asked.value)
  /\ haveWifi /\ n >= 4 => sent[n - 3] = Volte(asked.value)

BatchTaken(n) ==
  /\ ~haveWifi /\ n <= 1 => modem.used["volte"] = asked.value
  /\ haveWifi /\ n = 3 => modem.staged["volte"] = {asked.value}
  /\ haveWifi /\ n <= 2 => /\ modem.used["volte"] = asked.value
                           /\ modem.used["vowifi"] = asked.value
  /\ haveWifi /\ n <= 1 => modem.used["wifi"] = asked.value

BatchFollows ==
  asked.intact /\ asked.ud \in Token /\ reqs[asked.ud] # "none" =>
    BatchSent(Len(sent)) /\ BatchTaken(Len(sent))

(* While complete() runs nothing of its batch is left. *)
CompletedLast ==
  asked.intact /\ asked.ud \in Token /\ reqs[asked.ud] = "completing" => sent = <<>>

IInv == TypeOK /\ RefsCounted /\ CallsMatch /\ StateFollows /\ AnsweredOnce
          /\ BatchFollows /\ CompletedLast

(***************************************************************************)
(* Sequences.                                                              *)
(***************************************************************************)
LEMMA Singleton ==
  ASSUME NEW e \in Request
  PROVE  \E o \in Seq(Request) : o = <<e>> /\ Len(o) = 1 /\ o[1] = e
<1>1. <<e>> \in Seq(Request) /\ Len(<<e>>) = 1 /\ <<e>>[1] = e
  OBVIOUS
<1> WITNESS <<e>> \in Seq(Request)
<1> QED BY <1>1

LEMMA OneAfter ==
  ASSUME NEW s \in Seq(Request), NEW o \in Seq(Request), Len(o) = 1
  PROVE  /\ s \o o \in Seq(Request)
         /\ Len(s \o o) = Len(s) + 1
         /\ \A i \in 1 .. Len(s) : (s \o o)[i] = s[i]
         /\ (s \o o)[Len(s) + 1] = o[1]
<1>1. Len(s) \in Nat
  BY LenProperties
<1>2. /\ s \o o \in Seq(Request)
      /\ Len(s \o o) = Len(s) + Len(o)
      /\ \A i \in 1 .. Len(s) + Len(o) :
           (s \o o)[i] = IF i <= Len(s) THEN s[i] ELSE o[i - Len(s)]
  BY ConcatProperties
<1> QED BY <1>1, <1>2

LEMMA OneBefore ==
  ASSUME NEW s \in Seq(Request), NEW o \in Seq(Request), Len(o) = 1
  PROVE  /\ o \o s \in Seq(Request)
         /\ Len(o \o s) = Len(s) + 1
         /\ (o \o s)[1] = o[1]
         /\ \A i \in 1 .. Len(s) : (o \o s)[i + 1] = s[i]
<1>1. Len(s) \in Nat
  BY LenProperties
<1>2. /\ o \o s \in Seq(Request)
      /\ Len(o \o s) = Len(o) + Len(s)
      /\ \A i \in 1 .. Len(o) + Len(s) :
           (o \o s)[i] = IF i <= Len(o) THEN o[i] ELSE s[i - Len(o)]
  BY ConcatProperties
<1> QED BY <1>1, <1>2

(***************************************************************************)
(* The transactions of one set_registration.                               *)
(***************************************************************************)
LEMMA RequestsTyped ==
  ASSUME NEW value \in BOOLEAN, NEW u \in Token, haveWifi \in BOOLEAN
  PROVE  /\ Volte(value) \in Request /\ Vowifi(value) \in Request
         /\ WifiState(value) \in Request /\ AskEnabled(value, u) \in Request
         /\ Volte(value).ud = NoToken /\ Vowifi(value).ud = NoToken
         /\ WifiState(value).ud = NoToken /\ AskEnabled(value, u).ud = u
BY DEF Volte, Vowifi, WifiState, AskEnabled, Ask, Request, Setting

(* Only the last request of a batch carries a user_data. *)
LEMMA BatchSound ==
  ASSUME NEW value \in BOOLEAN, NEW u \in Token, NEW refused, haveWifi \in BOOLEAN
  PROVE  /\ Batch(value, u, refused) \in Seq(Request)
         /\ \A i \in 1 .. Len(Batch(value, u, refused)) :
              Batch(value, u, refused)[i].ud \in Token =>
                /\ Batch(value, u, refused)[i].ud = u
                /\ AskEnabled(value, u) \notin refused
                /\ i = Len(Batch(value, u, refused))
<1> DEFINE Quiet == {r \in Request : r.ud = NoToken}
           v == Unless(refused, Volte(value))
           w == Unless(refused, Vowifi(value))
           s == Unless(refused, WifiState(value))
           wifi == IF haveWifi THEN w \o s ELSE <<>>
           ask == Unless(refused, AskEnabled(value, u))
<1>1. v \in Seq(Quiet) /\ w \in Seq(Quiet) /\ s \in Seq(Quiet)
  <2>1. ASSUME NEW r \in Quiet PROVE Unless(refused, r) \in Seq(Quiet)
    <3>1. <<>> \in Seq(Quiet)
      BY EmptySeq
    <3>2. <<r>> \in Seq(Quiet)
      OBVIOUS
    <3> QED BY <3>1, <3>2 DEF Unless
  <2>2. Volte(value) \in Quiet /\ Vowifi(value) \in Quiet /\ WifiState(value) \in Quiet
    BY RequestsTyped
  <2> HIDE DEF Quiet
  <2> QED BY <2>1, <2>2
<1>2. w \o s \in Seq(Quiet)
  BY <1>1, ConcatProperties
<1>3. <<>> \in Seq(Quiet)
  BY EmptySeq
<1>4. wifi \in Seq(Quiet)
  BY <1>2, <1>3
<1>5. v \o wifi \in Seq(Quiet)
  BY <1>1, <1>4, ConcatProperties
<1> DEFINE q == v \o wifi
<1>6. q \in Seq(Quiet)
  BY <1>5
<1>7. /\ Batch(value, u, refused) = q \o ask
      /\ ask = IF AskEnabled(value, u) \in refused THEN <<>> ELSE <<AskEnabled(value, u)>>
  BY DEF Batch, Unless
<1> HIDE DEF q, ask
<1>8. q \in Seq(Request)
  BY <1>6
<1>9. ask \in Seq(Request)
  BY <1>7, RequestsTyped
<1>10. Len(q) \in Nat /\ \A i \in 1 .. Len(q) : q[i].ud = NoToken
  <2>1. \A i \in 1 .. Len(q) : q[i] \in Quiet
    BY <1>6, ElementOfSeq
  <2> QED BY <1>6, <2>1, LenProperties
<1>11. \/ ask = <<>> /\ Len(ask) = 0
       \/ /\ Len(ask) = 1 /\ ask[1].ud = u
          /\ AskEnabled(value, u) \notin refused
  BY <1>7, RequestsTyped
<1>12. /\ q \o ask \in Seq(Request)
       /\ Len(q \o ask) = Len(q) + Len(ask)
       /\ \A i \in 1 .. Len(q) + Len(ask) :
            (q \o ask)[i] = IF i <= Len(q) THEN q[i] ELSE ask[i - Len(q)]
  BY <1>8, <1>9, ConcatProperties
<1>13. ASSUME NEW i \in 1 .. Len(q \o ask), (q \o ask)[i].ud \in Token
       PROVE  /\ (q \o ask)[i].ud = u
              /\ AskEnabled(value, u) \notin refused
              /\ i = Len(q \o ask)
  <2>1. ~(i <= Len(q))
    BY <1>10, <1>12, <1>13, ConstantAssumption DEF ConstantAssumption
  <2>2. Len(ask) = 1 /\ i = Len(q) + 1
    BY <1>10, <1>11, <1>12, <2>1
  <2>3. (q \o ask)[i] = ask[1]
    BY <1>10, <1>12, <2>1, <2>2
  <2> QED BY <1>11, <1>12, <2>2, <2>3
<1> QED BY <1>7, <1>12, <1>13

(* A batch of which nothing is refused. *)
LEMMA BatchIntact ==
  ASSUME NEW value \in BOOLEAN, NEW u \in Token, NEW b, b = Batch(value, u, {}),
         haveWifi \in BOOLEAN
  PROVE  /\ haveWifi => /\ Len(b) = 4
                        /\ b[1] = Volte(value) /\ b[2] = Vowifi(value)
                        /\ b[3] = WifiState(value) /\ b[4] = AskEnabled(value, u)
         /\ ~haveWifi => /\ Len(b) = 2
                         /\ b[1] = Volte(value) /\ b[2] = AskEnabled(value, u)
<1> DEFINE v == Volte(value)  w == Vowifi(value)  s == WifiState(value)
           a == AskEnabled(value, u)
<1>1. v \in Request /\ w \in Request /\ s \in Request /\ a \in Request
  BY RequestsTyped
<1>2. b = (IF haveWifi THEN <<v>> \o (<<w>> \o <<s>>) ELSE <<v>> \o <<>>) \o <<a>>
  BY DEF Batch, Unless
<1> HIDE DEF v, w, s, a
<1>3. PICK ov \in Seq(Request) : ov = <<v>> /\ Len(ov) = 1 /\ ov[1] = v
  BY <1>1, Singleton
<1>4. PICK ow \in Seq(Request) : ow = <<w>> /\ Len(ow) = 1 /\ ow[1] = w
  BY <1>1, Singleton
<1>5. PICK os \in Seq(Request) : os = <<s>> /\ Len(os) = 1 /\ os[1] = s
  BY <1>1, Singleton
<1>6. PICK oa \in Seq(Request) : oa = <<a>> /\ Len(oa) = 1 /\ oa[1] = a
  BY <1>1, Singleton
<1>7. b = (IF haveWifi THEN ov \o (ow \o os) ELSE ov \o <<>>) \o oa
  BY <1>2, <1>3, <1>4, <1>5, <1>6
<1>8. CASE haveWifi
  <2> DEFINE y == ow \o os  z == ov \o y
  <2>1. y \in Seq(Request) /\ Len(y) = 2 /\ y[1] = w /\ y[2] = s
    BY <1>4, <1>5, OneAfter
  <2>2. b = z \o oa
    BY <1>7, <1>8
  <2> HIDE DEF y
  <2>3. /\ z \in Seq(Request) /\ Len(z) = Len(y) + 1 /\ z[1] = v
        /\ \A i \in 1 .. Len(y) : z[i + 1] = y[i]
    BY <1>3, <2>1, OneBefore
  <2>4. z[1 + 1] = w /\ z[2 + 1] = s
    BY <2>1, <2>3
  <2> HIDE DEF z
  <2>5. Len(b) = Len(z) + 1 /\ b[Len(z) + 1] = a /\ \A i \in 1 .. Len(z) : b[i] = z[i]
    BY <1>6, <2>2, <2>3, OneAfter
  <2>6. Len(b) = 4 /\ b[1] = v /\ b[2] = w /\ b[3] = s /\ b[4] = a
    BY <2>1, <2>3, <2>4, <2>5
  <2> QED BY <1>8, <2>6 DEF v, w, s, a
<1>9. CASE ~haveWifi
  <2>1. b = ov \o oa
    BY <1>3, <1>7, <1>9, ConcatEmptySeq
  <2>2. Len(b) = Len(ov) + 1 /\ b[Len(ov) + 1] = a /\ \A i \in 1 .. Len(ov) : b[i] = ov[i]
    BY <1>3, <1>6, <2>1, OneAfter
  <2>3. Len(b) = 2 /\ b[1] = v /\ b[2] = a
    BY <1>3, <2>2
  <2> QED BY <1>9, <2>3 DEF v, a
<1> QED BY <1>8, <1>9

(***************************************************************************)
(* The references.                                                         *)
(***************************************************************************)
(* What the count says of the requests that are there. *)
LEMMA RefsBound ==
  ASSUME RefsCounted
  PROVE  /\ Cardinality(Active) \in Nat /\ refs \in Nat
         /\ refs > 0 <=> slotIms \/ Active # {}
<1>1. Cardinality(Active) \in Nat /\ (Cardinality(Active) = 0 <=> Active = {})
  BY FS_CardinalityType, FS_EmptySet DEF RefsCounted
<1> QED BY <1>1 DEF RefsCounted

LEMMA RequestTaken ==
  ASSUME TypeOK, RefsCounted, NEW u \in Token, reqs[u] = "none", NEW to, to # "none",
         reqs' = [reqs EXCEPT ![u] = to], refs' = refs + 1,
         broken' = broken, slotIms' = slotIms
  PROVE  RefsCounted' /\ refs' \in Nat
<1>1. u \notin Active /\ Active' = Active \cup {u}
  BY DEF Active, TypeOK
<1>2. IsFiniteSet(Active') /\ Cardinality(Active') = Cardinality(Active) + 1
  BY <1>1, FS_AddElement DEF RefsCounted
<1>3. refs' = (IF slotIms THEN 1 ELSE 0) + Cardinality(Active')
  BY <1>2, RefsBound DEF RefsCounted
<1> QED BY <1>2, <1>3, RefsBound DEF RefsCounted, Dangling

LEMMA RequestGone ==
  ASSUME TypeOK, RefsCounted, NEW u \in Token, reqs[u] # "none",
         reqs' = [reqs EXCEPT ![u] = "none"], refs' = refs - 1,
         broken' = broken, slotIms' = slotIms
  PROVE  RefsCounted' /\ refs' \in Nat
<1>1. u \in Active /\ Active' = Active \ {u}
  BY DEF Active, TypeOK
<1>2. IsFiniteSet(Active') /\ Cardinality(Active') = Cardinality(Active) - 1
  BY <1>1, FS_RemoveElement DEF RefsCounted
<1>3. refs' = (IF slotIms THEN 1 ELSE 0) + Cardinality(Active')
  BY <1>2, RefsBound DEF RefsCounted
<1>4. Cardinality(Active') \in Nat
  BY <1>2, FS_CardinalityType
<1>5. refs' \in Nat
  BY <1>3, <1>4
<1> QED BY <1>2, <1>3, <1>5 DEF RefsCounted, Dangling

(***************************************************************************)
(* Types, references and callbacks.                                        *)
(***************************************************************************)
LEMMA InitSound == Init => IInv
<1> SUFFICES ASSUME Init PROVE IInv
  OBVIOUS
<1>1. TypeOK
  <2>1. inbox = <<>> /\ inbox \in Seq(Indications) /\ sent = <<>> /\ sent \in Seq(Request)
    BY EmptySeq DEF Init
  <2> QED BY <2>1 DEF Init, TypeOK, ImsState, Setting
<1>2. Active = {}
  BY DEF Init, Active
<1>3. RefsCounted
  BY <1>2, FS_EmptySet DEF Init, RefsCounted, Dangling
<1>4. Len(inbox) = 0 /\ Len(sent) = 0
  BY EmptySeq DEF Init
<1>5. CallsMatch /\ StateFollows /\ AnsweredOnce
  BY <1>4 DEF Init, CallsMatch, StateFollows, AnsweredOnce
<1>6. BatchFollows /\ CompletedLast
  BY DEF Init, BatchFollows, CompletedLast
<1> QED BY <1>1, <1>3, <1>5, <1>6 DEF IInv

(* A request that ofono may submit is not there. *)
LEMMA FreeToken ==
  ASSUME TypeOK, CallsMatch, NEW u \in Token, ~Held(u)
  PROVE  reqs[u] = "none" /\ calls[u].destroy = 1 /\ calls[u].complete \in 0 .. 1
BY DEF TypeOK, CallsMatch, Held

(* What every step does with ofono's requests and with the references. *)
LEMMA ObjectStep ==
  ASSUME IInv, [Next]_vars
  PROVE  /\ slotIms' \in BOOLEAN /\ refs' \in Nat
         /\ reqs' \in [Token -> {"none", "pending", "silent", "completing"}]
         /\ calls' \in [Token -> [complete : Nat, destroy : Nat, cancelled : BOOLEAN]]
         /\ broken' \in {"no", "freed_twice", "used_after_finalize"}
         /\ haveWifi' = haveWifi
         /\ RefsCounted' /\ CallsMatch'
<1> USE DEF IInv
<1>1. ASSUME NEW value \in BOOLEAN, NEW u \in Token, NEW w \in BOOLEAN,
             SetRegistration(value, u, w)
      PROVE  /\ slotIms' \in BOOLEAN /\ refs' \in Nat
             /\ reqs' \in [Token -> {"none", "pending", "silent", "completing"}]
             /\ calls' \in [Token -> [complete : Nat, destroy : Nat, cancelled : BOOLEAN]]
             /\ broken' \in {"no", "freed_twice", "used_after_finalize"}
             /\ haveWifi' = haveWifi
             /\ RefsCounted' /\ CallsMatch'
  <2>1. reqs[u] = "none" /\ slotIms' = slotIms /\ haveWifi' = haveWifi
    BY <1>1, FreeToken DEF SetRegistration
  <2>2. CASE TakeRequest(u, w)
    <3>1. RefsCounted' /\ refs' \in Nat
      BY <2>1, <2>2, RequestTaken DEF TakeRequest
    <3> QED BY <2>1, <2>2, <3>1 DEF TakeRequest, TypeOK, CallsMatch
  <2>3. CASE RefuseRequest(u)
    <3>1. RefsCounted'
      BY <2>1, <2>3 DEF RefuseRequest, RefsCounted, Active, Dangling
    <3> QED BY <2>1, <2>3, <3>1 DEF RefuseRequest, TypeOK, CallsMatch
  <2> QED BY <1>1, <2>2, <2>3 DEF SetRegistration
<1>2. ASSUME NEW u \in Token, Cancel(u)
      PROVE  /\ calls' \in [Token -> [complete : Nat, destroy : Nat, cancelled : BOOLEAN]]
             /\ RefsCounted' /\ CallsMatch'
  <2>1. RefsCounted'
    BY <1>2 DEF Cancel, RefsCounted, Active, Dangling
  <2>2. calls' \in [Token -> [complete : Nat, destroy : Nat, cancelled : BOOLEAN]]
    BY <1>2 DEF Cancel, TypeOK
  <2>3. \A v \in Token : /\ calls'[v].complete = calls[v].complete
                         /\ calls'[v].destroy = calls[v].destroy
    BY <1>2 DEF Cancel, TypeOK
  <2>4. reqs' = reqs
    BY <1>2 DEF Cancel
  <2>5. CallsMatch'
    BY <2>3, <2>4 DEF CallsMatch
  <2> QED BY <2>1, <2>2, <2>5
<1>3. ASSUME NEW u \in Token, Complete(u)
      PROVE  /\ reqs' \in [Token -> {"none", "pending", "silent", "completing"}]
             /\ calls' \in [Token -> [complete : Nat, destroy : Nat, cancelled : BOOLEAN]]
             /\ RefsCounted' /\ CallsMatch'
  <2>1. Active' = Active
    BY <1>3 DEF Complete, Active, TypeOK
  <2>2. RefsCounted'
    BY <1>3, <2>1 DEF Complete, RefsCounted, Dangling
  <2>3. calls[u].complete = 0 /\ calls[u].destroy = 0
    BY <1>3 DEF Complete, CallsMatch
  <2>4. calls' = [calls EXCEPT ![u].complete = calls[u].complete + 1]
    BY <1>3 DEF Complete
  <2>5. calls' = [calls EXCEPT ![u].complete = 1]
    BY <2>3, <2>4
  <2>6. reqs' = [reqs EXCEPT ![u] = "completing"]
    BY <1>3 DEF Complete
  <2> QED BY <2>2, <2>3, <2>5, <2>6 DEF TypeOK, CallsMatch
<1>4. ASSUME NEW u \in Token, Destroy(u)
      PROVE  /\ refs' \in Nat
             /\ reqs' \in [Token -> {"none", "pending", "silent", "completing"}]
             /\ calls' \in [Token -> [complete : Nat, destroy : Nat, cancelled : BOOLEAN]]
             /\ RefsCounted' /\ CallsMatch'
  <2>1. RefsCounted' /\ refs' \in Nat
    BY <1>4, RequestGone DEF Destroy, DestroyRequest
  <2>2. reqs[u] \in {"pending", "silent", "completing"}
    BY <1>4 DEF Destroy, TypeOK
  <2>3. calls[u].destroy = 0 /\ calls[u].complete \in 0 .. 1
    BY <2>2 DEF CallsMatch
  <2>4. calls' = [calls EXCEPT ![u].destroy = calls[u].destroy + 1, ![u].cancelled = FALSE]
    BY <1>4 DEF Destroy, DestroyRequest
  <2>5. calls' = [calls EXCEPT ![u].destroy = 1, ![u].cancelled = FALSE]
    BY <2>3, <2>4
  <2>6. reqs' = [reqs EXCEPT ![u] = "none"]
    BY <1>4 DEF Destroy, DestroyRequest
  <2>7. /\ calls' \in [Token -> [complete : Nat, destroy : Nat, cancelled : BOOLEAN]]
        /\ calls'[u].destroy = 1 /\ calls'[u].complete = calls[u].complete
        /\ \A t \in Token : t # u => calls'[t] = calls[t]
    BY <2>5 DEF TypeOK
  <2>8. /\ reqs' \in [Token -> {"none", "pending", "silent", "completing"}]
        /\ reqs'[u] = "none" /\ \A t \in Token : t # u => reqs'[t] = reqs[t]
    BY <2>6 DEF TypeOK
  <2>9. CallsMatch'
    BY <2>3, <2>7, <2>8 DEF CallsMatch
  <2> QED BY <2>1, <2>7, <2>8, <2>9
<1>5. ASSUME SlotTerminate
      PROVE  slotIms' \in BOOLEAN /\ refs' \in Nat /\ RefsCounted' /\ CallsMatch'
  <2>1. refs' = Cardinality(Active) /\ Active' = Active /\ Cardinality(Active) \in Nat
    BY <1>5, RefsBound DEF SlotTerminate, RefsCounted, Active
  <2>2. slotIms' = FALSE /\ UNCHANGED <<reqs, calls>>
    BY <1>5 DEF SlotTerminate
  <2>3. CallsMatch'
    BY <2>2 DEF CallsMatch
  <2>4. RefsCounted'
    BY <2>1, <2>2 DEF RefsCounted
  <2> QED BY <2>1, <2>2, <2>3, <2>4
<1>6. ASSUME HandleIndicationDangling
      PROVE  RefsCounted' /\ CallsMatch'
  <2>1. ~slotIms
    BY <1>6, RefsBound DEF HandleIndicationDangling
  <2> QED BY <1>6, <2>1 DEF HandleIndicationDangling, ObjectVars, RefsCounted, Active, CallsMatch,
                           Dangling
<1>7. ASSUME UNCHANGED <<ObjectVars, broken>>
      PROVE  RefsCounted' /\ CallsMatch'
  BY <1>7 DEF ObjectVars, RefsCounted, Active, Dangling, CallsMatch
<1>8. CASE \/ HandleIndication \/ LogIndication \/ ModemConfigures \/ ModemAnswers
           \/ \E i \in Indications : Indicate(i)
           \/ UNCHANGED vars
  <2>1. UNCHANGED <<haveWifi, ObjectVars, broken>>
    BY <1>8 DEF HandleIndication, LogIndication, ModemConfigures, ModemAnswers, Indicate, vars
  <2> QED BY <1>7, <2>1 DEF ObjectVars, TypeOK
<1>9. CASE \E u \in Token : Cancel(u)
  BY <1>2, <1>9 DEF Cancel, TypeOK
<1>10. CASE \E u \in Token : Complete(u)
  BY <1>3, <1>10 DEF Complete, TypeOK
<1>11. CASE \E u \in Token : Destroy(u)
  BY <1>4, <1>11 DEF Destroy, TypeOK
<1>12. CASE SlotTerminate
  BY <1>5, <1>12 DEF SlotTerminate, TypeOK
<1>13. CASE HandleIndicationDangling
  BY <1>6, <1>13 DEF HandleIndicationDangling, ObjectVars, TypeOK
<1> QED BY <1>1, <1>8, <1>9, <1>10, <1>11, <1>12, <1>13 DEF Next

(***************************************************************************)
(* The registration state.                                                 *)
(***************************************************************************)
LEMMA StateStep ==
  ASSUME IInv, [Next]_vars
  PROVE  /\ imsState' \in ImsState /\ known' \in ImsState /\ reported' \in ImsState
         /\ inbox' \in Seq(Indications)
         /\ StateFollows'
<1> USE DEF IInv
<1>1. ASSUME NEW i \in Indications, i \notin Logged PROVE StateOf[i] \in ImsState
  BY <1>1, IndicationAssumption DEF IndicationAssumption, StateOf, ImsState
<1>2. ASSUME inbox # <<>>
      PROVE  /\ Head(inbox) = inbox[1] /\ Head(inbox) \in Indications
             /\ Tail(inbox) \in Seq(Indications)
             /\ Len(inbox) \in Nat /\ Len(Tail(inbox)) = Len(inbox) - 1
             /\ Len(inbox) >= 1
             /\ \A i \in 1 .. Len(inbox) - 1 : Tail(inbox)[i] = inbox[i + 1]
  BY <1>2, HeadTailProperties, EmptySeq, LenProperties DEF TypeOK
<1>3. CASE HandleIndication
  <2>1. /\ inbox # <<>> /\ Head(inbox) \notin Logged /\ inbox' = Tail(inbox)
        /\ imsState' = StateOf[Head(inbox)] /\ known' = imsState' /\ reported' = reported
    BY <1>3 DEF HandleIndication, StateFollows
  <2>2. StateOf[Head(inbox)] \in ImsState
    BY <1>1, <1>2, <2>1
  <2>3. (\A i \in 1 .. Len(inbox') : inbox'[i] \in Logged) => reported' = imsState'
    <3>1. SUFFICES ASSUME \A i \in 1 .. Len(inbox') : inbox'[i] \in Logged
                   PROVE  reported' = imsState'
      OBVIOUS
    <3>2. ASSUME NEW j \in 1 + 1 .. Len(inbox) PROVE inbox[j] \in Logged
      <4>1. j - 1 \in 1 .. Len(inbox') /\ inbox'[j - 1] = inbox[j - 1 + 1] /\ j - 1 + 1 = j
        BY <1>2, <2>1
      <4> QED BY <3>1, <4>1
    <3>3. 1 \in 1 .. Len(inbox)
      BY <1>2, <2>1
    <3> QED BY <1>2, <2>1, <3>2, <3>3 DEF StateFollows
  <2>4. ASSUME NEW i \in 1 .. Len(inbox'), inbox'[i] \notin Logged,
               \A j \in i + 1 .. Len(inbox') : inbox'[j] \in Logged
        PROVE  reported' = StateOf[inbox'[i]]
    <3>1. i + 1 \in 1 .. Len(inbox) /\ inbox'[i] = inbox[i + 1]
      BY <1>2, <2>1
    <3>2. ASSUME NEW j \in (i + 1) + 1 .. Len(inbox) PROVE inbox[j] \in Logged
      <4>1. j - 1 \in i + 1 .. Len(inbox') /\ inbox'[j - 1] = inbox[j - 1 + 1] /\ j - 1 + 1 = j
        BY <1>2, <2>1, <3>1
      <4> QED BY <2>4, <4>1
    <3> QED BY <2>1, <2>4, <3>1, <3>2 DEF StateFollows
  <2> QED BY <1>2, <2>1, <2>2, <2>3, <2>4 DEF StateFollows, TypeOK
<1>4. CASE LogIndication
  <2>1. /\ inbox # <<>> /\ Head(inbox) \in Logged /\ inbox' = Tail(inbox)
        /\ UNCHANGED <<imsState, known, reported>>
    BY <1>4 DEF LogIndication
  <2>2. (\A i \in 1 .. Len(inbox') : inbox'[i] \in Logged) => reported' = imsState'
    <3>1. SUFFICES ASSUME \A i \in 1 .. Len(inbox') : inbox'[i] \in Logged
                   PROVE  reported' = imsState'
      OBVIOUS
    <3>2. ASSUME NEW j \in 1 .. Len(inbox) PROVE inbox[j] \in Logged
      <4>1. CASE j = 1
        BY <1>2, <2>1, <4>1
      <4>2. CASE j # 1
        <5>1. j - 1 \in 1 .. Len(inbox') /\ inbox'[j - 1] = inbox[j - 1 + 1] /\ j - 1 + 1 = j
          BY <1>2, <2>1, <4>2
        <5> QED BY <3>1, <5>1
      <4> QED BY <4>1, <4>2
    <3> QED BY <2>1, <3>2 DEF StateFollows
  <2>3. ASSUME NEW i \in 1 .. Len(inbox'), inbox'[i] \notin Logged,
               \A j \in i + 1 .. Len(inbox') : inbox'[j] \in Logged
        PROVE  reported' = StateOf[inbox'[i]]
    <3>1. i + 1 \in 1 .. Len(inbox) /\ inbox'[i] = inbox[i + 1]
      BY <1>2, <2>1
    <3>2. ASSUME NEW j \in (i + 1) + 1 .. Len(inbox) PROVE inbox[j] \in Logged
      <4>1. j - 1 \in i + 1 .. Len(inbox') /\ inbox'[j - 1] = inbox[j - 1 + 1] /\ j - 1 + 1 = j
        BY <1>2, <2>1, <3>1
      <4> QED BY <2>3, <4>1
    <3> QED BY <2>1, <2>3, <3>1, <3>2 DEF StateFollows
  <2> QED BY <1>2, <2>1, <2>2, <2>3 DEF StateFollows, TypeOK
<1>5. ASSUME NEW e \in Indications, Indicate(e)
      PROVE  reported' \in ImsState /\ inbox' \in Seq(Indications) /\ StateFollows'
  <2>1. /\ inbox' = Append(inbox, e) /\ UNCHANGED <<imsState, known>>
        /\ reported' = IF e \in Logged THEN reported ELSE StateOf[e]
    BY <1>5 DEF Indicate
  <2>2. /\ inbox' \in Seq(Indications) /\ Len(inbox) \in Nat /\ Len(inbox') = Len(inbox) + 1
        /\ \A i \in 1 .. Len(inbox) : inbox'[i] = inbox[i]
        /\ inbox'[Len(inbox) + 1] = e
    BY <2>1, AppendProperties, LenProperties DEF TypeOK
  <2>3. reported' \in ImsState
    BY <1>1, <2>1 DEF TypeOK
  <2>4. CASE e \in Logged
    <3>1. (\A i \in 1 .. Len(inbox') : inbox'[i] \in Logged) => reported' = imsState'
      BY <2>1, <2>2, <2>4 DEF StateFollows
    <3>2. ASSUME NEW i \in 1 .. Len(inbox'), inbox'[i] \notin Logged,
                 \A j \in i + 1 .. Len(inbox') : inbox'[j] \in Logged
          PROVE  reported' = StateOf[inbox'[i]]
      <4>1. i \in 1 .. Len(inbox) /\ inbox'[i] = inbox[i]
        BY <2>2, <2>4, <3>2
      <4>2. \A j \in i + 1 .. Len(inbox) : inbox[j] \in Logged
        BY <2>2, <3>2, <4>1
      <4> QED BY <2>1, <2>4, <3>2, <4>1, <4>2 DEF StateFollows
    <3> QED BY <2>1, <2>2, <2>3, <3>1, <3>2 DEF StateFollows
  <2>5. CASE e \notin Logged
    <3>1. ~\A i \in 1 .. Len(inbox') : inbox'[i] \in Logged
      BY <2>2, <2>5
    <3>2. ASSUME NEW i \in 1 .. Len(inbox'),
                 \A j \in i + 1 .. Len(inbox') : inbox'[j] \in Logged
          PROVE  reported' = StateOf[inbox'[i]]
      <4>1. i = Len(inbox) + 1
        BY <2>2, <2>5, <3>2
      <4> QED BY <2>1, <2>2, <2>5, <4>1
    <3> QED BY <2>1, <2>2, <2>3, <3>1, <3>2 DEF StateFollows
  <2> QED BY <2>4, <2>5
<1>6. CASE UNCHANGED StateVars
  BY <1>6 DEF StateVars, StateFollows, TypeOK
<1>7. CASE \E e \in Indications : Indicate(e)
  BY <1>5, <1>7 DEF Indicate, TypeOK
<1> QED BY <1>3, <1>4, <1>6, <1>7
        DEF Next, vars, SetRegistration, Cancel, Complete, Destroy, SlotTerminate,
            HandleIndicationDangling, ModemConfigures, ModemAnswers

(***************************************************************************)
(* The way of a batch to the modem.                                        *)
(***************************************************************************)
QueueTyped ==
  /\ sent \in Seq(Request) /\ answers \subseteq Token
  /\ modem \in [staged : [{"volte", "vowifi"} -> {{}, {TRUE}, {FALSE}}],
                used : [Setting -> BOOLEAN]]
  /\ asked \in [value : BOOLEAN, ud : Token \cup {NoToken}, intact : BOOLEAN]

QueueSound == QueueTyped /\ AnsweredOnce /\ BatchFollows /\ CompletedLast

LEMMA SetRegistrationQueue ==
  ASSUME IInv, NEW value \in BOOLEAN, NEW u \in Token, NEW w \in BOOLEAN,
         SetRegistration(value, u, w)
  PROVE  QueueSound'
<1> USE DEF IInv
<1>1. PICK refused :
        /\ sent' = sent \o Batch(value, u, refused)
        /\ asked' = [value |-> value, ud |-> u, intact |-> refused = {}]
        /\ IF AskEnabled(value, u) \in refused THEN RefuseRequest(u) ELSE TakeRequest(u, w)
  BY DEF SetRegistration
<1>2. PICK b : b = Batch(value, u, refused)
  OBVIOUS
<1>3. haveWifi \in BOOLEAN /\ UNCHANGED <<haveWifi, answers, modem>>
  BY DEF SetRegistration, TypeOK
<1>4. /\ b \in Seq(Request)
      /\ \A i \in 1 .. Len(b) : b[i].ud \in Token =>
           b[i].ud = u /\ AskEnabled(value, u) \notin refused /\ i = Len(b)
  BY <1>2, <1>3, BatchSound
<1>5. sent \in Seq(Request) /\ Len(sent) \in Nat /\ Len(b) \in Nat
  BY <1>4, LenProperties DEF TypeOK
<1>6. /\ sent' \in Seq(Request)
      /\ Len(sent') = Len(sent) + Len(b)
      /\ \A i \in 1 .. Len(sent) + Len(b) :
           sent'[i] = IF i <= Len(sent) THEN sent[i] ELSE b[i - Len(sent)]
  BY <1>1, <1>2, <1>4, <1>5, ConcatProperties
<1>7. reqs[u] = "none" /\ u \notin answers
  BY FreeToken DEF SetRegistration, AnsweredOnce
<1>8. /\ \A t \in Token : t # u => reqs'[t] = reqs[t]
      /\ AskEnabled(value, u) \notin refused => reqs'[u] \in {"pending", "silent"}
      /\ reqs'[u] # "completing"
  BY <1>1, <1>7 DEF TakeRequest, RefuseRequest, TypeOK
<1>9. \A i \in 1 .. Len(sent) : sent[i].ud # u
  BY <1>7 DEF AnsweredOnce
<1>10. QueueTyped'
  <2>1. asked' \in [value : BOOLEAN, ud : Token \cup {NoToken}, intact : BOOLEAN]
    BY <1>1
  <2> QED BY <1>3, <1>6, <2>1 DEF QueueTyped, TypeOK
<1>11. AnsweredOnce'
  <2>1. ASSUME NEW i \in 1 .. Len(sent'), sent'[i].ud \in Token
        PROVE  /\ reqs'[sent'[i].ud] \in {"pending", "silent"}
               /\ sent'[i].ud \notin answers'
               /\ \A j \in 1 .. Len(sent') : sent'[j].ud = sent'[i].ud => j = i
    <3>1. CASE i <= Len(sent)
      <4>1. sent'[i] = sent[i] /\ i \in 1 .. Len(sent)
        BY <1>5, <1>6, <2>1, <3>1
      <4>2. sent[i].ud # u
        BY <1>9, <4>1
      <4>3. ASSUME NEW j \in 1 .. Len(sent'), sent'[j].ud = sent'[i].ud PROVE j = i
        <5>1. CASE j <= Len(sent)
          BY <1>5, <1>6, <2>1, <4>1, <4>3, <5>1 DEF AnsweredOnce
        <5>2. CASE ~(j <= Len(sent))
          <6>1. sent'[j] = b[j - Len(sent)] /\ j - Len(sent) \in 1 .. Len(b)
            BY <1>5, <1>6, <5>2
          <6> QED BY <1>4, <2>1, <4>1, <4>2, <4>3, <6>1
        <5> QED BY <5>1, <5>2
      <4> QED BY <1>3, <1>8, <2>1, <4>1, <4>2, <4>3 DEF AnsweredOnce
    <3>2. CASE ~(i <= Len(sent))
      <4>1. sent'[i] = b[i - Len(sent)] /\ i - Len(sent) \in 1 .. Len(b)
        BY <1>5, <1>6, <3>2
      <4>2. sent'[i].ud = u /\ AskEnabled(value, u) \notin refused /\ i - Len(sent) = Len(b)
        BY <1>4, <2>1, <4>1
      <4>3. ASSUME NEW j \in 1 .. Len(sent'), sent'[j].ud = sent'[i].ud PROVE j = i
        <5>1. ~(j <= Len(sent))
          BY <1>5, <1>6, <1>9, <4>2, <4>3
        <5>2. sent'[j] = b[j - Len(sent)] /\ j - Len(sent) \in 1 .. Len(b)
          BY <1>5, <1>6, <5>1
        <5>3. j - Len(sent) = Len(b)
          BY <1>4, <4>2, <4>3, <5>2
        <5> QED BY <1>5, <4>2, <5>3
      <4> QED BY <1>3, <1>7, <1>8, <4>2, <4>3
    <3> QED BY <3>1, <3>2
  <2>2. \A t \in answers' : reqs'[t] \in {"pending", "silent"}
    BY <1>3, <1>7, <1>8 DEF AnsweredOnce, TypeOK
  <2> QED BY <2>1, <2>2 DEF AnsweredOnce
<1>12. BatchFollows'
  <2>1. SUFFICES ASSUME asked'.intact PROVE BatchSent(Len(sent))' /\ BatchTaken(Len(sent))'
    BY DEF BatchFollows
  <2>2. asked'.value = value /\ asked'.ud = u /\ refused = {}
    BY <1>1, <2>1
  <2>3. /\ haveWifi => /\ Len(b) = 4
                       /\ b[1] = Volte(value) /\ b[2] = Vowifi(value)
                       /\ b[3] = WifiState(value) /\ b[4] = AskEnabled(value, u)
        /\ ~haveWifi => /\ Len(b) = 2
                        /\ b[1] = Volte(value) /\ b[2] = AskEnabled(value, u)
    BY <1>2, <1>3, <2>2, BatchIntact
  <2>4. /\ Volte(value)' = Volte(value) /\ Vowifi(value)' = Vowifi(value)
        /\ WifiState(value)' = WifiState(value)
        /\ AskEnabled(value, u)' = AskEnabled(value, u)
    BY <1>3 DEF Volte, Vowifi, WifiState, AskEnabled, Ask
  <2>5. CASE haveWifi
    <3>1. Len(sent') = Len(sent) + 4
      BY <1>6, <2>3, <2>5
    <3>2. /\ sent'[Len(sent') - 3] = b[1] /\ sent'[Len(sent') - 2] = b[2]
          /\ sent'[Len(sent') - 1] = b[3] /\ sent'[Len(sent')] = b[4]
      BY <1>5, <1>6, <2>3, <2>5, <3>1
    <3> QED BY <1>3, <1>5, <2>2, <2>3, <2>4, <2>5, <3>1, <3>2
            DEF BatchSent, BatchTaken, Volte, Vowifi, WifiState, AskEnabled, Ask
  <2>6. CASE ~haveWifi
    <3>1. Len(sent') = Len(sent) + 2
      BY <1>6, <2>3, <2>6
    <3>2. sent'[Len(sent') - 1] = b[1] /\ sent'[Len(sent')] = b[2]
      BY <1>5, <1>6, <2>3, <2>6, <3>1
    <3> QED BY <1>3, <1>5, <2>2, <2>3, <2>4, <2>6, <3>1, <3>2
            DEF BatchSent, BatchTaken, Volte, AskEnabled, Ask
  <2> QED BY <1>3, <2>5, <2>6
<1>13. CompletedLast'
  BY <1>1, <1>8 DEF CompletedLast
<1> QED BY <1>10, <1>11, <1>12, <1>13 DEF QueueSound

LEMMA CompleteQueue ==
  ASSUME IInv, NEW u \in Token, Complete(u)
  PROVE  QueueSound'
<1> USE DEF IInv
<1>1. /\ UNCHANGED <<haveWifi, sent, modem, asked>> /\ answers' = answers \ {u}
      /\ u \in answers /\ reqs' = [reqs EXCEPT ![u] = "completing"] /\ reqs[u] = "pending"
  BY DEF Complete
<1>2. \A i \in 1 .. Len(sent) : sent[i].ud # u
  BY <1>1 DEF AnsweredOnce
<1>3. \A t \in Token : t # u => reqs'[t] = reqs[t]
  BY <1>1 DEF TypeOK
<1>4. QueueTyped'
  BY <1>1 DEF QueueTyped, TypeOK
<1>5. AnsweredOnce'
  BY <1>1, <1>2, <1>3 DEF AnsweredOnce, TypeOK
<1>6. BatchSent(Len(sent))' = BatchSent(Len(sent)) /\ BatchTaken(Len(sent))' = BatchTaken(Len(sent))
  BY <1>1 DEF BatchSent, BatchTaken, Volte, Vowifi, WifiState, AskEnabled, Ask
<1>7. BatchFollows'
  BY <1>1, <1>3, <1>6 DEF BatchFollows, TypeOK
<1>8. CompletedLast'
  <2>1. SUFFICES ASSUME asked.intact, asked.ud = u PROVE sent = <<>>
    BY <1>1, <1>3 DEF CompletedLast
  <2>2. BatchSent(Len(sent))
    BY <1>1, <2>1 DEF BatchFollows
  <2>3. sent \in Seq(Request) /\ Len(sent) \in Nat
    BY LenProperties DEF TypeOK
  <2>4. ~(Len(sent) >= 1)
    <3>1. SUFFICES ASSUME Len(sent) >= 1 PROVE FALSE
      OBVIOUS
    <3>2. sent[Len(sent)].ud = u /\ Len(sent) \in 1 .. Len(sent)
      BY <2>1, <2>2, <2>3, <3>1 DEF BatchSent, AskEnabled
    <3> QED BY <1>2, <3>2
  <2> QED BY <2>3, <2>4, EmptySeq
<1> QED BY <1>4, <1>5, <1>7, <1>8 DEF QueueSound

LEMMA DestroyQueue ==
  ASSUME IInv, NEW u \in Token, Destroy(u)
  PROVE  QueueSound'
<1> USE DEF IInv
<1>1. /\ UNCHANGED <<haveWifi, modem, asked>> /\ answers' = answers \ {u}
      /\ reqs' = [reqs EXCEPT ![u] = "none"]
      /\ sent' = [i \in DOMAIN sent |->
                    IF sent[i].ud = u THEN [sent[i] EXCEPT !.ud = NoToken] ELSE sent[i]]
  BY DEF Destroy, DestroyRequest
<1>2. /\ sent \in Seq(Request) /\ Len(sent) \in Nat /\ DOMAIN sent = 1 .. Len(sent)
      /\ \A i \in 1 .. Len(sent) : sent[i] \in Request
  BY LenProperties, ElementOfSeq DEF TypeOK
<1>3. /\ sent' \in Seq(Request) /\ Len(sent') = Len(sent)
      /\ \A i \in 1 .. Len(sent) :
           sent'[i] = IF sent[i].ud = u THEN [sent[i] EXCEPT !.ud = NoToken] ELSE sent[i]
  <2>1. \A i \in 1 .. Len(sent) :
          (IF sent[i].ud = u THEN [sent[i] EXCEPT !.ud = NoToken] ELSE sent[i]) \in Request
    BY <1>2 DEF Request
  <2>2. sent' \in [1 .. Len(sent) -> Request]
    BY <1>1, <1>2, <2>1
  <2>3. sent' \in Seq(Request) /\ Len(sent') = Len(sent)
    BY <1>2, <2>2
  <2> QED BY <1>1, <1>2, <2>3
<1>4. \A t \in Token : t # u => reqs'[t] = reqs[t]
  BY <1>1 DEF TypeOK
<1>5. reqs'[u] = "none"
  BY <1>1 DEF TypeOK
<1>6. \A i \in 1 .. Len(sent) : sent'[i].ud = IF sent[i].ud = u THEN NoToken ELSE sent[i].ud
  BY <1>2, <1>3 DEF Request
<1>7. QueueTyped'
  BY <1>1, <1>3 DEF QueueTyped, TypeOK
<1>8. AnsweredOnce'
  <2>1. ASSUME NEW i \in 1 .. Len(sent'), sent'[i].ud \in Token
        PROVE  /\ reqs'[sent'[i].ud] \in {"pending", "silent"}
               /\ sent'[i].ud \notin answers'
               /\ \A j \in 1 .. Len(sent') : sent'[j].ud = sent'[i].ud => j = i
    <3>1. sent'[i].ud = sent[i].ud /\ sent[i].ud # u /\ i \in 1 .. Len(sent)
      BY <1>3, <1>6, <2>1, ConstantAssumption DEF ConstantAssumption
    <3>2. ASSUME NEW j \in 1 .. Len(sent'), sent'[j].ud = sent'[i].ud PROVE j = i
      <4>1. sent[j].ud = sent[i].ud /\ j \in 1 .. Len(sent)
        BY <1>3, <1>6, <2>1, <3>1, <3>2, ConstantAssumption DEF ConstantAssumption
      <4> QED BY <2>1, <3>1, <4>1 DEF AnsweredOnce
    <3> QED BY <1>1, <1>4, <2>1, <3>1, <3>2 DEF AnsweredOnce
  <2>2. \A t \in answers' : reqs'[t] \in {"pending", "silent"}
    BY <1>1, <1>4 DEF AnsweredOnce, TypeOK
  <2> QED BY <2>1, <2>2 DEF AnsweredOnce
<1>9. BatchFollows'
  <2>1. SUFFICES ASSUME asked.intact, asked.ud \in Token, reqs'[asked.ud] # "none"
                 PROVE  BatchSent(Len(sent))' /\ BatchTaken(Len(sent))'
    BY <1>1 DEF BatchFollows
  <2>2. asked.ud # u /\ reqs[asked.ud] # "none"
    BY <1>4, <1>5, <2>1
  <2>3. BatchSent(Len(sent)) /\ BatchTaken(Len(sent))
    BY <2>1, <2>2 DEF BatchFollows
  <2>4. BatchTaken(Len(sent))'
    BY <1>1, <1>3, <2>3 DEF BatchTaken
  <2>5. ASSUME NEW i \in 1 .. Len(sent), sent[i].ud # u PROVE sent'[i] = sent[i]
    BY <1>3, <2>5
  <2>6. u # NoToken
    BY ConstantAssumption DEF ConstantAssumption
  <2>7. BatchSent(Len(sent))'
    BY <1>1, <1>2, <1>3, <2>2, <2>3, <2>5, <2>6
       DEF BatchSent, Volte, Vowifi, WifiState, AskEnabled, Ask
  <2> QED BY <2>4, <2>7
<1>10. CompletedLast'
  <2>1. SUFFICES ASSUME asked.intact, asked.ud \in Token, reqs'[asked.ud] = "completing"
                 PROVE  sent' = <<>>
    BY <1>1 DEF CompletedLast
  <2>2. sent = <<>>
    BY <1>4, <1>5, <2>1 DEF CompletedLast
  <2>3. Len(sent') = 0
    BY <1>3, <2>2, EmptySeq
  <2> QED BY <1>3, <2>3, EmptySeq
<1> QED BY <1>7, <1>8, <1>9, <1>10 DEF QueueSound

(* The modem takes the request that is on its way the longest. *)
LEMMA TakenFirst ==
  ASSUME sent \in Seq(Request), sent # <<>>, sent' = Tail(sent)
  PROVE  /\ Head(sent) = sent[1] /\ Head(sent) \in Request
         /\ Len(sent) \in Nat /\ Len(sent) >= 1
         /\ sent' \in Seq(Request) /\ Len(sent') = Len(sent) - 1
         /\ \A i \in 1 .. Len(sent) - 1 : sent'[i] = sent[i + 1]
BY HeadTailProperties, EmptySeq, LenProperties

LEMMA TakenAnsweredOnce ==
  ASSUME sent \in Seq(Request), AnsweredOnce, sent # <<>>, sent' = Tail(sent), reqs' = reqs,
         answers' \subseteq answers \cup ({Head(sent).ud} \cap Token)
  PROVE  AnsweredOnce'
<1>1. ASSUME NEW i \in 1 .. Len(sent'), sent'[i].ud \in Token
      PROVE  /\ reqs'[sent'[i].ud] \in {"pending", "silent"}
             /\ sent'[i].ud \notin answers'
             /\ \A j \in 1 .. Len(sent') : sent'[j].ud = sent'[i].ud => j = i
  <2>1. i + 1 \in 1 .. Len(sent) /\ sent'[i] = sent[i + 1] /\ i + 1 # 1
        /\ 1 \in 1 .. Len(sent) /\ Head(sent) = sent[1]
    BY TakenFirst
  <2>2. Head(sent).ud # sent[i + 1].ud
    BY <1>1, <2>1 DEF AnsweredOnce
  <2>3. ASSUME NEW j \in 1 .. Len(sent'), sent'[j].ud = sent'[i].ud PROVE j = i
    <3>1. j + 1 \in 1 .. Len(sent) /\ sent'[j] = sent[j + 1]
      BY TakenFirst
    <3>2. j + 1 = i + 1
      BY <1>1, <2>1, <2>3, <3>1 DEF AnsweredOnce
    <3> QED BY <3>2
  <2> QED BY <1>1, <2>1, <2>2, <2>3 DEF AnsweredOnce
<1>2. ASSUME NEW t \in answers' PROVE reqs'[t] \in {"pending", "silent"}
  <2>1. Head(sent) = sent[1] /\ 1 \in 1 .. Len(sent)
    BY TakenFirst
  <2> QED BY <1>2, <2>1 DEF AnsweredOnce
<1> QED BY <1>1, <1>2 DEF AnsweredOnce

LEMMA TakenBatchSent ==
  ASSUME sent \in Seq(Request), sent # <<>>, sent' = Tail(sent), BatchSent(Len(sent)),
         UNCHANGED <<haveWifi, asked>>
  PROVE  BatchSent(Len(sent))'
<1>1. /\ Len(sent) \in Nat /\ Len(sent') = Len(sent) - 1
      /\ \A i \in 1 .. Len(sent) - 1 : sent'[i] = sent[i + 1]
  BY TakenFirst
<1>2. ASSUME NEW k \in 0 .. 3, Len(sent') >= k + 1
      PROVE  sent'[Len(sent') - k] = sent[Len(sent) - k]
  <2>1. Len(sent') - k \in 1 .. Len(sent) - 1 /\ (Len(sent') - k) + 1 = Len(sent) - k
    BY <1>1, <1>2
  <2> QED BY <1>1, <2>1
<1>3. /\ Len(sent') >= 1 => sent'[Len(sent')] = sent[Len(sent)]
      /\ Len(sent') >= 2 => sent'[Len(sent') - 1] = sent[Len(sent) - 1]
      /\ Len(sent') >= 3 => sent'[Len(sent') - 2] = sent[Len(sent) - 2]
      /\ Len(sent') >= 4 => sent'[Len(sent') - 3] = sent[Len(sent) - 3]
  <2>1. Len(sent') - 0 = Len(sent') /\ Len(sent) - 0 = Len(sent)
    BY <1>1
  <2> QED BY <1>1, <1>2, <2>1
<1> QED BY <1>1, <1>3 DEF BatchSent, Volte, Vowifi, WifiState, AskEnabled, Ask

LEMMA UsesStaged ==
  ASSUME NEW value \in BOOLEAN
  PROVE  (TRUE \in {value}) = value
<1>1. TRUE \in {value} <=> value
  <2>1. CASE value
    BY <2>1, Zenon
  <2>2. CASE ~value
    BY <2>2, Zenon
  <2> QED BY <2>1, <2>2
<1>2. (TRUE \in {value}) \in BOOLEAN
  BY SMT
<1>3. ASSUME NEW x \in BOOLEAN, NEW y \in BOOLEAN, x <=> y PROVE x = y
  BY <1>3, Zenon
<1> QED BY <1>1, <1>2, <1>3, Zenon

LEMMA UsedOrStaged ==
  ASSUME NEW kept, NEW used \in BOOLEAN, NEW values
  PROVE  (IF kept THEN used ELSE TRUE \in values) \in BOOLEAN
<1>1. (TRUE \in values) \in BOOLEAN
  BY SMT
<1>2. CASE kept
  <2>1. (IF kept THEN used ELSE TRUE \in values) = used
    BY <1>2, Zenon
  <2> QED BY <2>1, Zenon
<1>3. CASE ~kept
  <2>1. (IF kept THEN used ELSE TRUE \in values) = (TRUE \in values)
    BY <1>3, Zenon
  <2> QED BY <1>1, <2>1, Zenon
<1> QED BY <1>2, <1>3, Zenon

LEMMA ModemConfiguresQueue ==
  ASSUME IInv, ModemConfigures
  PROVE  QueueSound'
<1> USE DEF IInv
<1> DEFINE r == Head(sent)
           staged == [modem.staged EXCEPT ![r.sets] = {r.value}]
<1>1. /\ sent # <<>> /\ r.sets # "ims" /\ sent' = Tail(sent)
      /\ UNCHANGED <<haveWifi, answers, asked, reqs>>
      /\ modem' =
           IF r.sets = "wifi" THEN [modem EXCEPT !.used["wifi"] = r.value]
           ELSE IF ~r.last THEN [modem EXCEPT !.staged = staged]
           ELSE [staged |-> [f \in DOMAIN staged |-> {}],
                 used |-> [s \in Setting |-> IF s = "wifi" \/ staged[s] = {}
                                             THEN modem.used[s] ELSE TRUE \in staged[s]]]
  BY DEF ModemConfigures, ObjectVars
<1>2. sent \in Seq(Request)
  BY DEF TypeOK
<1>3. /\ r = sent[1] /\ r \in Request
      /\ Len(sent) \in Nat /\ Len(sent) >= 1
      /\ sent' \in Seq(Request) /\ Len(sent') = Len(sent) - 1
  BY <1>1, <1>2, TakenFirst
<1>4. r.value \in BOOLEAN /\ r.last \in BOOLEAN /\ r.sets \in Setting
  BY <1>1, <1>3 DEF Request
<1>5. /\ modem = [staged |-> modem.staged, used |-> modem.used]
      /\ modem.staged \in [{"volte", "vowifi"} -> {{}, {TRUE}, {FALSE}}]
      /\ modem.used \in [Setting -> BOOLEAN]
  BY DEF TypeOK
<1>6. staged \in [{"volte", "vowifi"} -> {{}, {TRUE}, {FALSE}}]
  BY <1>4, <1>5
<1> HIDE DEF r, staged
<1>7. modem' \in [staged : [{"volte", "vowifi"} -> {{}, {TRUE}, {FALSE}}],
                  used : [Setting -> BOOLEAN]]
  <2>1. CASE r.sets = "wifi"
    <3>1. modem' = [staged |-> modem.staged, used |-> [modem.used EXCEPT !["wifi"] = r.value]]
      BY <1>1, <1>5, <2>1
    <3> QED BY <1>4, <1>5, <3>1
  <2>2. CASE r.sets # "wifi" /\ ~r.last
    <3>1. modem' = [staged |-> staged, used |-> modem.used]
      BY <1>1, <1>5, <2>2
    <3> QED BY <1>5, <1>6, <3>1
  <2>3. CASE r.sets # "wifi" /\ r.last
    <3> DEFINE unstaged == [f \in DOMAIN staged |-> {}]
               taken == [s \in Setting |-> IF s = "wifi" \/ staged[s] = {}
                                          THEN modem.used[s] ELSE TRUE \in staged[s]]
    <3>1. modem' = [staged |-> unstaged, used |-> taken]
      BY <1>1, <2>3, Zenon
    <3>2. DOMAIN staged = {"volte", "vowifi"}
      BY <1>6
    <3>3. unstaged \in [{"volte", "vowifi"} -> {{}, {TRUE}, {FALSE}}]
      BY <3>2
    <3>4. ASSUME NEW s \in Setting
          PROVE  (IF s = "wifi" \/ staged[s] = {} THEN modem.used[s] ELSE TRUE \in staged[s])
                   \in BOOLEAN
      <4>1. modem.used[s] \in BOOLEAN
        BY <1>5
      <4> QED BY <4>1, UsedOrStaged, Zenon
    <3>5. taken \in [Setting -> BOOLEAN]
      BY <3>4, Zenon
    <3> HIDE DEF unstaged, taken
    <3> QED BY <3>1, <3>3, <3>5
  <2> QED BY <1>4, <2>1, <2>2, <2>3
<1>8. QueueTyped'
  BY <1>1, <1>3, <1>7 DEF QueueTyped, TypeOK
<1>9. AnsweredOnce'
  BY <1>1, <1>2, TakenAnsweredOnce
<1>10. ASSUME asked.intact, asked.ud \in Token, reqs[asked.ud] # "none"
       PROVE  BatchSent(Len(sent))' /\ BatchTaken(Len(sent))'
  <2>1. BatchSent(Len(sent)) /\ BatchTaken(Len(sent))
    BY <1>10 DEF BatchFollows
  <2>2. BatchSent(Len(sent))'
    BY <1>1, <1>2, <2>1, TakenBatchSent
  <2>3. asked.value \in BOOLEAN /\ haveWifi \in BOOLEAN
    BY DEF TypeOK
  <2>4. Len(sent) # 1
    BY <1>1, <1>3, <2>1 DEF BatchSent, AskEnabled
  <2>5. CASE haveWifi /\ Len(sent) = 2
    <3>1. r = WifiState(asked.value)
      BY <1>3, <2>1, <2>5 DEF BatchSent
    <3>2. r.sets = "wifi" /\ r.value = asked.value
      BY <3>1 DEF WifiState, Ask
    <3>3. modem' = [staged |-> modem.staged, used |-> [modem.used EXCEPT !["wifi"] = r.value]]
      BY <1>1, <1>5, <3>2
    <3>4. modem.used["volte"] = asked.value /\ modem.used["vowifi"] = asked.value
      BY <2>1, <2>5 DEF BatchTaken
    <3>5. /\ modem'.used["volte"] = asked.value /\ modem'.used["vowifi"] = asked.value
          /\ modem'.used["wifi"] = asked.value
      BY <1>5, <3>2, <3>3, <3>4 DEF Setting
    <3>8. haveWifi' /\ Len(sent') = 1 /\ asked' = asked
      BY <1>1, <1>3, <2>5
    <3> QED BY <2>2, <3>5, <3>8 DEF BatchTaken
  <2>6. CASE haveWifi /\ Len(sent) = 3
    <3>1. r = Vowifi(asked.value)
      BY <1>3, <2>1, <2>6 DEF BatchSent
    <3>2. r.sets = "vowifi" /\ r.value = asked.value /\ r.last
      BY <3>1 DEF Vowifi, Ask
    <3>3. staged["volte"] = {asked.value} /\ staged["vowifi"] = {asked.value}
      BY <1>5, <2>1, <2>6, <3>2 DEF BatchTaken, staged
    <3>4. modem'.used = [s \in Setting |-> IF s = "wifi" \/ staged[s] = {}
                                           THEN modem.used[s] ELSE TRUE \in staged[s]]
      BY <1>1, <3>2
    <3>5. modem'.used["volte"] = (TRUE \in {asked.value})
          /\ modem'.used["vowifi"] = (TRUE \in {asked.value})
      BY <3>3, <3>4 DEF Setting
    <3>6. (TRUE \in {asked.value}) = asked.value
      BY <2>3, UsesStaged
    <3>7. modem'.used["volte"] = asked.value /\ modem'.used["vowifi"] = asked.value
      BY <3>5, <3>6
    <3>8. haveWifi' /\ Len(sent') = 2 /\ asked' = asked
      BY <1>1, <1>3, <2>6
    <3> QED BY <2>2, <3>7, <3>8 DEF BatchTaken
  <2>7. CASE haveWifi /\ Len(sent) = 4
    <3>1. r = Volte(asked.value)
      BY <1>3, <2>1, <2>7 DEF BatchSent
    <3>2. r.sets = "volte" /\ r.value = asked.value /\ ~r.last
      BY <2>7, <3>1 DEF Volte, Ask
    <3>3. staged["volte"] = {asked.value}
      BY <1>5, <3>2 DEF staged
    <3>4. modem' = [staged |-> staged, used |-> modem.used]
      BY <1>1, <1>5, <3>2
    <3>5. modem'.staged["volte"] = {asked.value}
      BY <3>3, <3>4
    <3>8. haveWifi' /\ Len(sent') = 3 /\ asked' = asked
      BY <1>1, <1>3, <2>7
    <3> QED BY <2>2, <3>5, <3>8 DEF BatchTaken
  <2>8. CASE ~haveWifi /\ Len(sent) = 2
    <3>1. r = Volte(asked.value)
      BY <1>3, <2>1, <2>8 DEF BatchSent
    <3>2. r.sets = "volte" /\ r.value = asked.value /\ r.last
      BY <2>8, <3>1 DEF Volte, Ask
    <3>3. staged["volte"] = {asked.value}
      BY <1>5, <3>2 DEF staged
    <3>4. modem'.used = [s \in Setting |-> IF s = "wifi" \/ staged[s] = {}
                                           THEN modem.used[s] ELSE TRUE \in staged[s]]
      BY <1>1, <3>2
    <3>5. modem'.used["volte"] = (TRUE \in {asked.value})
      BY <3>3, <3>4 DEF Setting
    <3>6. (TRUE \in {asked.value}) = asked.value
      BY <2>3, UsesStaged
    <3>7. modem'.used["volte"] = asked.value
      BY <3>5, <3>6
    <3> QED BY <1>1, <1>3, <2>2, <2>8, <3>7 DEF BatchTaken
  <2>9. CASE haveWifi /\ Len(sent) >= 5
    <3>1. haveWifi' /\ Len(sent') >= 4
      BY <1>1, <1>3, <2>9
    <3> QED BY <1>3, <2>2, <3>1 DEF BatchTaken
  <2>10. CASE ~haveWifi /\ Len(sent) >= 3
    <3>1. ~haveWifi' /\ Len(sent') >= 2
      BY <1>1, <1>3, <2>10
    <3> QED BY <1>3, <2>2, <3>1 DEF BatchTaken
  <2> QED BY <1>3, <2>3, <2>4, <2>5, <2>6, <2>7, <2>8, <2>9, <2>10
<1>11. BatchFollows'
  BY <1>1, <1>10 DEF BatchFollows
<1>12. CompletedLast'
  BY <1>1 DEF CompletedLast
<1> QED BY <1>8, <1>9, <1>11, <1>12 DEF QueueSound

LEMMA ModemAnswersQueue ==
  ASSUME IInv, ModemAnswers
  PROVE  QueueSound'
<1> USE DEF IInv
<1>1. /\ sent # <<>> /\ sent' = Tail(sent)
      /\ UNCHANGED <<haveWifi, modem, asked, reqs>>
      /\ answers' \in {answers, answers \cup ({Head(sent).ud} \ {NoToken})}
      /\ Head(sent).sets = "ims"
  BY DEF ModemAnswers, ObjectVars
<1>2. sent \in Seq(Request)
  BY DEF TypeOK
<1>3. /\ Head(sent) = sent[1] /\ Head(sent) \in Request
      /\ Len(sent) \in Nat /\ Len(sent) >= 1
      /\ sent' \in Seq(Request) /\ Len(sent') = Len(sent) - 1
  BY <1>1, <1>2, TakenFirst
<1>4. answers' \subseteq answers \cup ({Head(sent).ud} \cap Token)
  BY <1>1, <1>3 DEF Request
<1>5. QueueTyped'
  BY <1>1, <1>3, <1>4 DEF QueueTyped, TypeOK
<1>6. AnsweredOnce'
  BY <1>1, <1>2, <1>4, TakenAnsweredOnce
<1>7. ASSUME asked.intact, asked.ud \in Token, reqs[asked.ud] # "none"
      PROVE  BatchSent(Len(sent))' /\ BatchTaken(Len(sent))'
  <2>1. BatchSent(Len(sent)) /\ BatchTaken(Len(sent))
    BY <1>7 DEF BatchFollows
  <2>2. BatchSent(Len(sent))'
    BY <1>1, <1>2, <2>1, TakenBatchSent
  <2>3. /\ haveWifi => Len(sent) \notin {2, 3, 4}
        /\ ~haveWifi => Len(sent) # 2
    BY <1>1, <1>3, <2>1 DEF BatchSent, Volte, Vowifi, WifiState, Ask
  <2> QED BY <1>1, <1>3, <2>1, <2>2, <2>3 DEF BatchTaken
<1>8. BatchFollows'
  BY <1>1, <1>7 DEF BatchFollows
<1>9. CompletedLast'
  BY <1>1 DEF CompletedLast
<1> QED BY <1>5, <1>6, <1>8, <1>9 DEF QueueSound

LEMMA QueueStep ==
  ASSUME IInv, [Next]_vars
  PROVE  QueueSound'
<1>1. CASE UNCHANGED <<haveWifi, reqs, ConfigVars>>
  BY <1>1 DEF IInv, TypeOK, ConfigVars, QueueSound, QueueTyped, AnsweredOnce, BatchFollows,
              BatchSent, BatchTaken, CompletedLast, Volte, Vowifi, WifiState, AskEnabled, Ask
<1> QED BY <1>1, SetRegistrationQueue, CompleteQueue, DestroyQueue, ModemConfiguresQueue,
           ModemAnswersQueue
        DEF Next, vars, Cancel, SlotTerminate, HandleIndication, HandleIndicationDangling,
            LogIndication, Indicate, ObjectVars

(***************************************************************************)
(* The theorems.                                                           *)
(***************************************************************************)
LEMMA StepSound == IInv /\ [Next]_vars => IInv'
<1> SUFFICES ASSUME IInv, [Next]_vars PROVE IInv'
  OBVIOUS
<1>1. TypeOK'
  BY ObjectStep, StateStep, QueueStep DEF IInv, TypeOK, QueueSound, QueueTyped
<1> QED BY <1>1, ObjectStep, StateStep, QueueStep DEF IInv, QueueSound

LEMMA IInvAlways == Spec => []IInv
BY InitSound, StepSound, PTL DEF Spec

(* Every variable keeps its type; the count of references never goes       *)
(* below zero.                                                             *)
THEOREM TypeCorrect == Spec => []TypeOK
<1>1. IInv => TypeOK
  BY DEF IInv
<1> QED BY <1>1, IInvAlways, PTL

(* The MtkIms is finalized when neither the slot nor a request needs it,   *)
(* and never before: only an indication after mtk_slot_terminate can meet  *)
(* a freed one.                                                            *)
THEOREM AliveWhileUsedAlways == Spec => []AliveWhileUsed
<1>1. IInv => AliveWhileUsed
  BY RefsBound DEF IInv, AliveWhileUsed, Active, RefsCounted, Dangling
<1> QED BY <1>1, IInvAlways, PTL

(* ofono never keeps a registration state that the modem has left, once    *)
(* the indications are handled.                                            *)
THEOREM InSyncAlways == Spec => []InSyncWhenHandled
<1>1. IInv => InSyncWhenHandled
  <2>1. SUFFICES ASSUME IInv, inbox = <<>> PROVE known = reported
    BY DEF InSyncWhenHandled
  <2>2. Len(inbox) = 0
    BY <2>1, EmptySeq
  <2> QED BY <2>1, <2>2 DEF IInv, StateFollows
<1> QED BY <1>1, IInvAlways, PTL

(* The answer ofono waits for comes when the modem uses the configuration  *)
(* that was asked for.                                                     *)
THEOREM ConfiguredAlways == Spec => []ConfiguredWhenCompleted
<1>1. IInv => ConfiguredWhenCompleted
  <2>1. SUFFICES ASSUME IInv, NEW u \in Token, reqs[u] = "completing", asked.ud = u,
                        asked.intact
                 PROVE  \A s \in IF haveWifi THEN Setting ELSE {"volte"} :
                          modem.used[s] = asked.value
    BY DEF ConfiguredWhenCompleted
  <2>2. sent = <<>> /\ Len(sent) = 0
    BY <2>1, EmptySeq DEF IInv, CompletedLast
  <2>3. BatchTaken(0)
    BY <2>1, <2>2 DEF IInv, BatchFollows
  <2> QED BY <2>3 DEF BatchTaken, Setting
<1> QED BY <1>1, IInvAlways, PTL

(* The step of one request under ofono's contract. *)
LEMMA StepRefines ==
  ASSUME IInv, [Next]_vars
  PROVE  [Contract!Next]_[u \in Token |-> PhaseOf(calls[u])]
<1> DEFINE ph == [u \in Token |-> PhaseOf(calls[u])]
<1> USE DEF IInv
<1>1. SUFFICES ASSUME calls' # calls
               PROVE  /\ ph' \in [Token -> Contract!Phase]
                      /\ \A u \in Token : ph'[u] = ph[u] \/ Contract!Step(ph[u], ph'[u])
  BY DEF Contract!Next
<1>2. \A u \in Token : calls'[u].complete \in 0 .. 1 /\ calls'[u].destroy \in 0 .. 1
  BY ObjectStep DEF CallsMatch
<1>3. ph' \in [Token -> Contract!Phase]
  BY <1>2 DEF PhaseOf, Contract!Phase
<1>4. \A u \in Token : ph[u] = PhaseOf(calls[u]) /\ ph'[u] = PhaseOf(calls'[u])
  OBVIOUS
<1> HIDE DEF ph
<1>5. ASSUME NEW value \in BOOLEAN, NEW u \in Token, NEW w \in BOOLEAN,
             SetRegistration(value, u, w)
      PROVE  \A t \in Token : ph'[t] = ph[t] \/ Contract!Step(ph[t], ph'[t])
  <2>1. calls[u].destroy = 1 /\ calls[u].complete \in 0 .. 1
    BY <1>5, FreeToken DEF SetRegistration
  <2>2. /\ calls'[u].complete = 0 /\ calls'[u].destroy \in 0 .. 1
        /\ \A t \in Token : t # u => calls'[t] = calls[t]
    BY <1>5 DEF SetRegistration, TakeRequest, RefuseRequest, TypeOK
  <2> QED BY <1>4, <2>1, <2>2 DEF PhaseOf, Contract!Step, Contract!Free
<1>6. ASSUME NEW u \in Token, Cancel(u)
      PROVE  \A t \in Token : ph'[t] = ph[t] \/ Contract!Step(ph[t], ph'[t])
  <2>1. \A t \in Token : calls'[t].complete = calls[t].complete
                         /\ calls'[t].destroy = calls[t].destroy
    BY <1>6 DEF Cancel, TypeOK
  <2> QED BY <1>4, <2>1 DEF PhaseOf
<1>7. ASSUME NEW u \in Token, Complete(u)
      PROVE  \A t \in Token : ph'[t] = ph[t] \/ Contract!Step(ph[t], ph'[t])
  <2>1. calls[u].complete = 0 /\ calls[u].destroy = 0
    BY <1>7 DEF Complete, CallsMatch
  <2>2. calls' = [calls EXCEPT ![u].complete = calls[u].complete + 1]
    BY <1>7 DEF Complete
  <2>3. calls'[u].complete = 1 /\ calls'[u].destroy = 0
        /\ \A t \in Token : t # u => calls'[t] = calls[t]
    BY <2>1, <2>2 DEF TypeOK
  <2> QED BY <1>4, <2>1, <2>3 DEF PhaseOf, Contract!Step
<1>8. ASSUME NEW u \in Token, Destroy(u)
      PROVE  \A t \in Token : ph'[t] = ph[t] \/ Contract!Step(ph[t], ph'[t])
  <2>1. reqs[u] \in {"pending", "silent", "completing"}
    BY <1>8 DEF Destroy, TypeOK
  <2>2. calls[u].destroy = 0 /\ calls[u].complete \in 0 .. 1
    BY <2>1 DEF CallsMatch
  <2>3. calls' = [calls EXCEPT ![u].destroy = calls[u].destroy + 1, ![u].cancelled = FALSE]
    BY <1>8 DEF Destroy, DestroyRequest
  <2>4. calls'[u].destroy = 1 /\ calls'[u].complete = calls[u].complete
        /\ \A t \in Token : t # u => calls'[t] = calls[t]
    BY <2>2, <2>3 DEF TypeOK
  <2> QED BY <1>4, <2>2, <2>4 DEF PhaseOf, Contract!Step
<1> QED BY <1>1, <1>3, <1>5, <1>6, <1>7, <1>8
        DEF Next, vars, SlotTerminate, HandleIndication, HandleIndicationDangling, LogIndication,
            Indicate, ModemConfigures, ModemAnswers, ObjectVars

(* ofono's callbacks get from MtkIms what MtkIms gets from the request     *)
(* layer: complete() at most once, then destroy(), once.                   *)
THEOREM ImplementsContract == Spec => ContractSpec
<1>1. Init => Contract!Init
  BY DEF Init, Contract!Init, PhaseOf
<1> QED BY <1>1, StepRefines, IInvAlways, PTL DEF Spec, ContractSpec, Contract!Spec
=============================================================================
