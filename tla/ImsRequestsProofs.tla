------------------------- MODULE ImsRequestsProofs -------------------------
(***************************************************************************)
(* Theorems about ImsRequests, for every set of user_data and every bound  *)
(* on the serials.  BlocksSound is not inductive: it takes that a serial   *)
(* which was not used yet is vacant, and what a complete() that is running *)
(* leaves behind when ofono cancels its own request from within it.        *)
(***************************************************************************)
EXTENDS ImsRequests, FiniteSetTheorems, TLAPS

(* Serials are not used twice. *)
SerialsFresh == \A s \in Serials : s > lastId => table[s] = Vacant

(* The block whose complete() is running: a dial's is there, that of an    *)
(* SMS may have been cancelled and its user_data used again, but the entry *)
(* at its serial is its own or vacant.  Only such a block is completed.    *)
InsideSound ==
  /\ inside.ud = NoToken => inside.serial = 0
  /\ inside.ud \in Token /\ inside.serial = 0 => inside.ud \in radio
  /\ inside.serial <= lastId
  /\ inside.serial # 0 /\ table[inside.serial] \in Token =>
       table[inside.serial] = inside.ud
  /\ \A u \in Token : Held(u) =>
       (calls[u].complete = 1 <=>
          inside.ud = u /\ (inside.serial = 0 \/ table[inside.serial] = u))

IInv == TypeOK /\ BlocksSound /\ SerialsFresh /\ InsideSound

(***************************************************************************)
(* The blocks of the pending dials, one reference to the MtkImsCall each.  *)
(***************************************************************************)
LEMMA RadioFinite ==
  ASSUME TypeOK
  PROVE  /\ IsFiniteSet(radio)
         /\ Cardinality(radio) \in Nat
         /\ \A u \in radio : Cardinality(radio) >= 1
<1>1. IsFiniteSet(radio)
  BY ConstantAssumption, FS_Subset DEF ConstantAssumption, TypeOK
<1>2. Cardinality(radio) \in Nat
  BY <1>1, FS_CardinalityType
<1>3. ASSUME NEW u \in radio  PROVE Cardinality(radio) >= 1
  <2>1. /\ IsFiniteSet(radio \ {u})
        /\ Cardinality(radio \ {u}) = Cardinality(radio) - 1
    BY <1>1, FS_RemoveElement
  <2>2. Cardinality(radio \ {u}) \in Nat
    BY <2>1, FS_CardinalityType
  <2>3. QED BY <1>2, <2>1, <2>2
<1>4. QED BY <1>1, <1>2, <1>3

(* What UnrefBlock does to a block that is there. *)
LEMMA UnrefBlockEffect ==
  ASSUME TypeOK, BlocksSound, NEW u \in Token, reqs[u] # "none", UnrefBlock(u)
  PROVE  /\ reqs' = [reqs EXCEPT ![u] = "none"]
         /\ count' = [count EXCEPT ![u] = 0]
         /\ calls' = [calls EXCEPT ![u].destroy = 1]
         /\ callRefs' = IF u \in radio THEN callRefs - 1 ELSE callRefs
         /\ callRefs' \in Nat \ {0}
<1>1. count[u] = 1 /\ calls[u].destroy = 0
  BY DEF BlocksSound, Held
<1>2. reqs[u] = "dial" <=> u \in radio
  BY DEF BlocksSound
<1>3. callRefs \in Nat \ {0} /\ callRefs = 1 + Cardinality(radio)
  BY DEF TypeOK, BlocksSound
<1>4. u \in radio => callRefs > 1
  BY <1>3, RadioFinite
<1>5. QED BY <1>1, <1>2, <1>3, <1>4 DEF UnrefBlock

(* An SMS entry that is removed with its block leaves the rest sound. *)
LEMMA RemoveEntry ==
  ASSUME IInv, NEW s \in Serials, table[s] \in Token,
         UnrefBlock(table[s]), table' = [table EXCEPT ![s] = Vacant],
         UNCHANGED radio
  PROVE  /\ reqs' \in [Token -> {"none", "dial", "sms"}]
         /\ count' \in [Token -> 0 .. 1]
         /\ calls' \in [Token -> [complete : 0 .. 1, destroy : 0 .. 1]]
         /\ callRefs' = callRefs
         /\ calls' = [calls EXCEPT ![table[s]].destroy = 1]
         /\ table' \in [Serials -> Token \cup {NoToken, Vacant}]
         /\ BlocksSound'
<1> DEFINE u == table[s]
<1>1. u \in Token /\ reqs[u] = "sms" /\ u \notin radio
  BY DEF IInv, BlocksSound
<1>2. /\ reqs' = [reqs EXCEPT ![u] = "none"]
      /\ count' = [count EXCEPT ![u] = 0]
      /\ calls' = [calls EXCEPT ![u].destroy = 1]
      /\ callRefs' = callRefs
  BY <1>1, UnrefBlockEffect DEF IInv
<1>3. /\ reqs' \in [Token -> {"none", "dial", "sms"}]
      /\ count' \in [Token -> 0 .. 1]
      /\ calls' \in [Token -> [complete : 0 .. 1, destroy : 0 .. 1]]
      /\ table' \in [Serials -> Token \cup {NoToken, Vacant}]
  BY <1>1, <1>2 DEF IInv, TypeOK
<1>4. \A v \in Token : v # u => calls'[v] = calls[v] /\ reqs'[v] = reqs[v] /\ count'[v] = count[v]
  BY <1>2 DEF IInv
<1>5. reqs'[u] = "none" /\ count'[u] = 0 /\ calls'[u].destroy = 1
  BY <1>1, <1>2 DEF IInv, TypeOK
<1>6. \A v \in Token : reqs'[v] = "sms" <=> \E t \in Serials : table'[t] = v
  <2> SUFFICES ASSUME NEW v \in Token
               PROVE  reqs'[v] = "sms" <=> \E t \in Serials : table'[t] = v
    OBVIOUS
  <2>1. \A t \in Serials : table'[t] = v <=> table[t] = v /\ t # s
    BY ConstantAssumption DEF IInv, TypeOK
  <2>2. CASE v = u
    BY <1>1, <1>5, <2>1, <2>2 DEF IInv, BlocksSound
  <2>3. CASE v # u
    BY <1>4, <2>1, <2>3 DEF IInv, BlocksSound
  <2>4. QED BY <2>2, <2>3
<1>7. \A t, r \in Serials : table'[t] \in Token /\ table'[t] = table'[r] => t = r
  BY ConstantAssumption DEF IInv, BlocksSound
<1>8. QED
  BY <1>1, <1>2, <1>3, <1>4, <1>5, <1>6, <1>7 DEF IInv, BlocksSound, Held

(***************************************************************************)
(* One lemma for each action.                                              *)
(***************************************************************************)
LEMMA DialStep ==
  ASSUME IInv, NEW u \in Token, Dial(u)
  PROVE  IInv'
<1>1. TypeOK'
  BY DEF IInv, TypeOK, Dial, NewBlock
<1>2. BlocksSound'
  <2>1. u \notin radio /\ reqs[u] = "none"
    BY ConstantAssumption DEF IInv, TypeOK, BlocksSound, Held, Dial
  <2>2. IsFiniteSet(radio) /\ Cardinality(radio \cup {u}) = Cardinality(radio) + 1
    BY <2>1, RadioFinite, FS_AddElement DEF IInv
  <2>3. \A v \in Token : /\ reqs'[v] = IF v = u THEN "dial" ELSE reqs[v]
                         /\ count'[v] = IF v = u THEN 1 ELSE count[v]
                         /\ Held(v)' <=> v = u \/ Held(v)
    BY DEF IInv, TypeOK, Held, Dial, NewBlock
  <2>4. radio' = {v \in Token : reqs'[v] = "dial"}
    BY <2>3 DEF IInv, BlocksSound, Dial
  <2>5. \A v \in Token : reqs'[v] = "sms" <=> \E s \in Serials : table'[s] = v
    BY <2>1, <2>3 DEF IInv, BlocksSound, Dial
  <2>6. callRefs' = 1 + Cardinality(radio')
    BY <2>2, RadioFinite DEF IInv, BlocksSound, Dial, NewBlock
  <2>7. \A s, t \in Serials : table'[s] \in Token /\ table'[s] = table'[t] => s = t
    BY DEF IInv, BlocksSound, Dial
  <2>8. QED BY <2>1, <2>3, <2>4, <2>5, <2>6, <2>7 DEF IInv, BlocksSound
<1>3. SerialsFresh'
  BY DEF IInv, SerialsFresh, Dial, NewBlock
<1>4. InsideSound'
  BY DEF IInv, TypeOK, BlocksSound, InsideSound, Dial, NewBlock, Serials, Held
<1>5. QED BY <1>1, <1>2, <1>3, <1>4 DEF IInv

LEMMA DialRefusedStep ==
  ASSUME IInv, NEW u \in Token, DialRefused(u)
  PROVE  IInv'
<1>1. TypeOK'
  BY DEF IInv, TypeOK, DialRefused, RefusedBlock
<1>2. BlocksSound'
  BY DEF IInv, BlocksSound, DialRefused, RefusedBlock, Held
<1>3. SerialsFresh'
  BY DEF IInv, SerialsFresh, DialRefused, RefusedBlock
<1>4. InsideSound'
  BY DEF IInv, InsideSound, DialRefused, RefusedBlock, Held
<1>5. QED BY <1>1, <1>2, <1>3, <1>4 DEF IInv

LEMMA DialCompleteStep ==
  ASSUME IInv, NEW u \in Token, DialComplete(u)
  PROVE  IInv'
<1>1. TypeOK'
  BY ConstantAssumption
  DEF IInv, TypeOK, BlocksSound, InsideSound, DialComplete, Idle
<1>2. BlocksSound'
  BY DEF IInv, BlocksSound, DialComplete, Held
<1>3. SerialsFresh'
  BY DEF IInv, SerialsFresh, DialComplete
<1>4. InsideSound'
  BY ConstantAssumption DEF IInv, TypeOK, InsideSound, DialComplete, Idle, Held
<1>5. QED BY <1>1, <1>2, <1>3, <1>4 DEF IInv

LEMMA DialDestroyStep ==
  ASSUME IInv, NEW u \in Token, DialDestroy(u)
  PROVE  IInv'
<1>a. u \in radio /\ reqs[u] = "dial"
  BY ConstantAssumption DEF IInv, BlocksSound, InsideSound, DialDestroy
<1>b. /\ reqs' = [reqs EXCEPT ![u] = "none"]
      /\ count' = [count EXCEPT ![u] = 0]
      /\ calls' = [calls EXCEPT ![u].destroy = 1]
      /\ callRefs' = callRefs - 1
      /\ callRefs' \in Nat \ {0}
  BY <1>a, UnrefBlockEffect DEF IInv, DialDestroy
<1>1. TypeOK'
  BY <1>b DEF IInv, TypeOK, DialDestroy, Idle
<1>2. BlocksSound'
  <2>1. \A v \in Token : /\ reqs'[v] = IF v = u THEN "none" ELSE reqs[v]
                         /\ count'[v] = IF v = u THEN 0 ELSE count[v]
                         /\ Held(v)' <=> v # u /\ Held(v)
    BY <1>b DEF IInv, TypeOK, Held
  <2>2. Cardinality(radio') = Cardinality(radio) - 1
    BY <1>a, RadioFinite, FS_RemoveElement DEF IInv, DialDestroy
  <2>3. callRefs' = 1 + Cardinality(radio')
    BY <1>b, <2>2, RadioFinite DEF IInv, BlocksSound
  <2>4. radio' = {v \in Token : reqs'[v] = "dial"}
    BY <2>1 DEF IInv, BlocksSound, DialDestroy
  <2>5. \A v \in Token : reqs'[v] = "sms" <=> \E s \in Serials : table'[s] = v
    BY <1>a, <2>1 DEF IInv, BlocksSound, DialDestroy
  <2>6. \A s, t \in Serials : table'[s] \in Token /\ table'[s] = table'[t] => s = t
    BY DEF IInv, BlocksSound, DialDestroy
  <2>7. QED BY <2>1, <2>3, <2>4, <2>5, <2>6 DEF IInv, BlocksSound
<1>3. SerialsFresh'
  BY DEF IInv, SerialsFresh, DialDestroy
<1>4. InsideSound'
  BY <1>b, ConstantAssumption DEF IInv, TypeOK, InsideSound, DialDestroy, Idle, Held
<1>5. QED BY <1>1, <1>2, <1>3, <1>4 DEF IInv

LEMMA SendStep ==
  ASSUME IInv, NEW u \in Token, Send(u)
  PROVE  IInv'
<1>1. TypeOK'
  BY ConstantAssumption DEF IInv, TypeOK, Send, NewBlock, NextSerial, Serials
<1>2. BlocksSound'
  <2>1. u \notin radio /\ reqs[u] = "none"
    BY DEF IInv, BlocksSound, Send
  <2>2. IsFiniteSet(radio) /\ Cardinality(radio \cup {u}) = Cardinality(radio) + 1
    BY <2>1, RadioFinite, FS_AddElement DEF IInv
  <2>3. \A v \in Token : /\ reqs'[v] = IF v = u THEN "sms" ELSE reqs[v]
                         /\ count'[v] = IF v = u THEN 1 ELSE count[v]
                         /\ Held(v)' <=> v = u \/ Held(v)
    BY DEF IInv, TypeOK, Held, Send, NewBlock, NextSerial
  <2>4. lastId' \in Serials /\ lastId' > lastId /\ table[lastId'] = Vacant
    BY ConstantAssumption DEF IInv, TypeOK, SerialsFresh, Serials, Send, NextSerial
  <2>5. \A s \in Serials : table'[s] = IF s = lastId' THEN u ELSE table[s]
    BY <2>4 DEF IInv, TypeOK, Send, NextSerial
  <2>6. \A v \in Token : reqs'[v] = "sms" <=> \E s \in Serials : table'[s] = v
    <3> SUFFICES ASSUME NEW v \in Token
                 PROVE  reqs'[v] = "sms" <=> \E s \in Serials : table'[s] = v
      OBVIOUS
    <3>1. CASE v = u
      BY <2>3, <2>4, <2>5, <3>1
    <3>2. CASE v # u
      <4>1. \A s \in Serials : table'[s] = v <=> table[s] = v
        BY <2>4, <2>5, <3>2, ConstantAssumption DEF ConstantAssumption
      <4>2. QED BY <2>3, <3>2, <4>1 DEF IInv, BlocksSound
    <3>3. QED BY <3>1, <3>2
  <2>7. \A s, t \in Serials : table'[s] \in Token /\ table'[s] = table'[t] => s = t
    BY <2>1, <2>5 DEF IInv, BlocksSound
  <2>8. radio' = {v \in Token : reqs'[v] = "dial"}
    BY <2>1, <2>3 DEF IInv, BlocksSound, Send
  <2>9. callRefs' = callRefs /\ radio' = radio
    BY DEF Send, NewBlock
  <2>10. QED BY <2>1, <2>3, <2>6, <2>7, <2>8, <2>9, ConstantAssumption
  DEF IInv, BlocksSound
<1>3. SerialsFresh'
  BY DEF IInv, TypeOK, SerialsFresh, Send, NewBlock, NextSerial, Serials
<1>4. InsideSound'
  BY DEF IInv, TypeOK, BlocksSound, InsideSound, Send, NewBlock, NextSerial, Serials, Held
<1>5. QED BY <1>1, <1>2, <1>3, <1>4 DEF IInv

LEMMA SendRefusedStep ==
  ASSUME IInv, NEW u \in Token, SendRefused(u)
  PROVE  IInv'
<1>1. TypeOK'
  BY ConstantAssumption
  DEF IInv, TypeOK, SendRefused, RefusedBlock, NextSerial, Serials
<1>2. BlocksSound'
  BY DEF IInv, TypeOK, BlocksSound, SerialsFresh, SendRefused, RefusedBlock, NextSerial, Held
<1>3. SerialsFresh'
  BY DEF IInv, TypeOK, SerialsFresh, SendRefused, RefusedBlock, NextSerial, Serials
<1>4. InsideSound'
  BY ConstantAssumption
  DEF IInv, TypeOK, BlocksSound, SerialsFresh, InsideSound, SendRefused, RefusedBlock, NextSerial, Serials, Idle, Held
<1>5. QED BY <1>1, <1>2, <1>3, <1>4 DEF IInv

LEMMA CancelDialStep ==
  ASSUME IInv, CancelDial
  PROVE  IInv'
<1>1. CASE table[1] \in Token
  <2> DEFINE u == table[1]
  <2>0. 1 \in Serials
    BY ConstantAssumption DEF IInv, CancelDial, Mapped, DialId
  <2>1. /\ UnrefBlock(u) /\ UNCHANGED radio
        /\ table' = [table EXCEPT ![1] = Vacant]
    BY <1>1 DEF CancelDial, Mapped, DialId
  <2>2. /\ reqs' \in [Token -> {"none", "dial", "sms"}]
        /\ count' \in [Token -> 0 .. 1]
        /\ calls' \in [Token -> [complete : 0 .. 1, destroy : 0 .. 1]]
        /\ callRefs' = callRefs
        /\ calls' = [calls EXCEPT ![u].destroy = 1]
        /\ table' \in [Serials -> Token \cup {NoToken, Vacant}]
        /\ BlocksSound'
    BY <1>1, <2>0, <2>1, RemoveEntry
  <2>3. TypeOK'
    BY <2>2, ConstantAssumption DEF IInv, TypeOK, CancelDial, Mapped, DialId
  <2>4. SerialsFresh'
    BY <2>0, <2>1 DEF IInv, SerialsFresh, CancelDial, Mapped, DialId
  <2>5. InsideSound'
    BY <1>1, <2>0, <2>1, <2>2, ConstantAssumption
    DEF IInv, BlocksSound, InsideSound, CancelDial, Mapped, DialId
  <2>6. QED BY <2>2, <2>3, <2>4, <2>5 DEF IInv
<1>2. CASE table[1] \notin Token
  <2>1. TypeOK'
    BY ConstantAssumption, <1>2 DEF IInv, TypeOK, CancelDial, Mapped, DialId
  <2>2. BlocksSound'
    BY ConstantAssumption, <1>2
    DEF IInv, BlocksSound, CancelDial, Mapped, DialId, Held
  <2>3. SerialsFresh'
    BY <1>2 DEF IInv, SerialsFresh, CancelDial, Mapped, DialId
  <2>4. InsideSound'
    BY ConstantAssumption, <1>2
    DEF IInv, InsideSound, CancelDial, Mapped, DialId, Held
  <2>5. QED BY <2>1, <2>2, <2>3, <2>4 DEF IInv
<1>3. QED BY <1>1, <1>2

LEMMA SmsCompleteStep ==
  ASSUME IInv, NEW s \in Serials, SmsComplete(s)
  PROVE  IInv'
<1>1. TypeOK'
  BY DEF IInv, TypeOK, BlocksSound, InsideSound, SmsComplete, Serials, Idle
<1>2. BlocksSound'
  BY DEF IInv, BlocksSound, SmsComplete, Held
<1>3. SerialsFresh'
  BY DEF IInv, SerialsFresh, SmsComplete
<1>4. InsideSound'
  BY ConstantAssumption
  DEF IInv, TypeOK, SerialsFresh, InsideSound, SmsComplete, Serials, Idle, Held
<1>5. QED BY <1>1, <1>2, <1>3, <1>4 DEF IInv

LEMMA SmsDestroyStep ==
  ASSUME IInv, SmsDestroy
  PROVE  IInv'
<1>1. CASE table[inside.serial] \in Token
  <2> DEFINE u == table[inside.serial]
  <2>0. inside.serial \in Serials
    BY ConstantAssumption DEF IInv, TypeOK, Serials, SmsDestroy
  <2>1. /\ UnrefBlock(u) /\ UNCHANGED radio
        /\ table' = [table EXCEPT ![inside.serial] = Vacant]
    BY <1>1 DEF SmsDestroy
  <2>2. /\ reqs' \in [Token -> {"none", "dial", "sms"}]
        /\ count' \in [Token -> 0 .. 1]
        /\ calls' \in [Token -> [complete : 0 .. 1, destroy : 0 .. 1]]
        /\ callRefs' = callRefs
        /\ calls' = [calls EXCEPT ![u].destroy = 1]
        /\ table' \in [Serials -> Token \cup {NoToken, Vacant}]
        /\ BlocksSound'
    BY <1>1, <2>0, <2>1, RemoveEntry
  <2>3. TypeOK'
    BY <2>2, ConstantAssumption DEF IInv, TypeOK, SmsDestroy, Idle
  <2>4. SerialsFresh'
    BY <2>0, <2>1 DEF IInv, SerialsFresh, SmsDestroy
  <2>5. InsideSound'
    BY <1>1, <2>0, <2>1, <2>2, ConstantAssumption
    DEF IInv, TypeOK, BlocksSound, InsideSound, Serials, SmsDestroy, Held, Idle
  <2>6. QED BY <2>2, <2>3, <2>4, <2>5, ConstantAssumption DEF IInv
<1>2. CASE table[inside.serial] \notin Token
  <2>1. TypeOK'
    BY ConstantAssumption, <1>2
    DEF IInv, TypeOK, BlocksSound, SerialsFresh, InsideSound, SmsDestroy, Serials, Idle, Held
  <2>2. BlocksSound'
    BY ConstantAssumption, <1>2
    DEF IInv, TypeOK, BlocksSound, SmsDestroy, Serials, Idle, Held
  <2>3. SerialsFresh'
    BY <1>2 DEF IInv, SerialsFresh, SmsDestroy
  <2>4. InsideSound'
    BY ConstantAssumption, <1>2
    DEF IInv, TypeOK, InsideSound, SmsDestroy, Idle, Held
  <2>5. QED BY <2>1, <2>2, <2>3, <2>4 DEF IInv
<1>3. QED BY <1>1, <1>2

LEMMA HangupStep ==
  ASSUME IInv, Hangup
  PROVE  IInv'
<1>1. TypeOK'
  BY ConstantAssumption DEF IInv, TypeOK, Hangup, NextSerial, Serials
<1>2. BlocksSound'
  BY ConstantAssumption
  DEF IInv, TypeOK, BlocksSound, SerialsFresh, Hangup, NextSerial, Held
<1>3. SerialsFresh'
  BY DEF IInv, TypeOK, SerialsFresh, Hangup, NextSerial, Serials
<1>4. InsideSound'
  BY DEF IInv, TypeOK, InsideSound, Hangup, NextSerial, Held
<1>5. QED BY <1>1, <1>2, <1>3, <1>4 DEF IInv

LEMMA HangupAnsweredStep ==
  ASSUME IInv, NEW s \in Serials, HangupAnswered(s)
  PROVE  IInv'
<1>1. TypeOK'
  BY DEF IInv, TypeOK, HangupAnswered
<1>2. BlocksSound'
  BY ConstantAssumption DEF IInv, BlocksSound, HangupAnswered, Held
<1>3. SerialsFresh'
  BY DEF IInv, SerialsFresh, HangupAnswered
<1>4. InsideSound'
  BY ConstantAssumption DEF IInv, InsideSound, HangupAnswered, Held
<1>5. QED BY <1>1, <1>2, <1>3, <1>4 DEF IInv

LEMMA InitIInv == Init => IInv
<1> SUFFICES ASSUME Init PROVE IInv
  OBVIOUS
<1>1. TypeOK
  <2>1. calls \in [Token -> [complete : 0 .. 1, destroy : 0 .. 1]]
    BY DEF Init
  <2>2. table \in [Serials -> Token \cup {NoToken, Vacant}]
    BY DEF Init
  <2>3. reqs \in [Token -> {"none", "dial", "sms"}] /\ count \in [Token -> 0 .. 1]
    BY DEF Init
  <2>4. inside \in [ud : Token \cup {NoToken}, serial : 0 .. MaxSerial]
    BY ConstantAssumption DEF Init, Idle
  <2>5. callRefs \in Nat \ {0} /\ radio \subseteq Token
    BY DEF Init
  <2>6. lastId \in 0 .. MaxSerial
    BY ConstantAssumption DEF Init
  <2>7. broken \in BOOLEAN
    BY DEF Init
  <2>8. QED BY <2>1, <2>2, <2>3, <2>4, <2>5, <2>6, <2>7 DEF TypeOK
<1>2. BlocksSound
  <2>1. radio = {} /\ callRefs = 1
    BY DEF Init
  <2>2. Cardinality(radio) = 0
    BY <2>1, FS_EmptySet
  <2>3. QED BY <2>1, <2>2, ConstantAssumption DEF Init, BlocksSound, Held
<1>3. SerialsFresh
  BY DEF Init, SerialsFresh
<1>4. InsideSound
  BY ConstantAssumption DEF Init, InsideSound, Idle
<1>5. QED BY <1>1, <1>2, <1>3, <1>4 DEF IInv

LEMMA NextIInv == IInv /\ [Next]_vars => IInv'
<1> SUFFICES ASSUME IInv, [Next]_vars PROVE IInv'
  OBVIOUS
<1>1. ASSUME NEW u \in Token,
             Dial(u) \/ DialRefused(u) \/ DialComplete(u) \/ DialDestroy(u)
      PROVE  IInv'
  BY <1>1, DialStep, DialRefusedStep, DialCompleteStep, DialDestroyStep
<1>2. ASSUME NEW u \in Token, Send(u) \/ SendRefused(u)
      PROVE  IInv'
  BY <1>2, SendStep, SendRefusedStep
<1>3. CASE CancelDial
  BY <1>3, CancelDialStep
<1>4. ASSUME NEW s \in Serials, SmsComplete(s) \/ HangupAnswered(s)
      PROVE  IInv'
  BY <1>4, SmsCompleteStep, HangupAnsweredStep
<1>5. CASE SmsDestroy
  BY <1>5, SmsDestroyStep
<1>6. CASE Hangup
  BY <1>6, HangupStep
<1>7. CASE UNCHANGED vars
  BY <1>7 DEF vars, IInv, TypeOK, BlocksSound, SerialsFresh, InsideSound, Held
<1>8. QED
  BY <1>1, <1>2, <1>3, <1>4, <1>5, <1>6, <1>7 DEF Next

LEMMA Invariance == Spec => []IInv
BY InitIInv, NextIInv, PTL DEF Spec

(* Every callback that is still to come finds its block, in spite of       *)
(* cancels that hit the request of another and of calls from within        *)
(* complete(): mtk_ims_call_result_request_unref and its twin for SMS.     *)
THEOREM BlocksSoundness == Spec => []BlocksSound
<1>1. IInv => BlocksSound
  BY DEF IInv
<1>2. QED BY <1>1, Invariance, PTL

(***************************************************************************)
(* What a wrong cancel may cost.                                           *)
(***************************************************************************)
Lost(u) ==
  calls[u] = [complete |-> 0, destroy |-> 0] /\ calls'[u] = [complete |-> 0, destroy |-> 1]

LEMMA LostStep ==
  ASSUME IInv, [Next]_vars, NEW u \in Token, Lost(u)
  PROVE  table[1] = u /\ radio # {}
<1>1. ASSUME NEW v \in Token, Dial(v) \/ DialRefused(v) \/ Send(v) \/ SendRefused(v)
      PROVE  FALSE
  BY <1>1
  DEF Lost, Held, Dial, DialRefused, Send, SendRefused, NewBlock, RefusedBlock,
              IInv, TypeOK
<1>2. ASSUME NEW v \in Token, DialComplete(v)
      PROVE  FALSE
  BY <1>2 DEF Lost, DialComplete, IInv
<1>3. ASSUME NEW v \in Token, DialDestroy(v)
      PROVE  FALSE
  <2>1. v \in radio /\ reqs[v] # "none" /\ calls[v].complete = 1
    BY <1>3, ConstantAssumption
    DEF DialDestroy, IInv, BlocksSound, InsideSound
  <2>2. calls' = [calls EXCEPT ![v].destroy = 1]
    BY <1>3, <2>1, UnrefBlockEffect DEF DialDestroy, IInv
  <2>3. QED BY <2>1, <2>2 DEF Lost, IInv
<1>4. CASE CancelDial
  <2>1. radio # {}
    BY <1>4 DEF CancelDial, IInv, BlocksSound
  <2>2. CASE table[1] \in Token
    BY <1>4, <2>1, <2>2
    DEF CancelDial, Mapped, DialId, UnrefBlock, Lost, IInv, TypeOK
  <2>3. CASE table[1] \notin Token
    BY <1>4, <2>3 DEF CancelDial, Mapped, DialId, Lost
  <2>4. QED BY <2>2, <2>3
<1>5. ASSUME NEW s \in Serials, SmsComplete(s) \/ HangupAnswered(s)
      PROVE  FALSE
  BY <1>5 DEF Lost, SmsComplete, HangupAnswered, IInv, TypeOK
<1>6. ASSUME SmsDestroy
      PROVE  FALSE
  <2> DEFINE v == table[inside.serial]
  <2>1. v \in Token /\ UnrefBlock(v)
    BY <1>6 DEF SmsDestroy, Lost
  <2>2. inside.serial \in Serials
    BY <1>6, ConstantAssumption DEF SmsDestroy, IInv, TypeOK, Serials
  <2>3. Held(v) /\ calls[v].complete = 1
    BY <1>6, <2>1, <2>2 DEF SmsDestroy, IInv, BlocksSound, InsideSound
  <2>4. QED BY <2>1, <2>3 DEF UnrefBlock, Lost, IInv
<1>7. CASE Hangup
  BY <1>7 DEF Hangup, Lost
<1>8. CASE UNCHANGED vars
  BY <1>8 DEF vars, Lost
<1>9. QED
  BY <1>1, <1>2, <1>3, <1>4, <1>5, <1>6, <1>7, <1>8 DEF Next

(* An SMS is only released without its outcome by the cancel of a dial,    *)
(* and only the one with serial 1: mtk_ims_call_dial returns 1 as its id,  *)
(* mtk_ims_call_cancel hands that to the MtkRadioExt.                      *)
THEOREM OnlyFirstIsLost == Spec => OnlyFirstRequestLost
<1>1. IInv /\ [Next]_vars => [\A u \in Token : Lost(u) => table[1] = u /\ radio # {}]_vars
  BY LostStep
<1>2. [\A u \in Token : Lost(u) => table[1] = u /\ radio # {}]_vars
        => [\A u \in Token : calls[u] = [complete |-> 0, destroy |-> 0]
                              /\ calls'[u] = [complete |-> 0, destroy |-> 1] =>
              table[1] = u /\ radio # {}]_vars
  BY DEF Lost
<1>3. QED BY <1>1, <1>2, Invariance, PTL DEF Spec, OnlyFirstRequestLost

(* Every variable of ImsRequests keeps its type: no block is unreferenced  *)
(* below 0 (mtk_ims_call_result_request_unref) or destroyed twice.         *)
THEOREM TypeCorrect == Spec => []TypeOK
<1>1. IInv => TypeOK
  BY DEF IInv
<1>2. QED BY <1>1, Invariance, PTL

(***************************************************************************)
(* The contract that ofono gets.                                           *)
(***************************************************************************)
CallStep(c, d) ==
  \/ d = c
  \/ c.destroy = 1 /\ d.complete = 0                                     \* submitted
  \/ c.destroy = 0 /\ c.complete = 0 /\ d.complete = 1 /\ d.destroy = 0  \* completed
  \/ c.destroy = 0 /\ d.complete = c.complete /\ d.destroy = 1           \* destroyed

LEMMA CallsStep ==
  ASSUME IInv, [Next]_vars, NEW u \in Token
  PROVE  CallStep(calls[u], calls'[u])
<1>1. ASSUME NEW v \in Token, Dial(v) \/ DialRefused(v) \/ Send(v) \/ SendRefused(v)
      PROVE  CallStep(calls[u], calls'[u])
  <2>1. calls[v].destroy = 1
    BY <1>1 DEF Held, Dial, DialRefused, Send, SendRefused, IInv, TypeOK
  <2>2. \/ calls' = [calls EXCEPT ![v] = [complete |-> 0, destroy |-> 0]]
        \/ calls' = [calls EXCEPT ![v] = [complete |-> 0, destroy |-> 1]]
    BY <1>1 DEF Dial, DialRefused, Send, SendRefused, NewBlock, RefusedBlock
  <2>3. QED BY <2>1, <2>2 DEF CallStep, IInv, TypeOK
<1>2. ASSUME NEW v \in Token, inside = Idle, Held(v),
             calls' = [calls EXCEPT ![v].complete = @ + 1]
      PROVE  CallStep(calls[u], calls'[u])
  <2>1. calls[v].complete = 0 /\ calls[v].destroy = 0
    BY <1>2, ConstantAssumption DEF Idle, Held, IInv, TypeOK, InsideSound
  <2>2. QED BY <1>2, <2>1 DEF CallStep, IInv
<1>3. ASSUME NEW v \in Token, Held(v), UnrefBlock(v)
      PROVE  CallStep(calls[u], calls'[u])
  BY <1>3 DEF UnrefBlock, Held, CallStep, IInv
<1>4. ASSUME NEW v \in Token, DialComplete(v)
      PROVE  CallStep(calls[u], calls'[u])
  <2>1. Held(v)
    BY <1>4 DEF DialComplete, IInv, BlocksSound
  <2>2. QED BY <1>2, <1>4, <2>1 DEF DialComplete
<1>5. ASSUME NEW v \in Token, DialDestroy(v)
      PROVE  CallStep(calls[u], calls'[u])
  <2>1. Held(v)
    BY <1>5, ConstantAssumption
    DEF DialDestroy, IInv, BlocksSound, InsideSound
  <2>2. QED BY <1>3, <1>5, <2>1 DEF DialDestroy
<1>6. CASE CancelDial
  <2>1. 1 \in Serials /\ table[1] \in Token => Held(table[1])
    BY DEF IInv, BlocksSound
  <2>2. CASE 1 \in Serials /\ table[1] \in Token
    BY <1>3, <1>6, <2>1, <2>2 DEF CancelDial, Mapped, DialId
  <2>3. CASE ~(1 \in Serials /\ table[1] \in Token)
    BY <1>6, <2>3 DEF CancelDial, Mapped, DialId, CallStep
  <2>4. QED BY <2>2, <2>3
<1>7. ASSUME NEW s \in Serials, SmsComplete(s)
      PROVE  CallStep(calls[u], calls'[u])
  <2>1. table[s] \in Token /\ Held(table[s])
    BY <1>7 DEF SmsComplete, IInv, BlocksSound
  <2>2. QED BY <1>2, <1>7, <2>1 DEF SmsComplete
<1>8. CASE SmsDestroy
  <2> DEFINE v == table[inside.serial]
  <2>1. inside.serial \in Serials
    BY <1>8, ConstantAssumption DEF SmsDestroy, IInv, TypeOK, Serials
  <2>2. CASE v \in Token
    <3>1. Held(v)
      BY <2>1, <2>2 DEF IInv, BlocksSound
    <3>2. QED BY <1>3, <1>8, <2>2, <3>1 DEF SmsDestroy
  <2>3. CASE v \notin Token
    BY <1>8, <2>3 DEF SmsDestroy, CallStep
  <2>4. QED BY <2>2, <2>3
<1>9. ASSUME UNCHANGED calls
      PROVE  CallStep(calls[u], calls'[u])
  BY <1>9 DEF CallStep
<1>10. QED
  BY <1>1, <1>4, <1>5, <1>6, <1>7, <1>8, <1>9 DEF Next, Hangup, HangupAnswered, vars

(* ofono gets from dial and send (mtk_ims_call_dial, mtk_ims_sms_send) the *)
(* contract of the request layer, up to the second unreference of a block  *)
(* that was refused.                                                       *)
THEOREM ImplementsContract == Spec => ContractSpec
<1> DEFINE ph == [u \in Token |-> PhaseOf(calls[u])]
<1>1. Init => Contract!Init
  BY DEF Init, Contract!Init, PhaseOf
<1>2. ASSUME IInv, IInv', [Next]_vars
      PROVE  [Contract!Next]_ph
  <2>1. \A u \in Token : /\ calls[u] \in [complete : 0 .. 1, destroy : 0 .. 1]
                         /\ calls'[u] \in [complete : 0 .. 1, destroy : 0 .. 1]
                         /\ CallStep(calls[u], calls'[u])
    BY <1>2, CallsStep DEF IInv, TypeOK
  <2>2. \A c \in [complete : 0 .. 1, destroy : 0 .. 1] :
          PhaseOf(c) = IF c.destroy = 0
                       THEN IF c.complete = 0 THEN "pending" ELSE "completed"
                       ELSE IF c.complete = 0 THEN "released" ELSE "done"
    BY DEF PhaseOf
  <2>3. \A u \in Token : ph[u] = PhaseOf(calls[u]) /\ ph'[u] = PhaseOf(calls'[u])
    OBVIOUS
  <2>4. ph' \in [Token -> Contract!Phase]
    BY <2>1, <2>2 DEF Contract!Phase
  <2>5. ASSUME NEW u \in Token PROVE ph'[u] = ph[u] \/ Contract!Step(ph[u], ph'[u])
    BY <2>1, <2>2, <2>3 DEF CallStep, Contract!Step, Contract!Free
  <2>6. QED BY <2>4, <2>5 DEF Contract!Next
<1>3. QED BY <1>1, <1>2, NextIInv, Invariance, PTL
DEF Spec, ContractSpec, Contract!Spec

(***************************************************************************)
(* What no cancel costs.                                                   *)
(***************************************************************************)
Ended(u) == reqs[u] = "dial" /\ reqs'[u] # "dial"

LEMMA EndedStep ==
  ASSUME IInv, [Next]_vars, NEW u \in Token, Ended(u)
  PROVE  calls[u].complete = 1
<1>1. ASSUME NEW v \in Token, Dial(v) \/ Send(v)
      PROVE  FALSE
  <2>1. reqs[v] = "none"
    BY <1>1 DEF Dial, Send, IInv, BlocksSound
  <2>2. reqs' = [reqs EXCEPT ![v] = "dial"] \/ reqs' = [reqs EXCEPT ![v] = "sms"]
    BY <1>1 DEF Dial, Send, NewBlock
  <2>3. QED BY <2>1, <2>2 DEF Ended, IInv, TypeOK
<1>2. ASSUME NEW v \in Token, DialDestroy(v)
      PROVE  calls[u].complete = 1
  <2>1. v \in radio /\ reqs[v] = "dial" /\ calls[v].complete = 1
    BY <1>2, ConstantAssumption DEF DialDestroy, IInv, BlocksSound, InsideSound
  <2>2. reqs' = [reqs EXCEPT ![v] = "none"]
    BY <1>2 DEF DialDestroy, UnrefBlock
  <2>3. QED BY <2>1, <2>2 DEF Ended, IInv, TypeOK
<1>3. ASSUME NEW s \in Serials, table[s] \in Token, UnrefBlock(table[s])
      PROVE  FALSE
  <2>1. reqs[table[s]] = "sms"
    BY <1>3 DEF IInv, BlocksSound
  <2>2. reqs' = [reqs EXCEPT ![table[s]] = "none"]
    BY <1>3 DEF UnrefBlock
  <2>3. QED BY <1>3, <2>1, <2>2 DEF Ended, IInv, TypeOK
<1>4. ASSUME CancelDial
      PROVE  FALSE
  <2>1. 1 \in Serials
    BY <1>4 DEF CancelDial, Mapped, DialId
  <2>2. CASE table[1] \in Token
    BY <1>3, <1>4, <2>1, <2>2 DEF CancelDial, Mapped, DialId
  <2>3. CASE table[1] \notin Token
    BY <1>4, <2>3 DEF CancelDial, Mapped, DialId, Ended
  <2>4. QED BY <2>2, <2>3
<1>5. ASSUME SmsDestroy
      PROVE  FALSE
  <2>1. inside.serial \in Serials
    BY <1>5, ConstantAssumption DEF SmsDestroy, IInv, TypeOK, Serials
  <2>2. CASE table[inside.serial] \in Token
    BY <1>3, <1>5, <2>1, <2>2 DEF SmsDestroy
  <2>3. CASE table[inside.serial] \notin Token
    BY <1>5, <2>3 DEF SmsDestroy, Ended
  <2>4. QED BY <2>2, <2>3
<1>6. ASSUME UNCHANGED reqs
      PROVE  FALSE
  BY <1>6 DEF Ended
<1>7. QED
  BY <1>1, <1>2, <1>4, <1>5, <1>6
  DEF Next, DialRefused, SendRefused, RefusedBlock, DialComplete, SmsComplete,
      Hangup, HangupAnswered, vars

(* The block of a dial only goes away once ofono was told how the dial     *)
(* ended, whatever is cancelled meanwhile, in contrast to that of an SMS:  *)
(* no cancel ever finds the request it is meant for (mtk_ims_call_cancel). *)
THEOREM DialsAlwaysComplete ==
  Spec => [][\A u \in Token :
               reqs[u] = "dial" /\ reqs'[u] # "dial" => calls[u].complete = 1]_vars
<1>1. IInv /\ [Next]_vars => [\A u \in Token : Ended(u) => calls[u].complete = 1]_vars
  BY EndedStep
<1>2. [\A u \in Token : Ended(u) => calls[u].complete = 1]_vars
        => [\A u \in Token :
              reqs[u] = "dial" /\ reqs'[u] # "dial" => calls[u].complete = 1]_vars
  BY DEF Ended
<1>3. QED BY <1>1, <1>2, Invariance, PTL DEF Spec
=============================================================================
