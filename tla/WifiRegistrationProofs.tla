----------------------- MODULE WifiRegistrationProofs -----------------------
(***************************************************************************)
(* Theorems about WifiRegistration, for any user_data, proxies,            *)
(* configurations, addresses and bounds.  Its steps are steps of NmDbus or *)
(* leave the monitor alone, so the invariant of NmDbus holds, too.         *)
(***************************************************************************)
EXTENDS WifiRegistration, NmDbusProofs, SequenceTheorems

(***************************************************************************)
(* The inductive invariant.                                                *)
(***************************************************************************)
(* NMInfo lives as long as somebody keeps the MtkIms. *)
FreedWithIms == info.freed <=> ~Kept(slotIms, pending)

IsAddress(i) == sent[i].kind = "address"

(* The last address handed over, unless refused, is the one in use, or the *)
(* last one sent.                                                          *)
LastHandedOver ==
  ~refused =>
    \/ used.address = modem /\ \A i \in 1 .. Len(sent) : ~IsAddress(i)
    \/ \E i \in 1 .. Len(sent) :
         /\ IsAddress(i) /\ sent[i].value = modem
         /\ \A j \in 1 .. Len(sent) : j > i => ~IsAddress(j)

(* Before the first registration there is nothing to be answered. *)
NothingSent ==
  inits = 0 => sent = <<>> /\ answers = {} /\ used.address = {} /\ modem = {}

(* The address that the handler of a signal reads. *)
Told(i) == IF signals[i].obj = "device" THEN nm.address[signals[i].value] ELSE signals[i].value

(* After one nm_initialize every address that is used, sent or about to be *)
(* read is one that the device had since then.                             *)
Recent ==
  inits = 1 =>
    /\ Current \in since
    /\ used.address \subseteq since
    /\ \A i \in 1 .. Len(sent) : IsAddress(i) => sent[i].value \subseteq since
    /\ \A i \in 1 .. Len(signals) : Effective(i) => Told(i) \in since

(* An address that was not refused goes before the only setImsEnabled      *)
(* there was so far.                                                       *)
AddressFirst ==
  inits = 1 /\ asked.sent =>
    /\ answers # {} => used.address # {}
    /\ \A i \in 1 .. Len(sent) :
         sent[i].kind = "ims" =>
           used.address # {} \/ \E j \in 1 .. Len(sent) : j < i /\ IsAddress(j)

WifiInv == IInv /\ WifiTypeOK /\ FreedWithIms /\ LastHandedOver /\ NothingSent /\ Recent /\ AddressFirst

(***************************************************************************)
(* The monitor within it.                                                  *)
(***************************************************************************)
LEMMA MonitorStep ==
  ASSUME [WifiNext]_allVars PROVE [Next]_vars
<1>1. CASE \E value \in BOOLEAN, u \in Token : SetRegistration(value, u)
  BY <1>1 DEF SetRegistration, Next
<1>2. CASE SlotTerminate
  BY <1>2 DEF SlotTerminate, Release, Next, vars, nmVars
<1>3. CASE \E u \in Token : Complete(u)
  BY <1>3 DEF Complete, Release, Next, vars, nmVars
<1>4. CASE Monitor \/ OtherSignal
  BY <1>4 DEF Monitor, OtherSignal, Next
<1>5. CASE NetworkChanges
  BY <1>5 DEF NetworkChanges, Next
<1>6. CASE ModemTakes \/ UNCHANGED allVars
  BY <1>6 DEF ModemTakes, allVars, nmVars, vars
<1> QED BY <1>1, <1>2, <1>3, <1>4, <1>5, <1>6 DEF WifiNext

LEMMA MonitorInv ==
  ASSUME IInv, [WifiNext]_allVars PROVE IInv'
BY MonitorStep, TypeStep, SignalsStep, PointersStep DEF IInv

LEMMA ConfigTyped ==
  ASSUME TypeOK
  PROVE  /\ inits \in Nat
         /\ \A path \in Path : nm.address[path] \in Address
         /\ nm.path \in Path /\ Current \in Address
BY DEF TypeOK, Current

(* Without nm_initialize there are no proxies. *)
LEMMA NoProxies ==
  ASSUME IInv, inits = 0
  PROVE  /\ info.config = NoProxy /\ Devices = {} /\ Configs = {}
         /\ \A i \in 1 .. Len(signals) : ~Effective(i)
<1>1. Cardinality(Devices) <= 0 /\ Cardinality(Configs) <= 0
  BY DEF IInv, PointersInv, LeftBehind
<1>2. Devices = {} /\ Configs = {}
  BY <1>1, KindsFinite, FS_EmptySet
<1>3. info.config = NoProxy
  BY <1>2 DEF IInv, PointersInv
<1> QED BY <1>2, <1>3, EffectiveSeen DEF IInv, SignalsInv

(***************************************************************************)
(* What the callback is given, and what goes out of it.                    *)
(***************************************************************************)
(* The callback was given an address or was not, and the address went or   *)
(* was refused.                                                            *)
HandsOver(given, went) ==
  /\ went \in BOOLEAN
  /\ IF given THEN modem' \in OneAddress /\ refused' = ~went
     ELSE ~went /\ UNCHANGED <<modem, refused>>

(* It is the only address among the requests that are added. *)
Carries(went, requests) ==
  /\ \A k \in 1 .. Len(requests) :
       requests[k].kind = "address" => went /\ requests[k].value = modem'
  /\ went => \E k \in 1 .. Len(requests) :
               /\ requests[k].kind = "address" /\ requests[k].value = modem'
               /\ \A j \in 1 .. Len(requests) : requests[j].kind = "address" => j = k

LEMMA InitializeGives ==
  ASSUME TypeOK, Initialize
  PROVE  IF info'.config # NoProxy THEN modem' = {Current} /\ info'.bus ELSE modem' = modem
<1>1. CASE \E d \in Proxy :
             SetupIp4ConfigProxy([proxies EXCEPT ![d] = DeviceProxy], nm.path, 1, d)
  <2>1. PICK d \in Proxy :
          SetupIp4ConfigProxy([proxies EXCEPT ![d] = DeviceProxy], nm.path, 1, d)
    BY <1>1
  <2>4. \/ \E q \in Proxy : /\ info' = [info EXCEPT !.iface = d, !.config = q, !.bus = TRUE]
                             /\ modem' = {nm.address[nm.path]}
        \/ /\ info' = [info EXCEPT !.iface = d, !.config = NoProxy, !.bus = TRUE]
           /\ modem' = modem
    <3>1. ~(1 > 1)
      OBVIOUS
    <3> QED BY <2>1, <3>1, Zenon DEF SetupIp4ConfigProxy
  <2>2. CASE \E q \in Proxy : /\ info' = [info EXCEPT !.iface = d, !.config = q, !.bus = TRUE]
                             /\ modem' = {nm.address[nm.path]}
    BY <2>2, ConstantAssumption DEF TypeOK, Current
  <2>3. CASE /\ info' = [info EXCEPT !.iface = d, !.config = NoProxy, !.bus = TRUE]
             /\ modem' = modem
    BY <2>3 DEF TypeOK
  <2> QED BY <2>2, <2>3, <2>4
<1>2. CASE \E bus \in BOOLEAN :
             /\ info' = [info EXCEPT !.iface = NoProxy, !.config = NoProxy, !.bus = bus]
             /\ modem' = modem
  BY <1>2 DEF TypeOK
<1>3. \/ \E d \in Proxy :
             SetupIp4ConfigProxy([proxies EXCEPT ![d] = DeviceProxy], nm.path, 1, d)
      \/ \E bus \in BOOLEAN :
           /\ info' = [info EXCEPT !.iface = NoProxy, !.config = NoProxy, !.bus = bus]
           /\ modem' = modem
  BY Zenon DEF Initialize
<1> QED BY <1>1, <1>2, <1>3

LEMMA DeviceSignalGives ==
  ASSUME TypeOK, HandleDeviceSignal,
         NEW given \in Given(Cardinality(Head(signals).to), Head(signals).value)
  PROVE  /\ given \in BOOLEAN
         /\ IF given THEN modem' = {nm.address[Head(signals).value]} ELSE modem' = modem
<1> DEFINE n == Cardinality(Head(signals).to)
           path == Head(signals).value
<1>1. SetupIp4ConfigProxy(Without(Replaced), path, n, info.iface)
  BY DEF HandleDeviceSignal
<1>2. given \in Given(n, path)
  OBVIOUS
<1> HIDE DEF n, path
<1>3. given \in BOOLEAN
  BY <1>2 DEF Given
<1>4. \/ info'.config # NoProxy /\ modem' = {nm.address[path]}
      \/ info'.config = NoProxy /\ modem' \in {modem, {nm.address[path]}}
  BY <1>1, ConstantAssumption DEF SetupIp4ConfigProxy, TypeOK
<1>5. CASE info'.config # NoProxy \/ modem' # modem
  BY <1>2, <1>4, <1>5 DEF Given, path
<1>6. CASE info'.config = NoProxy /\ modem' = modem
  BY <1>2, <1>3, <1>6 DEF Given, path
<1> QED BY <1>3, <1>5, <1>6

(* The handlers of signals, in the same words. *)
LEMMA MonitorGives ==
  ASSUME IInv, NEW given,
         \/ /\ HandleDeviceSignal
            /\ given \in Given(Cardinality(Head(signals).to), Head(signals).value)
         \/ HandleConfigSignal /\ given
  PROVE  /\ 1 \in 1 .. Len(signals) /\ Effective(1)
         /\ \E ps : Taken(ps)
         /\ Told(1) \in Address
         /\ IF given THEN modem' = {Told(1)} ELSE modem' = modem
         /\ info'.freed = info.freed
         /\ UNCHANGED <<nm, inits, broken>>
<1> USE DEF IInv
<1>1. CASE HandleDeviceSignal /\ given \in Given(Cardinality(Head(signals).to), Head(signals).value)
  <2>1. /\ Taken(Replaced) /\ signals[1].obj = "device" /\ signals[1].to # {}
        /\ signals[1].value \in Path /\ info'.freed = info.freed
    BY <1>1, DeviceSignalEffect
  <2>2. 1 \in 1 .. Len(signals) /\ Head(signals) = signals[1]
    BY <2>1 DEF Taken
  <2>3. IF given THEN modem' = {nm.address[signals[1].value]} ELSE modem' = modem
    BY <1>1, <2>2, DeviceSignalGives
  <2>4. UNCHANGED <<nm, inits, broken>>
    BY <1>1 DEF HandleDeviceSignal
  <2> QED BY <2>1, <2>2, <2>3, <2>4, ConfigTyped DEF Effective, Told
<1>2. CASE HandleConfigSignal /\ given
  <2>1. /\ Taken({}) /\ signals[1].obj # "device" /\ signals[1].to # {}
        /\ signals[1].value \in Address /\ modem' = {signals[1].value}
    BY <1>2, ConfigSignalEffect DEF SignalsInv
  <2>2. 1 \in 1 .. Len(signals)
    BY <2>1 DEF Taken
  <2>3. UNCHANGED <<nm, inits, broken, info>>
    BY <1>2 DEF HandleConfigSignal
  <2> QED BY <1>2, <2>1, <2>2, <2>3 DEF Effective, Told
<1> QED BY <1>1, <1>2

(***************************************************************************)
(* The requests on their way.                                              *)
(***************************************************************************)
LEMMA Singleton ==
  ASSUME NEW x \in Request
  PROVE  <<x>> \in Seq(Request) /\ Len(<<x>>) = 1 /\ <<x>>[1] = x /\ <<x>> # <<>>
OBVIOUS

LEMMA SubmittedShape ==
  ASSUME NEW r \in Request, NEW requests \in Submitted(r)
  PROVE  /\ requests \in Seq(Request)
         /\ requests # <<>> => Len(requests) = 1
         /\ \A k \in 1 .. Len(requests) : k = 1 /\ requests[k] = r
<1>1. CASE requests = <<r>>
  <2>1. requests \in Seq(Request) /\ Len(requests) = 1 /\ requests[1] = r
    BY <1>1, Singleton
  <2>2. \A k \in 1 .. Len(requests) : k = 1
    BY <2>1
  <2> QED BY <2>1, <2>2
<1>2. CASE requests = <<>>
  <2>1. requests \in Seq(Request) /\ Len(requests) = 0
    BY <1>2
  <2>2. \A k \in 1 .. Len(requests) : FALSE
    BY <2>1
  <2> QED BY <1>2, <2>1, <2>2
<1> QED BY <1>1, <1>2 DEF Submitted

LEMMA AddressesCarry ==
  ASSUME NEW given \in BOOLEAN, IF given THEN modem' \in OneAddress ELSE modem' = modem,
         NEW addresses \in Addresses(given), refused' = IsRefused(given, addresses)
  PROVE  /\ addresses \in Seq(Request)
         /\ HandsOver(given, addresses # <<>>) /\ Carries(addresses # <<>>, addresses)
         /\ \A k \in 1 .. Len(addresses) : addresses[k].kind # "ims"
<1> DEFINE r == [kind |-> "address", value |-> modem']
<1>1. CASE given
  <2>1. r \in Request /\ r.kind = "address" /\ r.value = modem' /\ addresses \in Submitted(r)
    BY <1>1 DEF Request, Addresses
  <2> HIDE DEF r
  <2>2. /\ addresses \in Seq(Request)
        /\ addresses # <<>> => Len(addresses) = 1
        /\ \A k \in 1 .. Len(addresses) : k = 1 /\ addresses[k] = r
    BY <2>1, SubmittedShape
  <2>3. HandsOver(given, addresses # <<>>)
    BY <1>1 DEF HandsOver, IsRefused
  <2>4. CASE addresses # <<>>
    <3>1. 1 \in 1 .. Len(addresses)
      BY <2>2, <2>4
    <3> QED BY <2>1, <2>2, <2>3, <2>4, <3>1 DEF Carries
  <2>5. CASE addresses = <<>>
    <3>1. \A k \in 1 .. Len(addresses) : FALSE
      BY <2>5
    <3> QED BY <2>2, <2>3, <2>5, <3>1 DEF Carries
  <2> QED BY <2>4, <2>5
<1>2. CASE ~given
  <2>1. addresses = <<>>
    BY <1>2 DEF Addresses
  <2>2. addresses \in Seq(Request) /\ \A k \in 1 .. Len(addresses) : FALSE
    BY <2>1
  <2>3. HandsOver(given, addresses # <<>>)
    BY <1>2, <2>1 DEF HandsOver, IsRefused
  <2> QED BY <2>1, <2>2, <2>3 DEF Carries
<1> QED BY <1>1, <1>2

(* The requests of two sequences, one after the other. *)
Joined(s, t, both) ==
  /\ both \in Seq(Request)
  /\ Len(s) \in Nat /\ Len(t) \in Nat /\ Len(both) = Len(s) + Len(t)
  /\ \A i \in 1 .. Len(s) : i \in 1 .. Len(both) /\ both[i] = s[i]
  /\ \A i \in 1 .. Len(t) : Len(s) + i \in 1 .. Len(both) /\ both[Len(s) + i] = t[i]
  /\ \A i \in 1 .. Len(both) :
       i \in 1 .. Len(s) \/ \E k \in 1 .. Len(t) : i = Len(s) + k

LEMMA JoinedShape ==
  ASSUME NEW s \in Seq(Request), NEW t \in Seq(Request)
  PROVE  Joined(s, t, s \o t)
<1> DEFINE both == s \o t
<1>1. Len(s) \in Nat /\ Len(t) \in Nat
  OBVIOUS
<1>2. /\ both \in Seq(Request) /\ Len(both) = Len(s) + Len(t)
      /\ \A i \in 1 .. Len(s) + Len(t) : both[i] = IF i <= Len(s) THEN s[i] ELSE t[i - Len(s)]
  BY ConcatProperties
<1> HIDE DEF both
<1>3. \A i \in 1 .. Len(s) : i \in 1 .. Len(both) /\ both[i] = s[i]
  BY <1>1, <1>2
<1>4. ASSUME NEW i \in 1 .. Len(t)
      PROVE  Len(s) + i \in 1 .. Len(both) /\ both[Len(s) + i] = t[i]
  <2>1. /\ Len(s) + i \in 1 .. Len(s) + Len(t) /\ ~(Len(s) + i <= Len(s))
        /\ (Len(s) + i) - Len(s) = i
    BY <1>1
  <2> QED BY <1>2, <2>1
<1>5. ASSUME NEW i \in 1 .. Len(both), i \notin 1 .. Len(s)
      PROVE  \E k \in 1 .. Len(t) : i = Len(s) + k
  <2>1. i - Len(s) \in 1 .. Len(t) /\ i = Len(s) + (i - Len(s))
    BY <1>1, <1>2, <1>5
  <2> QED BY <2>1
<1>6. Joined(s, t, both)
  BY <1>1, <1>2, <1>3, <1>4, <1>5 DEF Joined
<1> QED BY <1>6 DEF both

LEMMA JoinedElsewhere ==
  ASSUME NEW s, NEW t, NEW both, Joined(s, t, both), NEW i \in 1 .. Len(both),
         i \notin 1 .. Len(s)
  PROVE  \E k \in 1 .. Len(t) : i = Len(s) + k /\ both[i] = t[k]
<1>1. PICK k \in 1 .. Len(t) : i = Len(s) + k
  BY DEF Joined
<1> QED BY <1>1 DEF Joined

(* Requests without addresses before or after change nothing. *)
LEMMA CarriesAfter ==
  ASSUME NEW s, NEW t, NEW both, Joined(s, t, both), NEW went, Carries(went, t),
         \A k \in 1 .. Len(s) : s[k].kind # "address"
  PROVE  Carries(went, both)
<1>1. ASSUME NEW i \in 1 .. Len(both), both[i].kind = "address"
      PROVE  \E k \in 1 .. Len(t) : i = Len(s) + k /\ t[k] = both[i]
  BY <1>1 DEF Joined
<1>2. ASSUME went
      PROVE  \E k \in 1 .. Len(both) :
               /\ both[k].kind = "address" /\ both[k].value = modem'
               /\ \A j \in 1 .. Len(both) : both[j].kind = "address" => j = k
  <2>1. PICK k \in 1 .. Len(t) :
          /\ t[k].kind = "address" /\ t[k].value = modem'
          /\ \A j \in 1 .. Len(t) : t[j].kind = "address" => j = k
    BY <1>2 DEF Carries
  <2>2. Len(s) + k \in 1 .. Len(both) /\ both[Len(s) + k] = t[k]
    BY DEF Joined
  <2>3. \A j \in 1 .. Len(both) : both[j].kind = "address" => j = Len(s) + k
    BY <1>1, <2>1
  <2> QED BY <2>1, <2>2, <2>3
<1> QED BY <1>1, <1>2 DEF Carries

LEMMA CarriesBefore ==
  ASSUME NEW s, NEW t, NEW both, Joined(s, t, both), NEW went, Carries(went, s),
         \A k \in 1 .. Len(t) : t[k].kind # "address"
  PROVE  Carries(went, both)
<1>1. ASSUME NEW i \in 1 .. Len(both), both[i].kind = "address"
      PROVE  i \in 1 .. Len(s) /\ s[i] = both[i]
  BY <1>1 DEF Joined
<1>2. ASSUME went
      PROVE  \E k \in 1 .. Len(both) :
               /\ both[k].kind = "address" /\ both[k].value = modem'
               /\ \A j \in 1 .. Len(both) : both[j].kind = "address" => j = k
  <2>1. PICK k \in 1 .. Len(s) :
          /\ s[k].kind = "address" /\ s[k].value = modem'
          /\ \A j \in 1 .. Len(s) : s[j].kind = "address" => j = k
    BY <1>2 DEF Carries
  <2>2. k \in 1 .. Len(both) /\ both[k] = s[k]
    BY DEF Joined
  <2>3. \A j \in 1 .. Len(both) : both[j].kind = "address" => j = k
    BY <1>1, <2>1
  <2> QED BY <2>1, <2>2, <2>3
<1> QED BY <1>1, <1>2 DEF Carries

(* The batch of a registration has the address, if it went, before the     *)
(* only setImsEnabled.                                                     *)
LEMMA BatchCarries ==
  ASSUME NEW value \in BOOLEAN, NEW u \in Token, NEW addresses \in Seq(Request), NEW went,
         NEW wifi \in Submitted([kind |-> "wifi", value |-> value]),
         Carries(went, addresses), \A k \in 1 .. Len(addresses) : addresses[k].kind # "ims"
  PROVE  LET batch == Batch(wifi, addresses, u) IN
         /\ batch \in Seq(Request) /\ Carries(went, batch)
         /\ \A k \in 1 .. Len(batch) : batch[k].kind = "ims" /\ went =>
              \E j \in 1 .. Len(batch) : j < k /\ batch[j].kind = "address"
<1> DEFINE first == [kind |-> "wifi", value |-> value]
           enable == [kind |-> "ims", value |-> u]
           front == wifi \o addresses
           batch == front \o <<enable>>
<1>1. first \in Request /\ first.kind = "wifi" /\ enable \in Request /\ enable.kind = "ims"
  BY DEF Request
<1>2. wifi \in Submitted(first)
  OBVIOUS
<1> HIDE DEF first, enable
<1>3. wifi \in Seq(Request) /\ \A k \in 1 .. Len(wifi) : wifi[k].kind = "wifi"
  BY <1>1, <1>2, SubmittedShape
<1>4. Joined(wifi, addresses, front)
  BY <1>3, JoinedShape
<1> HIDE DEF front
<1>5. Carries(went, front)
  BY <1>3, <1>4, CarriesAfter
<1>6. ASSUME NEW k \in 1 .. Len(front)
      PROVE  front[k].kind # "ims"
  <2>1. CASE k \in 1 .. Len(wifi)
    <3>1. front[k] = wifi[k]
      BY <1>4, <2>1 DEF Joined
    <3> QED BY <1>3, <2>1, <3>1
  <2>2. CASE k \notin 1 .. Len(wifi)
    <3>1. PICK m \in 1 .. Len(addresses) : front[k] = addresses[m]
      BY <1>4, <2>2, JoinedElsewhere
    <3> QED BY <3>1
  <2> QED BY <2>1, <2>2
<1>7. /\ front \in Seq(Request) /\ <<enable>> \in Seq(Request) /\ Len(<<enable>>) = 1
      /\ <<enable>>[1] = enable
  BY <1>1, <1>4, Singleton DEF Joined
<1>8. \A k \in 1 .. Len(<<enable>>) : k = 1 /\ <<enable>>[k].kind = "ims"
  BY <1>1, <1>7
<1>9. Joined(front, <<enable>>, batch)
  BY <1>7, JoinedShape
<1>10. Batch(wifi, addresses, u) = batch
  BY DEF Batch, front, enable
<1> HIDE DEF batch
<1>11. Carries(went, batch)
  BY <1>5, <1>8, <1>9, CarriesBefore
<1>12. ASSUME NEW k \in 1 .. Len(batch), batch[k].kind = "ims", went
       PROVE  \E j \in 1 .. Len(batch) : j < k /\ batch[j].kind = "address"
  <2>1. PICK j \in 1 .. Len(front) : front[j].kind = "address"
    BY <1>5, <1>12 DEF Carries
  <2>2. j \in 1 .. Len(batch) /\ batch[j].kind = "address"
    BY <1>9, <2>1 DEF Joined
  <2>3. k \notin 1 .. Len(front)
    BY <1>6, <1>9, <1>12 DEF Joined
  <2>4. j < k
    BY <1>9, <2>3 DEF Joined
  <2> QED BY <2>2, <2>4
<1>13. batch \in Seq(Request)
  BY <1>9 DEF Joined
<1> QED BY <1>10, <1>11, <1>12, <1>13

(* What is sent, in the words of the invariants: the former requests, then *)
(* others.                                                                 *)
Extended(requests) == Joined(sent, requests, sent')

LEMMA SendShape ==
  ASSUME sent \in Seq(Request), NEW requests \in Seq(Request), Send(requests)
  PROVE  Extended(requests)
<1>1. sent' = sent \o requests
  BY DEF Send
<1> QED BY <1>1, JoinedShape DEF Extended

LEMMA CarriesHandedOver ==
  ASSUME NEW requests, NEW given, NEW went, Extended(requests), Carries(went, requests),
         HandsOver(given, went), LastHandedOver, used' = used
  PROVE  LastHandedOver'
<1> USE DEF LastHandedOver, IsAddress, Extended
<1>1. CASE went
  <2>1. PICK k \in 1 .. Len(requests) :
          /\ requests[k].kind = "address" /\ requests[k].value = modem'
          /\ \A j \in 1 .. Len(requests) : requests[j].kind = "address" => j = k
    BY <1>1 DEF Carries
  <2>2. /\ Len(sent) + k \in 1 .. Len(sent') /\ sent'[Len(sent) + k] = requests[k]
    BY DEF Joined
  <2>3. ASSUME NEW j \in 1 .. Len(sent'), j > Len(sent) + k
        PROVE  sent'[j].kind # "address"
    <3>0. j \notin 1 .. Len(sent)
      BY <2>3 DEF Joined
    <3>1. PICK m \in 1 .. Len(requests) : j = Len(sent) + m
      BY <3>0 DEF Joined
    <3>2. m # k
      BY <2>3, <3>1 DEF Joined
    <3> QED BY <2>1, <3>1, <3>2 DEF Joined
  <2> QED BY <2>1, <2>2, <2>3
<1>2. CASE ~went /\ ~refused'
  <2>0. refused' = refused /\ modem' = modem
    BY <1>2 DEF HandsOver
  <2>1. \A k \in 1 .. Len(requests) : requests[k].kind # "address"
    BY <1>2 DEF Carries
  <2>2. ASSUME NEW j \in 1 .. Len(sent'), j \notin 1 .. Len(sent)
        PROVE  sent'[j].kind # "address"
    <3>1. PICK m \in 1 .. Len(requests) : j = Len(sent) + m
      BY <2>2 DEF Joined
    <3>2. sent'[j] = requests[m]
      BY <3>1 DEF Joined
    <3> QED BY <2>1, <3>2
  <2>3. CASE used.address = modem /\ \A i \in 1 .. Len(sent) : ~IsAddress(i)
    BY <2>0, <2>2, <2>3 DEF Joined
  <2>4. CASE \E i \in 1 .. Len(sent) :
               /\ IsAddress(i) /\ sent[i].value = modem
               /\ \A j \in 1 .. Len(sent) : j > i => ~IsAddress(j)
    <3>1. PICK i \in 1 .. Len(sent) :
               /\ IsAddress(i) /\ sent[i].value = modem
               /\ \A j \in 1 .. Len(sent) : j > i => ~IsAddress(j)
      BY <2>4
    <3>2. i \in 1 .. Len(sent') /\ sent'[i] = sent[i]
      BY DEF Joined
    <3>3. ASSUME NEW j \in 1 .. Len(sent'), j > i PROVE sent'[j].kind # "address"
      BY <2>2, <3>1, <3>3 DEF Joined
    <3> QED BY <2>0, <3>1, <3>2, <3>3
  <2> QED BY <1>2, <2>0, <2>3, <2>4
<1> QED BY <1>1, <1>2

(* Only addresses that are recent are added. *)
LEMMA ExtendedAddresses ==
  ASSUME NEW requests, NEW went, NEW S, Extended(requests), Carries(went, requests),
         went => modem' \subseteq S,
         \A i \in 1 .. Len(sent) : IsAddress(i) => sent[i].value \subseteq S
  PROVE  \A i \in 1 .. Len(sent') : sent'[i].kind = "address" => sent'[i].value \subseteq S
<1> USE DEF IsAddress, Extended
<1>1. ASSUME NEW i \in 1 .. Len(sent'), sent'[i].kind = "address"
      PROVE  sent'[i].value \subseteq S
  <2>1. CASE i \in 1 .. Len(sent)
    BY <1>1, <2>1 DEF Joined
  <2>2. CASE i \notin 1 .. Len(sent)
    <3>1. PICK k \in 1 .. Len(requests) : i = Len(sent) + k
      BY <2>2 DEF Joined
    <3>2. sent'[i] = requests[k]
      BY <3>1 DEF Joined
    <3> QED BY <1>1, <3>2 DEF Carries
  <2> QED BY <2>1, <2>2
<1> QED BY <1>1

(***************************************************************************)
(* nm_initialize, and with it a registration.                              *)
(***************************************************************************)
(* The batch that a registration sends, its address among it or not. *)
Registers(u, given, went, batch) ==
  /\ inits \in Nat /\ inits' = inits + 1
  /\ UNCHANGED <<nm, signals, used, answers, slotIms, changes>>
  /\ ~info.freed /\ info'.freed = info.freed
  /\ HandsOver(given, went) /\ (went => modem' = {Current})
  /\ asked' = [ud |-> {u}, sent |-> went]
  /\ since' = {Current} /\ pending' = pending \cup {u} /\ slotIms
  /\ Extended(batch) /\ Carries(went, batch)
  /\ \A k \in 1 .. Len(batch) : batch[k].kind = "ims" /\ went =>
       \E j \in 1 .. Len(batch) : j < k /\ batch[j].kind = "address"

LEMMA RegistrationEffect ==
  ASSUME WifiInv, NEW value \in BOOLEAN, NEW u \in Token, SetRegistration(value, u)
  PROVE  \E given, went \in BOOLEAN, batch \in Seq(Request) : Registers(u, given, went, batch)
<1> USE DEF WifiInv, IInv
<1> DEFINE given == info'.config # NoProxy
<1>1. TypeOK /\ Initialize
  BY DEF SetRegistration
<1>2. inits \in Nat /\ inits' = inits + 1 /\ nm' = nm /\ signals' = signals /\ ~info.freed
  BY <1>1, ConfigTyped, InitializeCounts
<1>3. info'.freed = info.freed
  BY <1>1 DEF Initialize, SetupIp4ConfigProxy, TypeOK
<1>4. IF given THEN modem' = {Current} ELSE modem' = modem
  BY <1>1, InitializeGives
<1>5. IF given THEN modem' \in OneAddress ELSE modem' = modem
  BY <1>1, <1>4, ConfigTyped DEF OneAddress
<1>6. PICK wifi \in Submitted([kind |-> "wifi", value |-> value]), addresses \in Addresses(given) :
        /\ Send(Batch(wifi, addresses, u))
        /\ refused' = IsRefused(given, addresses)
        /\ asked' = [ud |-> {u}, sent |-> addresses # <<>>]
  BY DEF SetRegistration
<1> DEFINE went == addresses # <<>>
           batch == Batch(wifi, addresses, u)
<1>7. given \in BOOLEAN /\ went \in BOOLEAN
  OBVIOUS
<1> HIDE DEF given
<1>8. /\ addresses \in Seq(Request) /\ HandsOver(given, went) /\ Carries(went, addresses)
      /\ \A k \in 1 .. Len(addresses) : addresses[k].kind # "ims"
  BY <1>5, <1>6, <1>7, AddressesCarry
<1>9. went => modem' = {Current}
  BY <1>4, <1>8 DEF HandsOver
<1> HIDE DEF went
<1>10. /\ batch \in Seq(Request) /\ Carries(went, batch)
       /\ \A k \in 1 .. Len(batch) : batch[k].kind = "ims" /\ went =>
            \E j \in 1 .. Len(batch) : j < k /\ batch[j].kind = "address"
  BY <1>8, BatchCarries
<1>11. sent \in Seq(Request) /\ Send(batch)
  BY <1>6 DEF WifiTypeOK
<1>12. asked' = [ud |-> {u}, sent |-> went]
  BY <1>6 DEF went
<1> HIDE DEF batch
<1>13. Extended(batch)
  BY <1>10, <1>11, SendShape
<1>14. UNCHANGED <<used, answers, slotIms, changes>> /\ since' = {Current}
       /\ pending' = pending \cup {u} /\ slotIms
  BY DEF SetRegistration
<1>15. Registers(u, given, went, batch)
  BY <1>2, <1>3, <1>8, <1>9, <1>10, <1>12, <1>13, <1>14 DEF Registers
<1> QED BY <1>7, <1>10, <1>15

LEMMA RegistrationStep ==
  ASSUME WifiInv, NEW value \in BOOLEAN, NEW u \in Token, SetRegistration(value, u)
  PROVE  FreedWithIms' /\ LastHandedOver' /\ NothingSent' /\ Recent' /\ AddressFirst'
<1>a. PICK given \in BOOLEAN, went \in BOOLEAN, batch \in Seq(Request) :
        Registers(u, given, went, batch)
  BY RegistrationEffect
<1>0. /\ inits \in Nat /\ inits' = inits + 1
      /\ UNCHANGED <<nm, signals, used, answers, slotIms>>
      /\ ~info.freed /\ info'.freed = info.freed
      /\ HandsOver(given, went) /\ (went => modem' = {Current})
      /\ asked' = [ud |-> {u}, sent |-> went]
      /\ since' = {Current} /\ pending' = pending \cup {u} /\ slotIms
      /\ Extended(batch) /\ Carries(went, batch)
      /\ \A k \in 1 .. Len(batch) : batch[k].kind = "ims" /\ went =>
           \E j \in 1 .. Len(batch) : j < k /\ batch[j].kind = "address"
  BY <1>a DEF Registers
<1>1. FreedWithIms'
  BY <1>0 DEF FreedWithIms, Kept
<1>2. LastHandedOver'
  BY <1>0, CarriesHandedOver DEF WifiInv
<1>3. NothingSent'
  BY <1>0 DEF NothingSent
<1>4. ASSUME inits = 0
      PROVE  /\ sent = <<>> /\ Len(sent) = 0 /\ answers = {} /\ used.address = {}
             /\ info.config = NoProxy
             /\ \A i \in 1 .. Len(signals) : ~Effective(i)
  BY <1>4, NoProxies DEF WifiInv, NothingSent
<1>5. Recent'
  <2> SUFFICES ASSUME inits' = 1 PROVE Recent'
    BY DEF Recent
  <2>1. inits = 0
    BY <1>0
  <2>2. Current' = Current /\ Current \in since'
    BY <1>0 DEF Current
  <2>3. used'.address \subseteq since'
    BY <1>0, <1>4, <2>1
  <2>4. \A i \in 1 .. Len(sent) : IsAddress(i) => sent[i].value \subseteq since'
    BY <1>4, <2>1
  <2>5. went => modem' \subseteq since'
    BY <1>0
  <2>6. \A i \in 1 .. Len(sent') : sent'[i].kind = "address" => sent'[i].value \subseteq since'
    BY <1>0, <2>4, <2>5, ExtendedAddresses
  <2>7. \A i \in 1 .. Len(signals') : ~(signals'[i].to # {})
    BY <1>0, <1>4, <2>1 DEF Effective
  <2> QED BY <2>2, <2>3, <2>6, <2>7 DEF Recent, IsAddress, Effective
<1>6. AddressFirst'
  <2> SUFFICES ASSUME inits' = 1, asked'.sent PROVE AddressFirst'
    BY DEF AddressFirst
  <2>1. inits = 0 /\ Len(sent) = 0 /\ answers' = {}
    BY <1>0, <1>4
  <2>2. went
    BY <1>0
  <2>3. \A k \in 1 .. Len(batch) : batch[k].kind = "ims" =>
          \E j \in 1 .. Len(batch) : j < k /\ batch[j].kind = "address"
    BY <1>0, <2>2
  <2>4. ASSUME NEW i \in 1 .. Len(sent')
        PROVE  i \in 1 .. Len(batch) /\ sent'[i] = batch[i]
    BY <1>0, <2>1 DEF Extended, Joined
  <2>5. \A j \in 1 .. Len(batch) : j \in 1 .. Len(sent')
    BY <1>0, <2>1 DEF Extended, Joined
  <2>6. ASSUME NEW i \in 1 .. Len(sent'), sent'[i].kind = "ims"
        PROVE  \E j \in 1 .. Len(sent') : j < i /\ sent'[j].kind = "address"
    BY <2>3, <2>4, <2>5, <2>6
  <2> QED BY <2>1, <2>6 DEF AddressFirst, IsAddress
<1> QED BY <1>1, <1>2, <1>3, <1>5, <1>6

(***************************************************************************)
(* The signal handlers.                                                    *)
(***************************************************************************)
(* The address that a handler reads is sent or not. *)
Hands(given, went, addresses) ==
  /\ inits \in Nat /\ inits # 0
  /\ UNCHANGED <<nm, inits, broken, slotIms, pending, answers, used, asked, since, changes>>
  /\ 1 \in 1 .. Len(signals) /\ Effective(1) /\ \E ps : Taken(ps)
  /\ HandsOver(given, went) /\ (went => modem' = {Told(1)})
  /\ info'.freed = info.freed
  /\ Extended(addresses) /\ Carries(went, addresses)
  /\ \A k \in 1 .. Len(addresses) : addresses[k].kind # "ims"

LEMMA MonitorEffect ==
  ASSUME WifiInv, Monitor
  PROVE  \E given, went \in BOOLEAN, addresses \in Seq(Request) : Hands(given, went, addresses)
<1> USE DEF WifiInv
<1>1. PICK given \in BOOLEAN :
        /\ \/ /\ HandleDeviceSignal
              /\ given \in Given(Cardinality(Head(signals).to), Head(signals).value)
           \/ HandleConfigSignal /\ given
        /\ \E addresses \in Addresses(given) :
             Send(addresses) /\ refused' = IsRefused(given, addresses)
  BY DEF Monitor
<1>2. PICK addresses \in Addresses(given) :
        Send(addresses) /\ refused' = IsRefused(given, addresses)
  BY <1>1
<1> DEFINE went == addresses # <<>>
<1>3. /\ 1 \in 1 .. Len(signals) /\ Effective(1) /\ \E ps : Taken(ps)
      /\ Told(1) \in Address
      /\ IF given THEN modem' = {Told(1)} ELSE modem' = modem
      /\ info'.freed = info.freed
      /\ UNCHANGED <<nm, inits, broken>>
  BY <1>1, MonitorGives
<1>4. IF given THEN modem' \in OneAddress ELSE modem' = modem
  BY <1>3 DEF OneAddress
<1>5. /\ addresses \in Seq(Request) /\ HandsOver(given, went) /\ Carries(went, addresses)
      /\ \A k \in 1 .. Len(addresses) : addresses[k].kind # "ims"
  BY <1>2, <1>4, AddressesCarry
<1>6. Extended(addresses)
  BY <1>2, <1>5, SendShape DEF WifiTypeOK
<1>7. inits \in Nat /\ inits # 0
  BY <1>3, NoProxies, ConfigTyped DEF IInv
<1>8. went => modem' = {Told(1)}
  BY <1>3, <1>5 DEF HandsOver
<1>9. UNCHANGED <<slotIms, pending, answers, used, asked, since, changes>>
  BY DEF Monitor
<1> HIDE DEF went
<1>10. Hands(given, went, addresses)
  BY <1>3, <1>5, <1>6, <1>7, <1>8, <1>9 DEF Hands
<1>11. went \in BOOLEAN
  BY DEF went
<1> QED BY <1>5, <1>10, <1>11

(* What is left of the signals is as recent as before. *)
LEMMA TakenRecent ==
  ASSUME NEW ps, NEW S, Taken(ps), nm' = nm,
         \A i \in 1 .. Len(signals) : Effective(i) => Told(i) \in S
  PROVE  \A i \in 1 .. Len(signals') : Effective(i)' => Told(i)' \in S
<1>1. ASSUME NEW i \in 1 .. Len(signals'), Effective(i)'
      PROVE  Told(i)' \in S
  <2>1. /\ i + 1 \in 1 .. Len(signals)
        /\ signals'[i].obj = signals[i + 1].obj /\ signals'[i].value = signals[i + 1].value
        /\ signals[i + 1].to # {}
    BY <1>1 DEF Taken, Effective
  <2>2. Told(i + 1) \in S
    BY <2>1 DEF Effective
  <2>3. Told(i)' = Told(i + 1)
    BY <2>1 DEF Told
  <2> QED BY <2>2, <2>3
<1> QED BY <1>1

LEMMA MonitorHandles ==
  ASSUME WifiInv, Monitor
  PROVE  FreedWithIms' /\ LastHandedOver' /\ NothingSent' /\ Recent' /\ AddressFirst'
<1>a. PICK given \in BOOLEAN, went \in BOOLEAN, addresses \in Seq(Request) :
        Hands(given, went, addresses)
  BY MonitorEffect
<1>0. /\ inits \in Nat /\ inits # 0
      /\ UNCHANGED <<nm, inits, slotIms, pending, answers, used, asked, since>>
      /\ 1 \in 1 .. Len(signals) /\ Effective(1) /\ \E ps : Taken(ps)
      /\ HandsOver(given, went) /\ (went => modem' = {Told(1)})
      /\ info'.freed = info.freed
      /\ Extended(addresses) /\ Carries(went, addresses)
      /\ \A k \in 1 .. Len(addresses) : addresses[k].kind # "ims"
  BY <1>a DEF Hands
<1>1. FreedWithIms'
  BY <1>0 DEF WifiInv, FreedWithIms, Kept
<1>2. LastHandedOver'
  BY <1>0, CarriesHandedOver DEF WifiInv
<1>3. NothingSent'
  BY <1>0 DEF NothingSent
<1>4. Recent'
  <2> SUFFICES ASSUME inits = 1 PROVE Recent'
    BY <1>0 DEF Recent
  <2>1. /\ Current \in since /\ used.address \subseteq since
        /\ \A i \in 1 .. Len(sent) : IsAddress(i) => sent[i].value \subseteq since
        /\ \A i \in 1 .. Len(signals) : Effective(i) => Told(i) \in since
    BY DEF WifiInv, Recent
  <2>2. went => modem' \subseteq since
    BY <1>0, <2>1
  <2>3. \A i \in 1 .. Len(sent') : sent'[i].kind = "address" => sent'[i].value \subseteq since
    BY <1>0, <2>1, <2>2, ExtendedAddresses
  <2>4. \A i \in 1 .. Len(signals') : Effective(i)' => Told(i)' \in since
    BY <1>0, <2>1, TakenRecent
  <2>5. Current' = Current
    BY <1>0 DEF Current
  <2> QED BY <1>0, <2>1, <2>3, <2>4, <2>5 DEF Recent, IsAddress
<1>5. AddressFirst'
  <2> SUFFICES ASSUME inits = 1, asked.sent PROVE AddressFirst'
    BY <1>0 DEF AddressFirst
  <2>1. ASSUME NEW i \in 1 .. Len(sent'), sent'[i].kind = "ims", used.address = {}
        PROVE  \E j \in 1 .. Len(sent') : j < i /\ sent'[j].kind = "address"
    <3>0. Joined(sent, addresses, sent')
      BY <1>0 DEF Extended
    <3>a. ASSUME NEW k \in 1 .. Len(addresses) PROVE sent'[i] # addresses[k]
      BY <1>0, <2>1
    <3>1. i \in 1 .. Len(sent)
      BY <3>0, <3>a, JoinedElsewhere
    <3>2. sent[i].kind = "ims"
      BY <2>1, <3>0, <3>1 DEF Joined
    <3>3. PICK j \in 1 .. Len(sent) : j < i /\ sent[j].kind = "address"
      BY <2>1, <3>1, <3>2 DEF WifiInv, AddressFirst, IsAddress
    <3>4. j \in 1 .. Len(sent') /\ sent'[j] = sent[j]
      BY <1>0, <3>3 DEF Extended, Joined
    <3> QED BY <3>3, <3>4
  <2> QED BY <1>0, <2>1 DEF WifiInv, AddressFirst, IsAddress
<1> QED BY <1>1, <1>2, <1>3, <1>4, <1>5

(***************************************************************************)
(* The references of slot and requests.                                    *)
(***************************************************************************)
(* What the release of the MtkIms leaves on its way is as recent.          *)
LEMMA FreeKeeps ==
  ASSUME IInv, Free
  PROVE  /\ UNCHANGED <<nm, modem, inits>> /\ info'.freed /\ ~broken'
         /\ Len(signals') = Len(signals)
         /\ \A i \in 1 .. Len(signals) : /\ Effective(i)' => Effective(i)
                                         /\ Told(i)' = Told(i)
<1>1. signals \in Seq(Signal) /\ signals' = Undelivered(signals, Released)
  BY DEF IInv, TypeOK, Free
<1>2. /\ Len(signals') = Len(signals)
      /\ \A i \in 1 .. Len(signals) :
           /\ signals'[i].obj = signals[i].obj /\ signals'[i].value = signals[i].value
           /\ signals'[i].to = signals[i].to \ Released
  BY <1>1, UndeliveredShape
<1>3. UNCHANGED <<nm, modem, inits>> /\ info'.freed /\ ~broken'
  BY DEF Free
<1> QED BY <1>2, <1>3 DEF Effective, Told

LEMMA ReleaseStep ==
  ASSUME WifiInv, NEW slot \in BOOLEAN, NEW requests, Release(slot, requests),
         Kept(slotIms, pending), UNCHANGED <<sent, used, refused, asked, since>>, answers' \subseteq answers
  PROVE  FreedWithIms' /\ LastHandedOver' /\ NothingSent' /\ Recent' /\ AddressFirst'
<1>1. ~info.freed
  BY DEF WifiInv, FreedWithIms
<1>2. /\ UNCHANGED <<nm, modem, inits>>
      /\ Len(signals') = Len(signals)
      /\ \A i \in 1 .. Len(signals) : /\ Effective(i)' => Effective(i)
                                      /\ Told(i)' = Told(i)
      /\ info'.freed <=> ~Kept(slot, requests)
  <2>1. CASE Kept(slot, requests)
    <3>1. UNCHANGED nmVars
      BY <2>1 DEF Release
    <3> QED BY <1>1, <2>1, <3>1 DEF nmVars, Effective, Told
  <2>2. CASE ~Kept(slot, requests)
    <3>1. Free
      BY <1>1, <2>2 DEF Release
    <3> QED BY <2>2, <3>1, FreeKeeps DEF WifiInv
  <2> QED BY <2>1, <2>2
<1>3. FreedWithIms'
  <2>1. slotIms' = slot /\ pending' = requests
    BY DEF Release
  <2> QED BY <1>2, <2>1 DEF FreedWithIms, Kept
<1>4. LastHandedOver'
  BY <1>2 DEF WifiInv, LastHandedOver, IsAddress
<1>5. NothingSent'
  BY <1>2 DEF WifiInv, NothingSent
<1>6. Recent'
  BY <1>2 DEF WifiInv, Recent, Current, IsAddress
<1>7. AddressFirst'
  BY <1>2 DEF WifiInv, AddressFirst, IsAddress
<1> QED BY <1>3, <1>4, <1>5, <1>6, <1>7

(***************************************************************************)
(* NetworkManager and the modem.                                           *)
(***************************************************************************)
LEMMA OtherSignalStep ==
  ASSUME WifiInv, OtherSignal
  PROVE  FreedWithIms' /\ LastHandedOver' /\ NothingSent' /\ Recent' /\ AddressFirst'
<1>1. UNCHANGED <<slotIms, pending, sent, answers, used, refused, asked, since>>
      /\ UNCHANGED <<nm, info, modem, inits>>
  BY DEF OtherSignal, regVars, DropSignal, HandleSignalWithoutBus, HandleSignalFreed
<1>2. FreedWithIms' /\ LastHandedOver' /\ NothingSent' /\ AddressFirst'
  BY <1>1 DEF WifiInv, FreedWithIms, LastHandedOver, NothingSent, AddressFirst, Kept, IsAddress
<1>3. Recent'
  <2> SUFFICES ASSUME inits = 1 PROVE Recent'
    BY <1>1 DEF Recent
  <2>1. /\ Current \in since /\ used.address \subseteq since
        /\ \A i \in 1 .. Len(sent) : IsAddress(i) => sent[i].value \subseteq since
        /\ \A i \in 1 .. Len(signals) : Effective(i) => Told(i) \in since
    BY DEF WifiInv, Recent
  <2>2. \A i \in 1 .. Len(signals') : Effective(i)' => Told(i)' \in since
    <3>1. CASE DropSignal
      <4>1. Taken({})
        BY <3>1, TakenShape DEF DropSignal, WifiInv, IInv
      <4> QED BY <1>1, <2>1, <4>1, TakenRecent
    <3>2. CASE HandleSignalWithoutBus
      <4>1. Taken({})
        BY <3>2, WithoutBusEffect DEF WifiInv, IInv, SignalsInv
      <4> QED BY <1>1, <2>1, <4>1, TakenRecent
    <3>3. CASE HandleSignalFreed
      BY <1>1, <2>1, <3>3 DEF HandleSignalFreed, Effective, Told
    <3> QED BY <3>1, <3>2, <3>3 DEF OtherSignal
  <2> QED BY <1>1, <2>1, <2>2 DEF Recent, Current, IsAddress
<1> QED BY <1>2, <1>3

(* What the device has now is remembered, and what is signalled is that.   *)
LEMMA ChangeRecent ==
  ASSUME IInv, NetworkChanges, NEW S, Current \in S,
         \A i \in 1 .. Len(signals) : Effective(i) => Told(i) \in S
  PROVE  /\ Current' \in S \cup {Current'}
         /\ \A i \in 1 .. Len(signals') : Effective(i)' => Told(i)' \in S \cup {Current'}
<1> USE DEF IInv
<1>0. nm \in Networks
  BY DEF TypeOK, Networks
<1>1. ASSUME NEW path \in Path, SwitchConfig(path)
      PROVE  \A i \in 1 .. Len(signals') : Effective(i)' => Told(i)' \in S \cup {Current'}
  <2>1. nm'.path = path /\ nm'.address = nm.address
    BY <1>0, <1>1 DEF SwitchConfig, Networks
  <2>2. /\ Len(signals) \in Nat /\ Len(signals') = Len(signals) + 1
        /\ \A i \in 1 .. Len(signals) : signals'[i] = signals[i]
        /\ signals'[Len(signals) + 1].obj = "device" /\ signals'[Len(signals) + 1].value = path
    BY <1>1, EmitShape DEF SwitchConfig
  <2>3. \A i \in Nat : i = Len(signals) + 1 => Told(i)' = Current'
    BY <2>1, <2>2 DEF Told, Current
  <2>4. \A i \in 1 .. Len(signals) : Effective(i)' = Effective(i) /\ Told(i)' = Told(i)
    BY <2>1, <2>2 DEF Told, Effective
  <2>5. \A i \in 1 .. Len(signals') : i \in 1 .. Len(signals) \/ i = Len(signals) + 1
    BY <2>2
  <2>6. \A i \in 1 .. Len(signals') : i \in Nat
    BY <2>2
  <2> QED BY <2>3, <2>4, <2>5, <2>6
<1>2. ASSUME NEW a \in Address, ChangeAddress(a)
      PROVE  \A i \in 1 .. Len(signals') : Effective(i)' => Told(i)' \in S \cup {Current'}
  <2>1. /\ nm'.path = nm.path /\ nm.path \in Path /\ nm'.address[nm.path] = a
        /\ \A path \in Path : path # nm.path => nm'.address[path] = nm.address[path]
    BY <1>0, <1>2 DEF ChangeAddress, Networks
  <2>2. /\ Len(signals) \in Nat /\ Len(signals') = Len(signals) + 1
        /\ \A i \in 1 .. Len(signals) : signals'[i] = signals[i]
        /\ signals'[Len(signals) + 1].obj = nm.path /\ signals'[Len(signals) + 1].value = a
    BY <1>2, EmitShape DEF ChangeAddress
  <2>3. Current' = a
    BY <2>1 DEF Current
  <2>4. \A i \in Nat : i = Len(signals) + 1 => Told(i)' = a
    BY <2>1, <2>2, ConstantAssumption DEF Told
  <2>5. ASSUME NEW i \in 1 .. Len(signals), Effective(i)'
        PROVE  Told(i)' \in S \cup {a}
    <3>1. signals'[i] = signals[i] /\ Effective(i)
      BY <2>2, <2>5 DEF Effective
    <3>2. CASE signals[i].obj = "device"
      <4>1. signals[i].value \in Path
        BY <3>2, SignalTyped
      <4>2. Told(i)' = nm'.address[signals[i].value] /\ Told(i) = nm.address[signals[i].value]
        BY <3>1, <3>2 DEF Told
      <4> QED BY <2>1, <3>1, <4>1, <4>2
    <3>3. CASE signals[i].obj # "device"
      BY <3>1, <3>3 DEF Told
    <3> QED BY <3>2, <3>3
  <2>6. \A i \in 1 .. Len(signals') : i \in 1 .. Len(signals) \/ i = Len(signals) + 1
    BY <2>2
  <2>7. \A i \in 1 .. Len(signals') : i \in Nat
    BY <2>2
  <2> QED BY <2>3, <2>4, <2>5, <2>6, <2>7
<1> QED BY <1>1, <1>2 DEF NetworkChanges

LEMMA NetworkChangesStep ==
  ASSUME WifiInv, NetworkChanges
  PROVE  FreedWithIms' /\ LastHandedOver' /\ NothingSent' /\ Recent' /\ AddressFirst'
<1>1. /\ UNCHANGED <<slotIms, pending, sent, answers, used, refused, asked>>
      /\ UNCHANGED <<info, modem, inits>>
      /\ since' = since \cup {Current'}
  BY DEF NetworkChanges, SwitchConfig, ChangeAddress, Current
<1>2. FreedWithIms' /\ LastHandedOver' /\ NothingSent' /\ AddressFirst'
  BY <1>1 DEF WifiInv, FreedWithIms, LastHandedOver, NothingSent, AddressFirst, Kept, IsAddress
<1>3. Recent'
  <2> SUFFICES ASSUME inits = 1 PROVE Recent'
    BY <1>1 DEF Recent
  <2>1. /\ Current \in since /\ used.address \subseteq since
        /\ \A i \in 1 .. Len(sent) : IsAddress(i) => sent[i].value \subseteq since
        /\ \A i \in 1 .. Len(signals) : Effective(i) => Told(i) \in since
    BY DEF WifiInv, Recent
  <2>2. \A i \in 1 .. Len(signals') : Effective(i)' => Told(i)' \in since'
    BY <1>1, <2>1, ChangeRecent DEF WifiInv
  <2> QED BY <1>1, <2>1, <2>2 DEF Recent, IsAddress
<1> QED BY <1>2, <1>3

UsedStates == [wifi : BOOLEAN, address : {{}} \cup OneAddress]

LEMMA ModemTakesEffect ==
  ASSUME WifiTypeOK, ModemTakes
  PROVE  /\ sent' \in Seq(Request) /\ Len(sent) \in Nat \ {0} /\ Len(sent') = Len(sent) - 1
         /\ \A i \in 1 .. Len(sent') : i + 1 \in 1 .. Len(sent) /\ sent'[i] = sent[i + 1]
         /\ used' \in UsedStates
         /\ IsAddress(1) => used'.address = sent[1].value /\ sent[1].value \in OneAddress
         /\ ~IsAddress(1) => used'.address = used.address
         /\ answers' \subseteq Token
         /\ answers' # answers => sent[1].kind = "ims"
         /\ UNCHANGED nmVars /\ UNCHANGED <<slotIms, pending, refused, asked, since, changes>>
<1>1. sent \in Seq(Request) /\ sent # <<>> /\ sent' = Tail(sent)
  BY DEF ModemTakes, WifiTypeOK
<1>2. /\ sent' \in Seq(Request) /\ Len(sent') = Len(sent) - 1
      /\ \A i \in 1 .. Len(sent') : sent'[i] = sent[i + 1]
  BY <1>1, HeadTailProperties
<1>3. Len(sent) \in Nat \ {0} /\ Head(sent) = sent[1] /\ sent[1] \in Request
  BY <1>1
<1>4. \A i \in 1 .. Len(sent') : i + 1 \in 1 .. Len(sent)
  BY <1>2, <1>3
<1>5. used \in UsedStates
  BY DEF WifiTypeOK, UsedStates
<1>6. /\ used' = IF sent[1].kind = "ims" THEN used
                 ELSE [used EXCEPT ![sent[1].kind] = sent[1].value]
      /\ answers' \in {answers} \cup
           (IF sent[1].kind = "ims" THEN {answers \cup {sent[1].value}} ELSE {})
  BY <1>3 DEF ModemTakes
<1>7. answers \subseteq Token
  BY DEF WifiTypeOK
<1>8. CASE sent[1].kind = "ims"
  <2>1. sent[1].value \in Token
    BY <1>3, <1>8 DEF Request
  <2>2. used' = used /\ answers' \subseteq Token /\ ~IsAddress(1)
    BY <1>6, <1>7, <1>8, <2>1 DEF IsAddress
  <2> QED BY <1>2, <1>3, <1>4, <1>5, <1>8, <2>2 DEF ModemTakes
<1>9. CASE sent[1].kind = "address"
  <2>1. sent[1].value \in OneAddress
    BY <1>3, <1>9 DEF Request
  <2>2. used' = [used EXCEPT !["address"] = sent[1].value] /\ answers' = answers
    BY <1>6, <1>9
  <2>3. used' \in UsedStates /\ used'.address = sent[1].value
    BY <1>5, <2>1, <2>2 DEF UsedStates
  <2> QED BY <1>2, <1>3, <1>4, <1>7, <1>9, <2>1, <2>2, <2>3 DEF ModemTakes, IsAddress
<1>10. CASE sent[1].kind = "wifi"
  <2>1. sent[1].value \in BOOLEAN
    BY <1>3, <1>10 DEF Request
  <2>2. used' = [used EXCEPT !["wifi"] = sent[1].value] /\ answers' = answers
    BY <1>6, <1>10
  <2>3. used' \in UsedStates /\ used'.address = used.address
    BY <1>5, <2>1, <2>2 DEF UsedStates
  <2> QED BY <1>2, <1>3, <1>4, <1>7, <1>10, <2>2, <2>3 DEF ModemTakes, IsAddress
<1>11. sent[1].kind \in {"ims", "address", "wifi"}
  BY <1>3 DEF Request
<1> QED BY <1>8, <1>9, <1>10, <1>11

LEMMA ModemTakesStep ==
  ASSUME WifiInv, ModemTakes
  PROVE  FreedWithIms' /\ LastHandedOver' /\ NothingSent' /\ Recent' /\ AddressFirst'
<1>0. /\ Len(sent) \in Nat \ {0} /\ Len(sent') = Len(sent) - 1
      /\ \A i \in 1 .. Len(sent') : i + 1 \in 1 .. Len(sent) /\ sent'[i] = sent[i + 1]
      /\ IsAddress(1) => used'.address = sent[1].value /\ sent[1].value \in OneAddress
      /\ ~IsAddress(1) => used'.address = used.address
      /\ answers' # answers => sent[1].kind = "ims"
      /\ UNCHANGED <<nm, signals, info, modem, inits, slotIms, pending, refused, asked, since>>
  BY ModemTakesEffect DEF WifiInv, nmVars
<1>1. 1 \in 1 .. Len(sent) /\ \A i \in 1 .. Len(sent) : i = 1 \/ i - 1 \in 1 .. Len(sent')
  BY <1>0
<1>2. FreedWithIms'
  BY <1>0 DEF WifiInv, FreedWithIms, Kept
<1>3. NothingSent'
  <2>1. inits # 0
    BY <1>0 DEF WifiInv, NothingSent
  <2> QED BY <1>0, <2>1 DEF NothingSent
<1>4. LastHandedOver'
  <2>1. CASE used.address = modem /\ \A i \in 1 .. Len(sent) : ~IsAddress(i)
    BY <1>0, <1>1, <2>1 DEF LastHandedOver, IsAddress
  <2>2. CASE \E i \in 1 .. Len(sent) :
               /\ IsAddress(i) /\ sent[i].value = modem
               /\ \A j \in 1 .. Len(sent) : j > i => ~IsAddress(j)
    <3>1. PICK i \in 1 .. Len(sent) :
               /\ IsAddress(i) /\ sent[i].value = modem
               /\ \A j \in 1 .. Len(sent) : j > i => ~IsAddress(j)
      BY <2>2
    <3>2. \A j \in 1 .. Len(sent') : j + 1 > i => sent'[j].kind # "address"
      BY <1>0, <3>1 DEF IsAddress
    <3>3. CASE i = 1
      <4>1. \A j \in 1 .. Len(sent') : j + 1 > i
        BY <1>0, <3>3
      <4>2. used'.address = modem'
        BY <1>0, <3>1, <3>3
      <4> QED BY <3>2, <4>1, <4>2 DEF LastHandedOver, IsAddress
    <3>4. CASE i # 1
      <4>1. i - 1 \in 1 .. Len(sent') /\ (i - 1) + 1 = i
        BY <1>1, <3>4
      <4>2. sent'[i - 1] = sent[i]
        BY <1>0, <4>1
      <4>3. \A j \in 1 .. Len(sent') : j > i - 1 => j + 1 > i
        BY <1>0, <4>1
      <4> QED BY <1>0, <3>1, <3>2, <4>1, <4>2, <4>3 DEF LastHandedOver, IsAddress
    <3> QED BY <3>3, <3>4
  <2>3. CASE refused
    BY <1>0, <2>3 DEF LastHandedOver
  <2> QED BY <2>1, <2>2, <2>3 DEF WifiInv, LastHandedOver
<1>5. Recent'
  <2> SUFFICES ASSUME inits = 1 PROVE Recent'
    BY <1>0 DEF Recent
  <2>1. /\ Current \in since /\ used.address \subseteq since
        /\ \A i \in 1 .. Len(sent) : IsAddress(i) => sent[i].value \subseteq since
        /\ \A i \in 1 .. Len(signals) : Effective(i) => Told(i) \in since
    BY DEF WifiInv, Recent
  <2>2. used'.address \subseteq since
    BY <1>0, <1>1, <2>1
  <2>3. \A i \in 1 .. Len(sent') : sent'[i].kind = "address" => sent'[i].value \subseteq since
    BY <1>0, <2>1 DEF IsAddress
  <2>4. \A i \in 1 .. Len(signals') : Effective(i)' => Told(i)' \in since
    BY <1>0, <2>1 DEF Effective, Told
  <2> QED BY <1>0, <2>1, <2>2, <2>3, <2>4 DEF Recent, Current, IsAddress
<1>6. AddressFirst'
  <2> SUFFICES ASSUME inits = 1, asked.sent PROVE AddressFirst'
    BY <1>0 DEF AddressFirst
  <2>1. /\ answers # {} => used.address # {}
        /\ \A i \in 1 .. Len(sent) :
             sent[i].kind = "ims" =>
               used.address # {} \/ \E j \in 1 .. Len(sent) : j < i /\ IsAddress(j)
    BY DEF WifiInv, AddressFirst
  <2>2. CASE used.address # {} \/ IsAddress(1)
    <3>1. used'.address # {}
      BY <1>0, <2>2 DEF OneAddress
    <3> QED BY <3>1 DEF AddressFirst
  <2>3. CASE used.address = {} /\ ~IsAddress(1)
    <3>1. answers = {} /\ used'.address = {}
      BY <1>0, <2>1, <2>3
    <3>2. sent[1].kind # "ims"
      <4>1. \A j \in 1 .. Len(sent) : ~(j < 1)
        BY <1>0
      <4> QED BY <1>1, <2>1, <2>3, <4>1
    <3>3. ASSUME NEW i \in 1 .. Len(sent'), sent'[i].kind = "ims"
          PROVE  \E j \in 1 .. Len(sent') : j < i /\ sent'[j].kind = "address"
      <4>1. i + 1 \in 1 .. Len(sent) /\ sent[i + 1].kind = "ims"
        BY <1>0, <3>3
      <4>2. PICK j \in 1 .. Len(sent) : j < i + 1 /\ IsAddress(j)
        BY <2>1, <2>3, <4>1
      <4>3. j # 1 /\ j - 1 \in 1 .. Len(sent') /\ (j - 1) + 1 = j /\ j - 1 < i
        BY <1>0, <1>1, <2>3, <4>1, <4>2
      <4>4. sent'[j - 1] = sent[j]
        BY <1>0, <4>3
      <4> QED BY <4>2, <4>3, <4>4 DEF IsAddress
    <3> QED BY <1>0, <3>1, <3>2, <3>3 DEF AddressFirst, IsAddress
  <2> QED BY <2>2, <2>3
<1> QED BY <1>2, <1>3, <1>4, <1>5, <1>6

(***************************************************************************)
(* The theorems.                                                           *)
(***************************************************************************)
LEMMA WifiInitSound == WifiInit => WifiInv
<1> SUFFICES ASSUME WifiInit PROVE WifiInv
  OBVIOUS
<1>1. IInv
  BY InitSound DEF WifiInit
<1>2. /\ slotIms = TRUE /\ pending = {} /\ answers = {} /\ since = {} /\ sent = <<>>
      /\ used = [wifi |-> FALSE, address |-> {}] /\ refused = FALSE /\ asked = [ud |-> {}, sent |-> FALSE]
      /\ changes = 0 /\ inits = 0 /\ modem = {} /\ info.freed = FALSE
  BY DEF WifiInit, Init
<1>3. WifiTypeOK
  <2>1. sent \in Seq(Request)
    <3>1. <<>> \in Seq(Request)
      OBVIOUS
    <3> QED BY <1>2, <3>1, Zenon
  <2>2. changes \in 0 .. MaxChanges
    BY <1>2, BoundAssumption
  <2>3. used \in UsedStates
    BY <1>2 DEF UsedStates
  <2>4. asked \in [ud : SUBSET Token, sent : BOOLEAN]
    BY <1>2
  <2>5. slotIms \in BOOLEAN /\ pending \subseteq Token /\ answers \subseteq Token /\ since \subseteq Address
        /\ refused \in BOOLEAN
    BY <1>2
  <2> QED BY <1>1, <2>1, <2>2, <2>3, <2>4, <2>5 DEF WifiTypeOK, IInv, UsedStates
<1>4. Len(sent) = 0 /\ \A i \in 1 .. Len(sent) : FALSE
  <2>1. Len(<<>>) = 0
    OBVIOUS
  <2> QED BY <1>2, <2>1
<1>5. FreedWithIms /\ LastHandedOver /\ NothingSent
  BY <1>2, <1>4 DEF FreedWithIms, Kept, LastHandedOver, NothingSent
<1>6. Recent /\ AddressFirst
  BY <1>2 DEF Recent, AddressFirst
<1> QED BY <1>1, <1>3, <1>5, <1>6 DEF WifiInv

AskedStates == [ud : SUBSET Token, sent : BOOLEAN]

LEMMA WifiTypeStep ==
  ASSUME WifiInv, [WifiNext]_allVars PROVE WifiTypeOK'
<1> USE DEF WifiInv
<1>0. /\ TypeOK /\ slotIms \in BOOLEAN /\ pending \subseteq Token /\ sent \in Seq(Request)
      /\ answers \subseteq Token /\ used \in UsedStates /\ refused \in BOOLEAN
      /\ asked \in AskedStates
      /\ since \subseteq Address /\ changes \in 0 .. MaxChanges
  BY DEF WifiTypeOK, UsedStates, AskedStates
<1>1. TypeOK'
  BY MonitorInv DEF IInv
<1> DEFINE Typed ==
      /\ slotIms' \in BOOLEAN /\ pending' \subseteq Token /\ sent' \in Seq(Request)
      /\ answers' \subseteq Token /\ used' \in UsedStates /\ refused' \in BOOLEAN
      /\ asked' \in AskedStates
      /\ since' \subseteq Address /\ changes' \in 0 .. MaxChanges
<1> SUFFICES Typed
  BY <1>1 DEF WifiTypeOK, UsedStates, AskedStates
<1>2. ASSUME NEW value \in BOOLEAN, NEW u \in Token, SetRegistration(value, u) PROVE Typed
  <2>0. PICK given \in BOOLEAN, went \in BOOLEAN, batch \in Seq(Request) :
          Registers(u, given, went, batch)
    BY <1>2, RegistrationEffect
  <2>1. /\ UNCHANGED <<used, answers, slotIms, changes>>
        /\ asked' = [ud |-> {u}, sent |-> went]
        /\ since' = {Current} /\ pending' = pending \cup {u}
        /\ sent' \in Seq(Request) /\ refused' \in BOOLEAN
    BY <1>0, <2>0 DEF Registers, Extended, Joined, HandsOver
  <2>2. asked' \in AskedStates
    BY <2>1 DEF AskedStates
  <2> QED BY <1>0, <2>1, <2>2, ConfigTyped
<1>3. CASE SlotTerminate
  BY <1>0, <1>3 DEF SlotTerminate, Release
<1>4. ASSUME NEW u \in Token, Complete(u) PROVE Typed
  BY <1>0, <1>4 DEF Complete, Release
<1>5. CASE Monitor
  <2>1. PICK given \in BOOLEAN, went \in BOOLEAN, addresses \in Seq(Request) :
          Hands(given, went, addresses)
    BY <1>5, MonitorEffect
  <2>2. sent' \in Seq(Request) /\ refused' \in BOOLEAN
    BY <1>0, <2>1 DEF Hands, Extended, Joined, HandsOver
  <2> QED BY <1>0, <2>1, <2>2 DEF Hands
<1>6. CASE OtherSignal \/ UNCHANGED allVars
  BY <1>0, <1>6 DEF OtherSignal, regVars, allVars
<1>7. CASE NetworkChanges
  <2>1. UNCHANGED <<slotIms, pending, sent, answers, used, refused, asked>>
    BY <1>7 DEF NetworkChanges
  <2>2. since' \subseteq Address
    <3>1. Current' \in Address
      <4>1. TypeOK'
        BY <1>1
      <4> QED BY <4>1 DEF TypeOK, Current
    <3> QED BY <1>0, <1>7, <3>1 DEF NetworkChanges, Current
  <2>3. changes' \in 0 .. MaxChanges
    BY <1>0, <1>7, BoundAssumption DEF NetworkChanges
  <2> QED BY <1>0, <2>1, <2>2, <2>3
<1>8. CASE ModemTakes
  BY <1>0, <1>8, ModemTakesEffect
<1> QED BY <1>2, <1>3, <1>4, <1>5, <1>6, <1>7, <1>8 DEF WifiNext

LEMMA WifiInvStep ==
  ASSUME WifiInv, [WifiNext]_allVars PROVE WifiInv'
<1> DEFINE Others == FreedWithIms' /\ LastHandedOver' /\ NothingSent' /\ Recent' /\ AddressFirst'
<1>1. IInv' /\ WifiTypeOK'
  BY MonitorInv, WifiTypeStep DEF WifiInv
<1> SUFFICES Others
  BY <1>1 DEF WifiInv
<1>2. ASSUME NEW value \in BOOLEAN, NEW u \in Token, SetRegistration(value, u) PROVE Others
  BY <1>2, RegistrationStep
<1>3. CASE SlotTerminate
  <2>1. /\ Release(FALSE, pending) /\ Kept(slotIms, pending)
        /\ UNCHANGED <<sent, answers, used, refused, asked, since>>
    BY <1>3 DEF SlotTerminate, Kept
  <2> QED BY <2>1, ReleaseStep
<1>4. ASSUME NEW u \in Token, Complete(u) PROVE Others
  <2>1. /\ Release(slotIms, pending \ {u}) /\ Kept(slotIms, pending)
        /\ UNCHANGED <<sent, used, refused, asked, since>> /\ answers' \subseteq answers
    BY <1>4 DEF Complete, Kept
  <2>2. slotIms \in BOOLEAN
    BY DEF WifiInv, WifiTypeOK
  <2> QED BY <2>1, <2>2, ReleaseStep
<1>5. CASE Monitor
  BY <1>5, MonitorHandles
<1>6. CASE OtherSignal
  BY <1>6, OtherSignalStep
<1>7. CASE NetworkChanges
  BY <1>7, NetworkChangesStep
<1>8. CASE ModemTakes
  BY <1>8, ModemTakesStep
<1>9. CASE UNCHANGED allVars
  <2>1. UNCHANGED <<nm, signals, info, modem, inits, slotIms, pending, sent, answers, used, refused,
                    asked, since>>
    BY <1>9 DEF allVars, nmVars, regVars
  <2> QED
    BY <2>1 DEF WifiInv, FreedWithIms, LastHandedOver, NothingSent, Recent, AddressFirst, Kept,
                IsAddress, Current, Effective, Told
<1> QED BY <1>2, <1>3, <1>4, <1>5, <1>6, <1>7, <1>8, <1>9 DEF WifiNext

LEMMA WifiInvAlways == WifiSpec => []WifiInv
BY WifiInitSound, WifiInvStep, PTL DEF WifiSpec

(* Requests, references and what the modem uses keep their types. *)
THEOREM WifiTypeCorrect == WifiSpec => []WifiTypeOK
<1>1. WifiInv => WifiTypeOK
  BY DEF WifiInv
<1> QED BY <1>1, WifiInvAlways, PTL

(* The steps of a registration keep the monitor within its specification,  *)
(* so what is proved of NmDbus holds of the monitor that MtkIms contains.  *)
THEOREM MonitorIsNmDbus == WifiSpec => Spec
<1>1. WifiInit => Init
  BY DEF WifiInit
<1>2. [WifiNext]_allVars => [Next]_vars
  BY MonitorStep
<1> QED BY <1>1, <1>2, PTL DEF WifiSpec, Spec

(* nm_info_free does not run while slot or requests keep the MtkIms, and   *)
(* what it leaves behind is reached only after a second nm_initialize.     *)
THEOREM MonitorFreedLastAlways == WifiSpec => []MonitorFreedLast
<1>1. WifiInv => MonitorFreedLast
  <2> SUFFICES ASSUME WifiInv, broken PROVE ~slotIms /\ pending = {} /\ inits > 1
    BY DEF MonitorFreedLast
  <2>1. info.freed /\ Devices \cup Configs # {}
    BY DEF WifiInv, IInv, PointersInv
  <2>2. ~slotIms /\ pending = {}
    BY <2>1 DEF WifiInv, FreedWithIms, Kept
  <2>3. inits > 1
    BY FreedMeansReinit DEF WifiInv
  <2> QED BY <2>2, <2>3
<1> QED BY <1>1, WifiInvAlways, PTL

(* When signals and requests have arrived, NMInfo follows a configuration  *)
(* and the last setWifiIpAddress was not refused, the modem uses the       *)
(* address of the device, however many were refused before.                *)
THEOREM FollowsDeviceAlways == WifiSpec => []FollowsDevice
<1>1. WifiInv => FollowsDevice
  <2> SUFFICES ASSUME WifiInv, sent = <<>>, signals = <<>>, info.config # NoProxy, ~refused
               PROVE  used.address = {Current}
    BY DEF FollowsDevice
  <2>1. Len(sent) = 0 /\ Len(signals) = 0
    <3>1. Len(<<>>) = 0
      OBVIOUS
    <3> QED BY <3>1
  <2>2. used.address = modem
    BY <2>1 DEF WifiInv, LastHandedOver
  <2>3. modem = {Current}
    BY <2>1 DEF WifiInv, IInv, SignalsInv, Follows, Current
  <2> QED BY <2>2, <2>3
<1> QED BY <1>1, WifiInvAlways, PTL

(* The answer to the first registration finds no address in use but one    *)
(* that the device had since it was asked for, and finds one if            *)
(* nm_initialize found one whose setWifiIpAddress was not refused.         *)
THEOREM FreshAlways == WifiSpec => FreshWhenCompleted
<1>1. ASSUME WifiInv, [WifiNext]_allVars,
             NEW u \in pending \ pending', inits = 1
      PROVE  used.address \subseteq since /\ (asked.sent => used.address # {})
  <2>1. Complete(u)
    <3>1. pending' # pending
      OBVIOUS
    <3>2. PICK v \in Token : Complete(v)
      BY <1>1, <3>1 DEF WifiNext, SetRegistration, SlotTerminate, Release, Monitor, OtherSignal,
                        NetworkChanges, ModemTakes, regVars, allVars
    <3> QED BY <3>2 DEF Complete, Release
  <2>2. u \in answers
    BY <2>1 DEF Complete
  <2> QED BY <1>1, <2>2 DEF WifiInv, AddressFirst, Recent
<1>2. WifiInv /\ [WifiNext]_allVars =>
        [\A u \in pending \ pending' :
           asked.ud = {u} /\ inits = 1 =>
             used.address \subseteq since /\ (asked.sent => used.address # {})]_allVars
  BY <1>1
<1> QED BY <1>2, WifiInvAlways, PTL DEF WifiSpec, FreshWhenCompleted

(* The proxies that a second set_registration makes the monitor forget     *)
(* outlive the registration, the slot and the MtkIms.                      *)
THEOREM RegistrationLeaksForGood == WifiSpec => [][Forgotten \subseteq Forgotten']_vars
  BY MonitorIsNmDbus, ForgottenForGood, PTL
=============================================================================
