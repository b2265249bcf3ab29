---------------------------- MODULE NmDbusProofs ----------------------------
(***************************************************************************)
(* Theorems about NmDbus, for any proxies, configurations, addresses and   *)
(* bounds.                                                                 *)
(***************************************************************************)
EXTENDS NmDbus, FiniteSetTheorems, TLAPS

(***************************************************************************)
(* The inductive invariant.                                                *)
(***************************************************************************)
(* A signal that is on its way to proxies. *)
Effective(i) == signals[i].to # {}

(* Signals go to proxies of the object that emitted them. *)
Addressed ==
  \A i \in 1 .. Len(signals), p \in Proxy : p \in signals[i].to =>
    IF signals[i].obj = "device" THEN proxies[p].kind = "device"
    ELSE proxies[p].kind = "config" /\ proxies[p].path = signals[i].obj

(* A proxy that sees a signal sees every later one of the same object. *)
NoneMissed ==
  \A i, j \in 1 .. Len(signals) :
    i < j /\ signals[i].obj = signals[j].obj => signals[i].to \subseteq signals[j].to

(* The last signal of each object tells how it is; signals of an object    *)
(* that is no longer in use are followed by one of the device.             *)
LastIsTrue ==
  \A i \in 1 .. Len(signals) :
    /\ (\A j \in 1 .. Len(signals) : i < j => signals[j].obj # signals[i].obj) =>
         signals[i].value = (IF signals[i].obj = "device" THEN nm.path
                             ELSE nm.address[signals[i].obj])
    /\ (\A j \in 1 .. Len(signals) : i < j => signals[j].obj # "device") =>
         signals[i].obj \in {"device", nm.path}

(* While there is an NMInfo a device that was found is not released. *)
DevicesStay ==
  ~info.freed =>
    /\ Configs # {} => Devices # {}
    /\ \A i, j \in 1 .. Len(signals) :
         i < j /\ signals[j].obj = "device" /\ signals[i].obj # "device" /\ Effective(i) =>
           Effective(j)

(* NMInfo follows the device, or will. *)
Follows ==
  info.config # NoProxy =>
    /\ ~info.freed /\ info.config \in Configs
    /\ proxies[info.config].path # nm.path =>
         \E i \in 1 .. Len(signals) : signals[i].obj = "device" /\ Effective(i)
    /\ (\A i \in 1 .. Len(signals) : ~Effective(i)) => modem = {nm.address[nm.path]}

SignalsInv == Addressed /\ NoneMissed /\ LastIsTrue /\ DevicesStay /\ Follows

(* Each nm_initialize leaves one proxy of a kind at most, and none besides *)
(* the one that NMInfo has.                                                *)
LeftBehind(kind, pointer) ==
  /\ Cardinality(kind) <= inits
  /\ pointer = NoProxy /\ inits > 0 => Cardinality(kind) <= inits - 1

PointersInv ==
  /\ info.iface \in Devices \cup {NoProxy} /\ info.config \in Configs \cup {NoProxy}
  /\ info.freed \/ ~info.bus => info.iface = NoProxy /\ info.config = NoProxy
  /\ LeftBehind(Devices, info.iface) /\ LeftBehind(Configs, info.config)
  /\ broken => info.freed /\ Devices \cup Configs # {}

IInv == TypeOK /\ SignalsInv /\ PointersInv

ProxyState == {NotProxy, DeviceProxy} \cup ConfigProxies

(***************************************************************************)
(* What the steps do to the signals and to the proxies.                    *)
(***************************************************************************)
LEMMA Kinds ==
  \A x \in ProxyState :
    /\ x.kind \in {"none", "device", "config"}
    /\ x.kind = "none" <=> x = NotProxy
    /\ x.kind = "config" <=> x \in ConfigProxies
    /\ x.kind = "device" <=> x = DeviceProxy
  BY DEF ProxyState, NotProxy, DeviceProxy, ConfigProxies

LEMMA SignalTyped ==
  ASSUME TypeOK, NEW i \in 1 .. Len(signals)
  PROVE  /\ signals[i] \in Signal
         /\ signals[i].to \subseteq Proxy
         /\ signals[i].obj \in Path \cup {"device"}
         /\ signals[i].obj = "device" => signals[i].value \in Path
         /\ signals[i].obj # "device" => signals[i].value \in Address
<1>1. signals[i] \in Signal
  BY DEF TypeOK
<1> QED BY <1>1, ConstantAssumption DEF Signal

LEMMA EmitShape ==
  ASSUME TypeOK, NEW obj, NEW value, NEW to, Emit(obj, value, to)
  PROVE  /\ Len(signals) \in Nat /\ Len(signals') = Len(signals) + 1
         /\ \A i \in 1 .. Len(signals) : signals'[i] = signals[i]
         /\ signals'[Len(signals) + 1].obj = obj
         /\ signals'[Len(signals) + 1].value = value
         /\ signals'[Len(signals) + 1].to = to
  BY DEF Emit, TypeOK

(* The first signal is taken; what was on its way to the proxies in ps is  *)
(* dropped.                                                                *)
Taken(ps) ==
  /\ signals # <<>>
  /\ Len(signals) \in Nat \ {0} /\ Head(signals) = signals[1]
  /\ Len(signals') = Len(signals) - 1
  /\ \A i \in 1 .. Len(signals') :
       /\ i + 1 \in 1 .. Len(signals)
       /\ signals'[i].obj = signals[i + 1].obj
       /\ signals'[i].value = signals[i + 1].value
       /\ signals'[i].to = signals[i + 1].to \ ps

LEMMA TakenTyped ==
  ASSUME TypeOK, signals # <<>>
  PROVE  /\ Len(signals) \in Nat \ {0} /\ Head(signals) = signals[1] /\ Head(signals) \in Signal
         /\ Tail(signals) \in Seq(Signal) /\ Len(Tail(signals)) = Len(signals) - 1
         /\ \A i \in 1 .. Len(Tail(signals)) :
              i + 1 \in 1 .. Len(signals) /\ Tail(signals)[i] = signals[i + 1]
  BY DEF TypeOK

LEMMA UndeliveredShape ==
  ASSUME NEW sigs \in Seq(Signal), NEW ps
  PROVE  /\ Undelivered(sigs, ps) \in Seq(Signal)
         /\ Len(Undelivered(sigs, ps)) = Len(sigs)
         /\ \A i \in 1 .. Len(sigs) :
              /\ Undelivered(sigs, ps)[i].obj = sigs[i].obj
              /\ Undelivered(sigs, ps)[i].value = sigs[i].value
              /\ Undelivered(sigs, ps)[i].to = sigs[i].to \ ps
<1> DEFINE Cut(x) == [x EXCEPT !.to = @ \ ps]
<1>1. DOMAIN sigs = 1 .. Len(sigs) /\ Len(sigs) \in Nat /\ \A i \in 1 .. Len(sigs) : sigs[i] \in Signal
  OBVIOUS
<1>2. ASSUME NEW x \in Signal
      PROVE  Cut(x) \in Signal /\ Cut(x).obj = x.obj /\ Cut(x).value = x.value
             /\ Cut(x).to = x.to \ ps
  BY DEF Signal
<1>3. Undelivered(sigs, ps) = [i \in 1 .. Len(sigs) |-> Cut(sigs[i])]
  BY <1>1 DEF Undelivered
<1> HIDE DEF Cut
<1>4. DOMAIN Undelivered(sigs, ps) = 1 .. Len(sigs)
      /\ \A i \in 1 .. Len(sigs) : Undelivered(sigs, ps)[i] = Cut(sigs[i])
  BY <1>3
<1>5. Undelivered(sigs, ps) \in Seq(Signal)
  BY <1>1, <1>2, <1>3
<1>6. Len(Undelivered(sigs, ps)) = Len(sigs)
  BY <1>1, <1>4, <1>5
<1> QED BY <1>1, <1>2, <1>4, <1>5, <1>6

LEMMA TakenShape ==
  ASSUME TypeOK, signals # <<>>
  PROVE  /\ signals' = Tail(signals) => Taken({}) /\ signals' \in Seq(Signal)
         /\ \A ps : signals' = Undelivered(Tail(signals), ps) =>
              Taken(ps) /\ signals' \in Seq(Signal)
<1>1. ASSUME signals' = Tail(signals) PROVE Taken({}) /\ signals' \in Seq(Signal)
  BY <1>1, TakenTyped DEF Taken
<1>2. ASSUME NEW ps, signals' = Undelivered(Tail(signals), ps)
      PROVE  Taken(ps) /\ signals' \in Seq(Signal)
  <2>1. Tail(signals) \in Seq(Signal) /\ Len(signals) \in Nat \ {0} /\ Head(signals) = signals[1]
        /\ Len(Tail(signals)) = Len(signals) - 1
    BY TakenTyped
  <2>2. signals' \in Seq(Signal) /\ Len(signals') = Len(signals) - 1
    BY <1>2, <2>1, UndeliveredShape
  <2>3. ASSUME NEW i \in 1 .. Len(signals')
        PROVE  /\ i + 1 \in 1 .. Len(signals)
               /\ signals'[i].obj = signals[i + 1].obj
               /\ signals'[i].value = signals[i + 1].value
               /\ signals'[i].to = signals[i + 1].to \ ps
    <3>1. i \in 1 .. Len(Tail(signals)) /\ Tail(signals)[i] = signals[i + 1]
          /\ i + 1 \in 1 .. Len(signals)
      BY <2>1, <2>2, TakenTyped
    <3> DEFINE T == Tail(signals)
    <3>2. T \in Seq(Signal) /\ signals' = Undelivered(T, ps)
      BY <1>2, <2>1
    <3> HIDE DEF T
    <3>3. \A k \in 1 .. Len(T) : /\ signals'[k].obj = T[k].obj
                               /\ signals'[k].value = T[k].value
                               /\ signals'[k].to = T[k].to \ ps
      BY <3>2, UndeliveredShape
    <3> QED BY <3>1, <3>3 DEF T
  <2> QED BY <2>1, <2>2, <2>3 DEF Taken
<1> QED BY <1>1, <1>2

(* Taking the first signal keeps what relates the signals to each other    *)
(* and to NetworkManager.                                                  *)
LEMMA TakenKeeps ==
  ASSUME TypeOK, NoneMissed, LastIsTrue, NEW ps, Taken(ps), nm' = nm
  PROVE  NoneMissed' /\ LastIsTrue'
<1>1. NoneMissed'
  <2>1. SUFFICES ASSUME NEW i \in 1 .. Len(signals'), NEW j \in 1 .. Len(signals'),
                        i < j, signals'[i].obj = signals'[j].obj
                 PROVE  signals'[i].to \subseteq signals'[j].to
    BY DEF NoneMissed
  <2>2. i + 1 \in 1 .. Len(signals) /\ j + 1 \in 1 .. Len(signals) /\ i + 1 < j + 1
    BY <2>1 DEF Taken
  <2>3. signals[i + 1].to \subseteq signals[j + 1].to
    BY <2>1, <2>2 DEF Taken, NoneMissed
  <2> QED BY <2>3 DEF Taken
<1>2. LastIsTrue'
  <2>1. SUFFICES ASSUME NEW i \in 1 .. Len(signals')
                 PROVE  /\ (\A j \in 1 .. Len(signals') : i < j => signals'[j].obj # signals'[i].obj) =>
                             signals'[i].value = (IF signals'[i].obj = "device" THEN nm.path
                                                  ELSE nm.address[signals'[i].obj])
                        /\ (\A j \in 1 .. Len(signals') : i < j => signals'[j].obj # "device") =>
                             signals'[i].obj \in {"device", nm.path}
    BY DEF LastIsTrue, Taken
  <2>2. i + 1 \in 1 .. Len(signals) /\ signals'[i].obj = signals[i + 1].obj
        /\ signals'[i].value = signals[i + 1].value
    BY DEF Taken
  <2>3. \A k \in 1 .. Len(signals) : i + 1 < k =>
          /\ k - 1 \in 1 .. Len(signals') /\ i < k - 1
          /\ signals'[k - 1].obj = signals[k].obj
    <3>1. SUFFICES ASSUME NEW k \in 1 .. Len(signals), i + 1 < k
                   PROVE  /\ k - 1 \in 1 .. Len(signals') /\ i < k - 1
                          /\ signals'[k - 1].obj = signals[k].obj
      OBVIOUS
    <3>2. k - 1 \in 1 .. Len(signals') /\ (k - 1) + 1 = k
      BY <3>1 DEF Taken
    <3> QED BY <3>1, <3>2 DEF Taken
  <2>4. ASSUME \A j \in 1 .. Len(signals') : i < j => signals'[j].obj # signals'[i].obj
        PROVE  signals'[i].value = (IF signals'[i].obj = "device" THEN nm.path
                                    ELSE nm.address[signals'[i].obj])
    <3>1. \A k \in 1 .. Len(signals) : i + 1 < k => signals[k].obj # signals[i + 1].obj
      BY <2>2, <2>3, <2>4
    <3> QED BY <2>2, <3>1 DEF LastIsTrue
  <2>5. ASSUME \A j \in 1 .. Len(signals') : i < j => signals'[j].obj # "device"
        PROVE  signals'[i].obj \in {"device", nm.path}
    <3>1. \A k \in 1 .. Len(signals) : i + 1 < k => signals[k].obj # "device"
      BY <2>3, <2>5
    <3> QED BY <2>2, <3>1 DEF LastIsTrue
  <2> QED BY <2>4, <2>5
<1> QED BY <1>1, <1>2

(* So it does for who sees them, if the other proxies stay what they are.  *)
LEMMA TakenAddressed ==
  ASSUME TypeOK, Addressed, NEW ps, Taken(ps),
         \A p \in Proxy : p \notin ps /\ proxies[p] # NotProxy =>
           proxies'[p].kind = proxies[p].kind
           /\ (proxies[p].kind = "config" => proxies'[p].path = proxies[p].path)
  PROVE  Addressed'
<1>1. SUFFICES ASSUME NEW i \in 1 .. Len(signals'), NEW p \in Proxy, p \in signals'[i].to
               PROVE  IF signals'[i].obj = "device" THEN proxies'[p].kind = "device"
                      ELSE proxies'[p].kind = "config" /\ proxies'[p].path = signals'[i].obj
  BY DEF Addressed
<1>2. i + 1 \in 1 .. Len(signals) /\ p \in signals[i + 1].to /\ p \notin ps
      /\ signals'[i].obj = signals[i + 1].obj
  BY <1>1 DEF Taken
<1>3. IF signals[i + 1].obj = "device" THEN proxies[p].kind = "device"
      ELSE proxies[p].kind = "config" /\ proxies[p].path = signals[i + 1].obj
  BY <1>2 DEF Addressed
<1>4. proxies[p] # NotProxy
  BY <1>3 DEF NotProxy
<1> QED BY <1>2, <1>3, <1>4

(* And for the devices, if none is released. *)
LEMMA TakenDevices ==
  ASSUME TypeOK, Addressed, DevicesStay, NEW ps, Taken(ps), ~info.freed,
         ps \cap Devices = {}, Devices' = Devices, Configs' # {} => Devices # {}
  PROVE  DevicesStay'
<1>1. SUFFICES ASSUME NEW i \in 1 .. Len(signals'), NEW j \in 1 .. Len(signals'),
                      i < j, signals'[j].obj = "device", signals'[i].obj # "device",
                      signals'[i].to # {}
               PROVE  signals'[j].to # {}
  BY DEF DevicesStay, Effective
<1>2. i + 1 \in 1 .. Len(signals) /\ j + 1 \in 1 .. Len(signals) /\ i + 1 < j + 1
      /\ signals[j + 1].obj = "device" /\ signals[i + 1].obj # "device"
      /\ signals[i + 1].to # {} /\ signals'[j].to = signals[j + 1].to \ ps
  BY <1>1 DEF Taken
<1>3. signals[j + 1].to # {}
  BY <1>2 DEF DevicesStay, Effective
<1>4. \A p \in signals[j + 1].to : p \in Devices
  BY <1>2, SignalTyped DEF Addressed, Devices
<1> QED BY <1>2, <1>3, <1>4

(***************************************************************************)
(* NetworkManager's steps.                                                 *)
(***************************************************************************)
LEMMA EmitAddressed ==
  ASSUME TypeOK, Addressed, NEW obj, NEW value, NEW to, Emit(obj, value, to),
         to = (IF obj = "device" THEN Devices ELSE {p \in Configs : proxies[p].path = obj}),
         proxies' = proxies
  PROVE  Addressed' /\ (NoneMissed => NoneMissed')
<1>1. /\ Len(signals) \in Nat /\ Len(signals') = Len(signals) + 1
      /\ \A i \in 1 .. Len(signals) : signals'[i] = signals[i]
      /\ signals'[Len(signals) + 1].obj = obj
      /\ signals'[Len(signals) + 1].to = to
  BY EmitShape
<1>2. \A i \in 1 .. Len(signals') : i \in 1 .. Len(signals) \/ i = Len(signals) + 1
  BY <1>1
<1>3. Addressed'
  BY <1>1, <1>2 DEF Addressed, Devices, Configs
<1>4. ASSUME NoneMissed PROVE NoneMissed'
  <2>1. SUFFICES ASSUME NEW i \in 1 .. Len(signals'), NEW j \in 1 .. Len(signals'),
                        i < j, signals'[i].obj = signals'[j].obj
                 PROVE  signals'[i].to \subseteq signals'[j].to
    BY DEF NoneMissed
  <2>2. i \in 1 .. Len(signals)
    BY <1>1, <1>2, <2>1
  <2>3. CASE j \in 1 .. Len(signals)
    BY <1>1, <1>4, <2>1, <2>2, <2>3 DEF NoneMissed
  <2>4. CASE j = Len(signals) + 1
    <3>1. signals[i].obj = obj /\ signals'[j].to = to /\ signals'[i].to = signals[i].to
      BY <1>1, <2>1, <2>2, <2>4
    <3>2. \A p \in signals[i].to : p \in Proxy
      BY <2>2, SignalTyped
    <3>3. \A p \in signals[i].to :
            IF obj = "device" THEN proxies[p].kind = "device"
            ELSE proxies[p].kind = "config" /\ proxies[p].path = obj
      BY <2>2, <3>1, <3>2 DEF Addressed
    <3>4. CASE obj = "device"
      BY <3>1, <3>2, <3>3, <3>4 DEF Devices
    <3>5. CASE obj # "device"
      BY <3>1, <3>2, <3>3, <3>5 DEF Configs
    <3> QED BY <3>4, <3>5
  <2> QED BY <1>2, <2>3, <2>4
<1> QED BY <1>3, <1>4

LEMMA SwitchConfigStep ==
  ASSUME TypeOK, SignalsInv, PointersInv, NEW path \in Path, SwitchConfig(path)
  PROVE  SignalsInv'
<1> DEFINE n == Len(signals)
<1>1. /\ n \in Nat /\ Len(signals') = n + 1
      /\ \A i \in 1 .. n : signals'[i] = signals[i]
      /\ signals'[n + 1].obj = "device" /\ signals'[n + 1].value = path
      /\ signals'[n + 1].to = Devices
  BY EmitShape DEF SwitchConfig
<1>2. \A i \in 1 .. Len(signals') : i \in 1 .. n \/ i = n + 1
  BY <1>1
<1>3. nm'.path = path /\ nm'.address = nm.address /\ proxies' = proxies /\ info' = info
      /\ Devices' = Devices /\ Configs' = Configs
  BY DEF SwitchConfig, TypeOK, Devices, Configs
<1> HIDE DEF n
<1>4. Addressed' /\ NoneMissed'
  BY EmitAddressed DEF SwitchConfig, SignalsInv
<1>5. LastIsTrue'
  <2>1. SUFFICES ASSUME NEW i \in 1 .. Len(signals')
                 PROVE  /\ (\A j \in 1 .. Len(signals') : i < j => signals'[j].obj # signals'[i].obj) =>
                             signals'[i].value = (IF signals'[i].obj = "device" THEN nm'.path
                                                  ELSE nm'.address[signals'[i].obj])
                        /\ (\A j \in 1 .. Len(signals') : i < j => signals'[j].obj # "device") =>
                             signals'[i].obj \in {"device", nm'.path}
    BY DEF LastIsTrue
  <2>2. CASE i = n + 1
    BY <1>1, <1>3, <2>2
  <2>3. CASE i \in 1 .. n
    <3>1. signals'[i] = signals[i] /\ n + 1 \in 1 .. Len(signals') /\ i < n + 1
          /\ \A j \in 1 .. n : j \in 1 .. Len(signals') /\ signals'[j] = signals[j]
      BY <1>1, <2>3
    <3>2. /\ (\A j \in 1 .. n : i < j => signals[j].obj # signals[i].obj) =>
               signals[i].value = (IF signals[i].obj = "device" THEN nm.path
                                   ELSE nm.address[signals[i].obj])
      BY <2>3 DEF LastIsTrue, SignalsInv, n
    <3>3. signals'[n + 1].obj = "device"
      BY <1>1
    <3> QED BY <1>3, <3>1, <3>2, <3>3
  <2> QED BY <1>2, <2>2, <2>3
<1>6. DevicesStay'
  <2>1. SUFFICES ASSUME ~info.freed
                 PROVE  /\ Configs # {} => Devices # {}
                        /\ \A i, j \in 1 .. Len(signals') :
                             i < j /\ signals'[j].obj = "device" /\ signals'[i].obj # "device"
                               /\ signals'[i].to # {} => signals'[j].to # {}
    BY <1>3 DEF DevicesStay, Effective
  <2>2. Configs # {} => Devices # {}
    BY <2>1 DEF SignalsInv, DevicesStay
  <2>3. ASSUME NEW i \in 1 .. n, signals[i].obj # "device", signals[i].to # {}
        PROVE  Devices # {}
    <3>1. PICK p \in signals[i].to : TRUE
      BY <2>3
    <3>2. p \in Configs
      BY <2>3, <3>1, SignalTyped DEF SignalsInv, Addressed, Configs, n
    <3> QED BY <2>2, <3>2
  <2>4. \A i, j \in 1 .. n : i < j /\ signals[j].obj = "device" /\ signals[i].obj # "device"
          /\ signals[i].to # {} => signals[j].to # {}
    BY <2>1 DEF SignalsInv, DevicesStay, Effective, n
  <2>5. ASSUME NEW i \in 1 .. Len(signals'), NEW j \in 1 .. Len(signals'), i < j,
               signals'[j].obj = "device", signals'[i].obj # "device", signals'[i].to # {}
        PROVE  signals'[j].to # {}
    <3>1. i \in 1 .. n
      BY <1>1, <1>2, <2>5
    <3>2. CASE j = n + 1
      BY <1>1, <2>3, <2>5, <3>1, <3>2
    <3>3. CASE j \in 1 .. n
      BY <1>1, <2>4, <2>5, <3>1, <3>3
    <3> QED BY <1>2, <3>2, <3>3
  <2> QED BY <2>2, <2>5
<1>7. Follows'
  <2>1. SUFFICES ASSUME info.config # NoProxy
                 PROVE  /\ ~info.freed /\ info.config \in Configs
                        /\ \E i \in 1 .. Len(signals') :
                             signals'[i].obj = "device" /\ signals'[i].to # {}
    BY <1>3 DEF Follows, Effective
  <2>2. ~info.freed /\ info.config \in Configs
    BY <2>1 DEF SignalsInv, Follows
  <2>3. signals'[n + 1].to # {} /\ n + 1 \in 1 .. Len(signals')
    BY <1>1, <2>2 DEF SignalsInv, DevicesStay
  <2> QED BY <1>1, <2>2, <2>3
<1> QED BY <1>4, <1>5, <1>6, <1>7 DEF SignalsInv

LEMMA ChangeAddressStep ==
  ASSUME TypeOK, SignalsInv, PointersInv, NEW a \in Address, ChangeAddress(a)
  PROVE  SignalsInv'
<1> DEFINE n == Len(signals)
           to == {p \in Configs : proxies[p].path = nm.path}
<1>1. /\ n \in Nat /\ Len(signals') = n + 1
      /\ \A i \in 1 .. n : signals'[i] = signals[i]
      /\ signals'[n + 1].obj = nm.path /\ signals'[n + 1].value = a
      /\ signals'[n + 1].to = to
  BY EmitShape DEF ChangeAddress
<1>2. \A i \in 1 .. Len(signals') : i \in 1 .. n \/ i = n + 1
  BY <1>1
<1>3. nm'.path = nm.path /\ proxies' = proxies /\ info' = info
      /\ Devices' = Devices /\ Configs' = Configs /\ modem' = modem
  BY DEF ChangeAddress, TypeOK, Devices, Configs
<1>4. nm.path \in Path /\ nm.path # "device"
      /\ nm'.address[nm.path] = a /\ \A x \in Path : x # nm.path => nm'.address[x] = nm.address[x]
  BY ConstantAssumption DEF ChangeAddress, TypeOK
<1> HIDE DEF n, to
<1>5. Addressed' /\ NoneMissed'
  BY <1>4, EmitAddressed DEF ChangeAddress, SignalsInv
<1>6. LastIsTrue'
  <2>1. SUFFICES ASSUME NEW i \in 1 .. Len(signals')
                 PROVE  /\ (\A j \in 1 .. Len(signals') : i < j => signals'[j].obj # signals'[i].obj) =>
                             signals'[i].value = (IF signals'[i].obj = "device" THEN nm'.path
                                                  ELSE nm'.address[signals'[i].obj])
                        /\ (\A j \in 1 .. Len(signals') : i < j => signals'[j].obj # "device") =>
                             signals'[i].obj \in {"device", nm'.path}
    BY DEF LastIsTrue
  <2>2. CASE i = n + 1
    BY <1>1, <1>3, <1>4, <2>2
  <2>3. CASE i \in 1 .. n
    <3>1. signals'[i] = signals[i] /\ n + 1 \in 1 .. Len(signals') /\ i < n + 1
          /\ \A j \in 1 .. n : j \in 1 .. Len(signals') /\ signals'[j] = signals[j]
      BY <1>1, <2>3
    <3>2. /\ (\A j \in 1 .. n : i < j => signals[j].obj # signals[i].obj) =>
               signals[i].value = (IF signals[i].obj = "device" THEN nm.path
                                   ELSE nm.address[signals[i].obj])
          /\ (\A j \in 1 .. n : i < j => signals[j].obj # "device") =>
               signals[i].obj \in {"device", nm.path}
      BY <2>3 DEF LastIsTrue, SignalsInv, n
    <3>3. signals'[n + 1].obj = nm.path /\ signals[i].obj \in Path \cup {"device"}
      BY <1>1, <2>3, SignalTyped DEF n
    <3> QED BY <1>3, <1>4, <3>1, <3>2, <3>3
  <2> QED BY <1>2, <2>2, <2>3
<1>7. DevicesStay'
  <2>1. SUFFICES ASSUME ~info.freed,
                        NEW i \in 1 .. Len(signals'), NEW j \in 1 .. Len(signals'), i < j,
                        signals'[j].obj = "device", signals'[i].obj # "device", signals'[i].to # {}
                 PROVE  signals'[j].to # {}
    BY <1>3 DEF SignalsInv, DevicesStay, Effective
  <2>2. i \in 1 .. n /\ j \in 1 .. n
    BY <1>1, <1>2, <1>4, <2>1
  <2> QED BY <1>1, <2>1, <2>2 DEF SignalsInv, DevicesStay, Effective, n
<1>8. Follows'
  <2>1. SUFFICES ASSUME info.config # NoProxy
                 PROVE  /\ ~info.freed /\ info.config \in Configs
                        /\ proxies[info.config].path # nm.path =>
                             \E i \in 1 .. Len(signals') :
                               signals'[i].obj = "device" /\ signals'[i].to # {}
                        /\ (\A i \in 1 .. Len(signals') : signals'[i].to = {}) =>
                             modem = {nm'.address[nm.path]}
    BY <1>3 DEF Follows, Effective
  <2>2. /\ ~info.freed /\ info.config \in Configs
        /\ proxies[info.config].path # nm.path =>
             \E i \in 1 .. n : signals[i].obj = "device" /\ signals[i].to # {}
    BY <2>1 DEF SignalsInv, Follows, Effective, n
  <2>3. CASE proxies[info.config].path # nm.path
    <3>1. PICK i \in 1 .. n : signals[i].obj = "device" /\ signals[i].to # {}
      BY <2>2, <2>3
    <3>2. i \in 1 .. Len(signals') /\ signals'[i] = signals[i]
      BY <1>1
    <3> QED BY <2>2, <3>1, <3>2
  <2>4. CASE proxies[info.config].path = nm.path
    <3>1. info.config \in to /\ n + 1 \in 1 .. Len(signals')
      BY <1>1, <2>2, <2>4 DEF to
    <3> QED BY <1>1, <2>2, <2>4, <3>1
  <2> QED BY <2>3, <2>4
<1> QED BY <1>5, <1>6, <1>7, <1>8 DEF SignalsInv

(***************************************************************************)
(* The steps of nm_dbus.c.                                                 *)
(***************************************************************************)
(* What setup_ip4config_proxy makes of the proxies in base. *)
LEMMA SetupEffect ==
  ASSUME TypeOK, NEW base \in [Proxy -> ProxyState], NEW path \in Path, NEW n,
         NEW d \in Proxy \cup {NoProxy}, SetupIp4ConfigProxy(base, path, n, d)
  PROVE  /\ proxies' \in [Proxy -> ProxyState]
         /\ info' \in [iface : Proxy \cup {NoProxy}, config : Proxy \cup {NoProxy}, bus : BOOLEAN, freed : BOOLEAN]
         /\ info'.iface = d /\ info'.freed = info.freed /\ info'.bus
         /\ modem' \in {{}} \cup {{a} : a \in Address}
         /\ info'.config = NoProxy => proxies' = base
         /\ info'.config # NoProxy =>
              /\ info'.config \in Proxy /\ base[info'.config] = NotProxy
              /\ proxies'[info'.config].kind = "config" /\ proxies'[info'.config].path = path
              /\ \A p \in Proxy : p # info'.config => proxies'[p] = base[p]
              /\ modem' = {nm.address[path]}
<1>1. nm.address[path] \in Address
  BY DEF TypeOK
<1>2. CASE \E q \in {q \in Proxy : base[q] = NotProxy} :
             /\ proxies' = [base EXCEPT
                              ![q] = [kind |-> "config", path |-> path, cache |-> nm.address[path]]]
             /\ info' = [info EXCEPT !.iface = d, !.config = q, !.bus = TRUE]
             /\ modem' = {nm.address[path]}
  <2>1. PICK q \in Proxy : /\ base[q] = NotProxy
                           /\ proxies' = [base EXCEPT ![q] =
                                [kind |-> "config", path |-> path, cache |-> nm.address[path]]]
                           /\ info' = [info EXCEPT !.iface = d, !.config = q, !.bus = TRUE]
                           /\ modem' = {nm.address[path]}
    BY <1>2
  <2>2. [kind |-> "config", path |-> path, cache |-> nm.address[path]] \in ConfigProxies
    BY <1>1 DEF ConfigProxies
  <2>3. info' \in [iface : Proxy \cup {NoProxy}, config : Proxy \cup {NoProxy}, bus : BOOLEAN, freed : BOOLEAN]
        /\ info'.iface = d /\ info'.freed = info.freed /\ info'.bus /\ info'.config = q /\ q # NoProxy
    BY <2>1, ConstantAssumption DEF TypeOK
  <2>4. proxies' \in [Proxy -> ProxyState]
    BY <2>1, <2>2 DEF ProxyState
  <2>5. proxies'[q] = [kind |-> "config", path |-> path, cache |-> nm.address[path]]
        /\ \A p \in Proxy : p # q => proxies'[p] = base[p]
    BY <2>1
  <2>6. proxies'[q].kind = "config" /\ proxies'[q].path = path
    BY <2>5
  <2> QED BY <1>1, <2>1, <2>3, <2>4, <2>5, <2>6
<1>3. CASE /\ proxies' = base
           /\ info' = [info EXCEPT !.iface = d, !.config = NoProxy, !.bus = TRUE]
           /\ modem' \in {modem} \cup (IF n > 1 THEN {{nm.address[path]}} ELSE {})
  <2>1. info' \in [iface : Proxy \cup {NoProxy}, config : Proxy \cup {NoProxy}, bus : BOOLEAN, freed : BOOLEAN]
        /\ info'.iface = d /\ info'.freed = info.freed /\ info'.bus /\ info'.config = NoProxy
    BY <1>3 DEF TypeOK
  <2>2. modem' = modem \/ modem' = {nm.address[path]}
    BY <1>3
  <2> QED BY <1>1, <1>3, <2>1, <2>2 DEF TypeOK
<1> QED BY <1>2, <1>3 DEF SetupIp4ConfigProxy

LEMMA ProxyTyped ==
  ASSUME TypeOK
  PROVE  /\ proxies \in [Proxy -> ProxyState]
         /\ \A ps : /\ Without(ps) \in [Proxy -> ProxyState]
                    /\ \A p \in Proxy : Without(ps)[p] = IF p \in ps THEN NotProxy ELSE proxies[p]
         /\ NotProxy.kind = "none" /\ DeviceProxy.kind = "device"
         /\ DeviceProxy \in ProxyState
  BY DEF TypeOK, ProxyState, Without, NotProxy, DeviceProxy

LEMMA InitializeCounts ==
  ASSUME Initialize
  PROVE  ~broken /\ ~info.freed /\ inits < MaxInits /\ inits' = inits + 1
         /\ UNCHANGED <<nm, signals, broken>>
  BY Zenon DEF Initialize

(* nm_initialize: a device more, and perhaps a configuration, or nothing.  *)
LEMMA InitializeEffect ==
  ASSUME TypeOK, Initialize
  PROVE  \/ \E d \in Proxy :
              /\ info'.bus
              /\ proxies[d] = NotProxy /\ info'.iface = d /\ proxies'[d].kind = "device"
              /\ info'.config # NoProxy =>
                   /\ info'.config \in Proxy /\ info'.config # d
                   /\ proxies[info'.config] = NotProxy
                   /\ proxies'[info'.config].kind = "config"
                   /\ proxies'[info'.config].path = nm.path
                   /\ modem' = {nm.address[nm.path]}
              /\ \A p \in Proxy : p # d /\ p # info'.config => proxies'[p] = proxies[p]
              /\ proxies' \in [Proxy -> ProxyState]
         \/ info'.iface = NoProxy /\ info'.config = NoProxy /\ proxies' = proxies
<1>1. CASE \E d \in Proxy : /\ proxies[d] = NotProxy
                            /\ SetupIp4ConfigProxy([proxies EXCEPT ![d] = DeviceProxy],
                                                   nm.path, 1, d)
  <2>1. PICK d \in Proxy : /\ proxies[d] = NotProxy
                           /\ SetupIp4ConfigProxy([proxies EXCEPT ![d] = DeviceProxy],
                                                  nm.path, 1, d)
    BY <1>1
  <2> DEFINE base == [proxies EXCEPT ![d] = DeviceProxy]
  <2>2. base \in [Proxy -> ProxyState] /\ nm.path \in Path
    BY ProxyTyped DEF TypeOK
  <2>3. base[d] = DeviceProxy /\ (\A p \in Proxy : p # d => base[p] = proxies[p])
        /\ DeviceProxy # NotProxy
    BY ProxyTyped
  <2>4. SetupIp4ConfigProxy(base, nm.path, 1, d)
    BY <2>1
  <2> HIDE DEF base
  <2>5. /\ proxies' \in [Proxy -> ProxyState] /\ info'.iface = d /\ info'.bus
        /\ info'.config = NoProxy => proxies' = base
        /\ info'.config # NoProxy =>
             /\ info'.config \in Proxy /\ base[info'.config] = NotProxy
             /\ proxies'[info'.config].kind = "config" /\ proxies'[info'.config].path = nm.path
             /\ \A p \in Proxy : p # info'.config => proxies'[p] = base[p]
             /\ modem' = {nm.address[nm.path]}
    BY <2>2, <2>4, SetupEffect
  <2> QED BY <2>1, <2>3, <2>5, ProxyTyped
<1>2. CASE \E bus \in BOOLEAN :
             /\ info' = [info EXCEPT !.iface = NoProxy, !.config = NoProxy, !.bus = bus]
             /\ UNCHANGED <<proxies, modem>>
  BY <1>2 DEF TypeOK
<1> QED BY <1>1, <1>2 DEF Initialize

(* A signal of the device: the configuration before goes, and perhaps a    *)
(* new one comes.                                                          *)
LEMMA DeviceSignalEffect ==
  ASSUME TypeOK, PointersInv, HandleDeviceSignal
  PROVE  /\ Taken(Replaced) /\ signals' \in Seq(Signal)
         /\ signals[1].obj = "device" /\ signals[1].to # {} /\ signals[1].value \in Path
         /\ ~info.freed /\ info'.freed = info.freed /\ info'.iface = info.iface /\ info'.bus
         /\ Replaced \cap Devices = {}
         /\ proxies' \in [Proxy -> ProxyState]
         /\ info'.config # NoProxy =>
              /\ info'.config \in Proxy
              /\ info'.config \in Replaced \/ proxies[info'.config] = NotProxy
              /\ proxies'[info'.config].kind = "config"
              /\ proxies'[info'.config].path = signals[1].value
              /\ modem' = {nm.address[signals[1].value]}
         /\ \A p \in Proxy : p # info'.config =>
              proxies'[p] = IF p \in Replaced THEN NotProxy ELSE proxies[p]
<1>1. Taken(Replaced) /\ signals' \in Seq(Signal)
  BY TakenShape DEF HandleDeviceSignal
<1>2. Head(signals) = signals[1] /\ 1 \in 1 .. Len(signals)
  BY <1>1 DEF Taken
<1>3. signals[1].obj = "device" /\ signals[1].to # {} /\ signals[1].value \in Path
  BY <1>2, SignalTyped DEF HandleDeviceSignal
<1>4. Replaced \cap Devices = {}
  BY DEF Replaced, PointersInv, Devices, Configs
<1> DEFINE base == Without(Replaced)
<1>5. base \in [Proxy -> ProxyState]
      /\ \A p \in Proxy : base[p] = IF p \in Replaced THEN NotProxy ELSE proxies[p]
  BY ProxyTyped
<1>6. SetupIp4ConfigProxy(base, signals[1].value, Cardinality(signals[1].to), info.iface)
  BY <1>2 DEF HandleDeviceSignal
<1>7. info.iface \in Proxy \cup {NoProxy}
  BY DEF TypeOK
<1> HIDE DEF base
<1>8. /\ proxies' \in [Proxy -> ProxyState]
      /\ info'.iface = info.iface /\ info'.freed = info.freed /\ info'.bus
      /\ info'.config = NoProxy => proxies' = base
      /\ info'.config # NoProxy =>
           /\ info'.config \in Proxy /\ base[info'.config] = NotProxy
           /\ proxies'[info'.config].kind = "config"
           /\ proxies'[info'.config].path = signals[1].value
           /\ \A p \in Proxy : p # info'.config => proxies'[p] = base[p]
           /\ modem' = {nm.address[signals[1].value]}
  BY <1>3, <1>5, <1>6, <1>7, SetupEffect
<1>9. ~info.freed
  BY DEF HandleDeviceSignal
<1>10. \A p \in Proxy : p # info'.config => proxies'[p] = base[p]
  BY <1>8
<1> QED BY <1>1, <1>3, <1>4, <1>5, <1>8, <1>9, <1>10

(* The proxies of an IP4Config object remember its address. *)
LEMMA CachedEffect ==
  ASSUME TypeOK, Addressed, signals # <<>>, signals' = Tail(signals),
         Head(signals).obj # "device", Head(signals).to # {},
         proxies' = Cached(Head(signals).to, Head(signals).value)
  PROVE  /\ Taken({}) /\ signals' \in Seq(Signal)
         /\ Head(signals) = signals[1]
         /\ signals[1].obj # "device" /\ signals[1].to # {} /\ signals[1].value \in Address
         /\ proxies' \in [Proxy -> ProxyState]
         /\ \A p \in Proxy : /\ proxies'[p].kind = proxies[p].kind
                             /\ proxies[p].kind = "config" => proxies'[p].path = proxies[p].path
<1>1. Taken({}) /\ signals' \in Seq(Signal)
  BY TakenShape
<1>2. Head(signals) = signals[1] /\ 1 \in 1 .. Len(signals)
  BY <1>1 DEF Taken
<1>3. signals[1].obj # "device" /\ signals[1].to # {} /\ signals[1].value \in Address
  BY <1>2, SignalTyped
<1>4. ASSUME NEW p \in Proxy
      PROVE  /\ proxies'[p] \in ProxyState /\ proxies'[p].kind = proxies[p].kind
             /\ proxies[p].kind = "config" => proxies'[p].path = proxies[p].path
  <2>1. CASE p \in signals[1].to
    <3>1. proxies[p].kind = "config"
      BY <1>2, <1>3, <2>1 DEF Addressed
    <3>2. proxies[p] \in ConfigProxies
      BY <3>1, ProxyTyped, Kinds
    <3>3. proxies'[p] = [proxies[p] EXCEPT !.cache = signals[1].value]
      BY <1>2, <2>1 DEF Cached
    <3> QED BY <1>3, <3>2, <3>3 DEF ConfigProxies, ProxyState
  <2>2. CASE p \notin signals[1].to
    <3>1. proxies'[p] = proxies[p]
      BY <1>2, <2>2 DEF Cached
    <3> QED BY <3>1, ProxyTyped
  <2> QED BY <2>1, <2>2
<1>5. proxies' = [p \in Proxy |-> IF p \in signals[1].to
                                  THEN [proxies[p] EXCEPT !.cache = signals[1].value]
                                  ELSE proxies[p]]
  BY <1>2 DEF Cached
<1>6. proxies' \in [Proxy -> ProxyState]
  BY <1>4, <1>5
<1> QED BY <1>1, <1>2, <1>3, <1>4, <1>6

(* A signal of a configuration changes what its proxies remember, and goes *)
(* to the callback.                                                        *)
LEMMA ConfigSignalEffect ==
  ASSUME TypeOK, Addressed, HandleConfigSignal
  PROVE  /\ Taken({}) /\ signals' \in Seq(Signal)
         /\ signals[1].obj # "device" /\ signals[1].to # {} /\ signals[1].value \in Address
         /\ modem' = {signals[1].value}
         /\ proxies' \in [Proxy -> ProxyState]
         /\ \A p \in Proxy : /\ proxies'[p].kind = proxies[p].kind
                             /\ proxies[p].kind = "config" => proxies'[p].path = proxies[p].path
<1>1. /\ signals # <<>> /\ signals' = Tail(signals)
      /\ Head(signals).obj # "device" /\ Head(signals).to # {}
      /\ proxies' = Cached(Head(signals).to, Head(signals).value)
      /\ modem' = {Head(signals).value}
  BY DEF HandleConfigSignal
<1> QED BY <1>1, CachedEffect

(* Without a bus a signal changes at most what proxies remember. *)
LEMMA WithoutBusEffect ==
  ASSUME TypeOK, Addressed, HandleSignalWithoutBus
  PROVE  /\ Taken({}) /\ signals' \in Seq(Signal)
         /\ proxies' \in [Proxy -> ProxyState]
         /\ \A p \in Proxy : /\ proxies'[p].kind = proxies[p].kind
                             /\ proxies[p].kind = "config" => proxies'[p].path = proxies[p].path
<1>1. signals # <<>> /\ signals' = Tail(signals) /\ Head(signals).to # {}
  BY DEF HandleSignalWithoutBus
<1>2. CASE Head(signals).obj = "device"
  <2>1. proxies' = proxies
    BY <1>2 DEF HandleSignalWithoutBus
  <2> QED BY <1>1, <2>1, TakenShape, ProxyTyped
<1>3. CASE Head(signals).obj # "device"
  <2>1. proxies' = Cached(Head(signals).to, Head(signals).value)
    BY <1>3 DEF HandleSignalWithoutBus
  <2> QED BY <1>1, <1>3, <2>1, CachedEffect
<1> QED BY <1>2, <1>3

(* What was on its way to a proxy leads to one that is there. *)
LEMMA EffectiveSeen ==
  ASSUME TypeOK, Addressed, NEW i \in 1 .. Len(signals), Effective(i)
  PROVE  /\ signals[i].obj = "device" => Devices # {}
         /\ signals[i].obj # "device" => Configs # {}
<1>1. PICK p \in signals[i].to : TRUE
  BY DEF Effective
<1>2. p \in Proxy
  BY <1>1, SignalTyped
<1> QED BY <1>1, <1>2 DEF Addressed, Devices, Configs

LEMMA InitializeSignals ==
  ASSUME TypeOK, SignalsInv, PointersInv, Initialize
  PROVE  SignalsInv'
<1>1. signals' = signals /\ nm' = nm /\ ~info.freed /\ ~info'.freed
  BY DEF Initialize, SetupIp4ConfigProxy, TypeOK
<1>2. \A p \in Proxy : proxies[p] # NotProxy => proxies'[p] = proxies[p]
  BY InitializeEffect, ConstantAssumption
<1>3. Addressed'
  <2>1. SUFFICES ASSUME NEW i \in 1 .. Len(signals), NEW p \in Proxy, p \in signals[i].to
                 PROVE  IF signals[i].obj = "device" THEN proxies'[p].kind = "device"
                        ELSE proxies'[p].kind = "config" /\ proxies'[p].path = signals[i].obj
    BY <1>1 DEF Addressed
  <2>2. IF signals[i].obj = "device" THEN proxies[p].kind = "device"
        ELSE proxies[p].kind = "config" /\ proxies[p].path = signals[i].obj
    BY <2>1 DEF SignalsInv, Addressed
  <2>3. proxies[p] # NotProxy
    BY <2>2, ProxyTyped
  <2> QED BY <1>2, <2>2, <2>3
<1>4. NoneMissed' /\ LastIsTrue'
  BY <1>1 DEF SignalsInv, NoneMissed, LastIsTrue
<1>5. Configs' # {} => Devices' # {}
  <2>1. Devices \subseteq Devices'
    BY <1>2, ProxyTyped DEF Devices
  <2>2. CASE \E d \in Proxy : proxies'[d].kind = "device"
    BY <2>2 DEF Devices
  <2>3. CASE proxies' = proxies
    BY <1>1, <2>3 DEF SignalsInv, DevicesStay, Devices, Configs
  <2> QED BY <2>2, <2>3, InitializeEffect
<1>6. DevicesStay'
  BY <1>1, <1>5 DEF SignalsInv, DevicesStay, Effective
<1>7. Follows'
  <2>1. SUFFICES ASSUME info'.config # NoProxy
                 PROVE  /\ info'.config \in Proxy /\ proxies'[info'.config].kind = "config"
                        /\ proxies'[info'.config].path = nm.path
                        /\ modem' = {nm.address[nm.path]}
    BY <1>1 DEF Follows, Configs
  <2> QED BY <2>1, InitializeEffect
<1> QED BY <1>3, <1>4, <1>6, <1>7 DEF SignalsInv

LEMMA DeviceSignalSignals ==
  ASSUME TypeOK, SignalsInv, PointersInv, HandleDeviceSignal
  PROVE  SignalsInv'
<1> USE DEF SignalsInv
<1>0. nm' = nm
  BY DEF HandleDeviceSignal
<1>1. NoneMissed' /\ LastIsTrue'
  BY <1>0, DeviceSignalEffect, TakenKeeps
<1>2. Addressed'
  <2>1. \A p \in Proxy : p \notin Replaced /\ proxies[p] # NotProxy => proxies'[p] = proxies[p]
    BY DeviceSignalEffect, ConstantAssumption
  <2> QED BY <2>1, DeviceSignalEffect, TakenAddressed
<1>3. Devices' = Devices
  <2>1. ASSUME NEW p \in Proxy PROVE proxies'[p].kind = "device" <=> proxies[p].kind = "device"
    <3>1. CASE p = info'.config
      <4>1. proxies'[p].kind = "config" /\ (p \in Replaced \/ proxies[p] = NotProxy)
        BY <3>1, DeviceSignalEffect, ConstantAssumption
      <4> QED BY <4>1, ProxyTyped, DeviceSignalEffect DEF Devices
    <3>2. CASE p # info'.config
      <4>1. proxies'[p] = IF p \in Replaced THEN NotProxy ELSE proxies[p]
        BY <3>2, DeviceSignalEffect
      <4> QED BY <4>1, ProxyTyped, DeviceSignalEffect DEF Devices
    <3> QED BY <3>1, <3>2
  <2> QED BY <2>1 DEF Devices
<1>4. 1 \in 1 .. Len(signals) /\ Effective(1) /\ signals[1].obj = "device"
  BY DeviceSignalEffect DEF Taken, Effective
<1>5. DevicesStay'
  <2>1. Devices # {}
    BY <1>4, EffectiveSeen
  <2> QED BY <1>3, <2>1, DeviceSignalEffect, TakenDevices
<1>6. Follows'
  <2>1. SUFFICES ASSUME info'.config # NoProxy
                 PROVE  /\ ~info'.freed /\ info'.config \in Configs'
                        /\ proxies'[info'.config].path # nm.path =>
                             \E i \in 1 .. Len(signals') :
                               signals'[i].obj = "device" /\ signals'[i].to # {}
                        /\ (\A i \in 1 .. Len(signals') : signals'[i].to = {}) =>
                             modem' = {nm.address[nm.path]}
    BY <1>0 DEF Follows, Effective
  <2>2. /\ ~info'.freed /\ info'.config \in Configs'
        /\ proxies'[info'.config].path = signals[1].value
        /\ modem' = {nm.address[signals[1].value]}
    BY <2>1, DeviceSignalEffect DEF Configs
  <2>3. CASE \A j \in 1 .. Len(signals) : 1 < j => signals[j].obj # "device"
    <3>1. signals[1].value = nm.path
      BY <1>4, <2>3 DEF LastIsTrue
    <3> QED BY <2>2, <3>1
  <2>4. CASE \E j \in 1 .. Len(signals) : 1 < j /\ signals[j].obj = "device"
    <3>1. PICK j \in 1 .. Len(signals) : 1 < j /\ signals[j].obj = "device"
      BY <2>4
    <3>2. signals[1].to \subseteq signals[j].to
      BY <1>4, <3>1 DEF NoneMissed
    <3>3. PICK p \in signals[1].to : p \in Proxy
      BY <1>4, SignalTyped DEF Effective
    <3>4. p \in Devices
      BY <1>4, <3>3 DEF Addressed, Devices
    <3>5. p \in signals[j].to \ Replaced
      BY <3>2, <3>3, <3>4, DeviceSignalEffect
    <3>6. j - 1 \in 1 .. Len(signals') /\ (j - 1) + 1 = j
      BY <3>1, DeviceSignalEffect DEF Taken
    <3>7. signals'[j - 1].obj = "device" /\ p \in signals'[j - 1].to
      BY <3>1, <3>5, <3>6, DeviceSignalEffect DEF Taken
    <3> QED BY <2>2, <3>6, <3>7
  <2> QED BY <2>3, <2>4
<1> QED BY <1>1, <1>2, <1>5, <1>6

LEMMA ConfigSignalSignals ==
  ASSUME TypeOK, SignalsInv, PointersInv, HandleConfigSignal
  PROVE  SignalsInv'
<1> USE DEF SignalsInv
<1>0. nm' = nm /\ info' = info /\ ~info.freed
  BY DEF HandleConfigSignal
<1>1. NoneMissed' /\ LastIsTrue'
  BY <1>0, ConfigSignalEffect, TakenKeeps
<1>2. Addressed'
  BY ConfigSignalEffect, TakenAddressed
<1>3. Devices' = Devices /\ Configs' = Configs
  BY ConfigSignalEffect DEF Devices, Configs
<1>4. 1 \in 1 .. Len(signals) /\ Effective(1) /\ signals[1].obj # "device"
  BY ConfigSignalEffect DEF Taken, Effective
<1>5. DevicesStay'
  <2>1. Configs # {} => Devices # {}
    BY <1>0 DEF DevicesStay
  <2> QED BY <1>0, <1>3, <2>1, ConfigSignalEffect, TakenDevices
<1>6. Follows'
  <2>1. SUFFICES ASSUME info.config # NoProxy
                 PROVE  /\ ~info.freed /\ info.config \in Configs
                        /\ proxies'[info.config].path # nm.path =>
                             \E i \in 1 .. Len(signals') :
                               signals'[i].obj = "device" /\ signals'[i].to # {}
                        /\ (\A i \in 1 .. Len(signals') : signals'[i].to = {}) =>
                             modem' = {nm.address[nm.path]}
    BY <1>0, <1>3 DEF Follows, Effective
  <2>2. ASSUME NEW j \in 1 .. Len(signals), 1 < j
        PROVE  /\ j - 1 \in 1 .. Len(signals') /\ signals'[j - 1].obj = signals[j].obj
               /\ signals'[j - 1].to = signals[j].to
    <3>1. j - 1 \in 1 .. Len(signals') /\ (j - 1) + 1 = j
      BY <2>2, ConfigSignalEffect DEF Taken
    <3> QED BY <3>1, ConfigSignalEffect DEF Taken
  <2>3. ~info.freed /\ info.config \in Configs
    BY <2>1 DEF Follows
  <2>4. ASSUME proxies'[info.config].path # nm.path
        PROVE  \E i \in 1 .. Len(signals') : signals'[i].obj = "device" /\ signals'[i].to # {}
    <3>1. proxies[info.config].path # nm.path
      BY <2>3, <2>4, ConfigSignalEffect DEF Configs
    <3>2. PICK j \in 1 .. Len(signals) : signals[j].obj = "device" /\ signals[j].to # {}
      BY <2>1, <3>1 DEF Follows, Effective
    <3>3. 1 < j
      BY <1>4, <3>2
    <3> QED BY <2>2, <3>2, <3>3
  <2>5. ASSUME \A i \in 1 .. Len(signals') : signals'[i].to = {}
        PROVE  modem' = {nm.address[nm.path]}
    <3>1. \A j \in 1 .. Len(signals) : 1 < j => signals[j].to = {}
      BY <2>2, <2>5
    <3>2. \A j \in 1 .. Len(signals) : 1 < j => signals[j].obj # "device"
      BY <1>4, <2>3, <3>1 DEF DevicesStay, Effective
    <3>3. \A j \in 1 .. Len(signals) : 1 < j => signals[j].obj # signals[1].obj
      BY <1>4, <3>1 DEF NoneMissed, Effective
    <3>4. signals[1].obj = nm.path /\ signals[1].value = nm.address[nm.path]
      BY <1>4, <3>2, <3>3 DEF LastIsTrue
    <3> QED BY <3>4, ConfigSignalEffect
  <2> QED BY <2>3, <2>4, <2>5
<1> QED BY <1>1, <1>2, <1>5, <1>6

LEMMA WithoutBusSignals ==
  ASSUME TypeOK, SignalsInv, PointersInv, HandleSignalWithoutBus
  PROVE  SignalsInv'
<1> USE DEF SignalsInv
<1>1. nm' = nm /\ info' = info /\ ~info.freed /\ info.config = NoProxy
  BY DEF HandleSignalWithoutBus, PointersInv
<1>2. NoneMissed' /\ LastIsTrue' /\ Addressed'
  BY <1>1, WithoutBusEffect, TakenKeeps, TakenAddressed
<1>3. Devices' = Devices /\ Configs' = Configs
  BY WithoutBusEffect DEF Devices, Configs
<1>4. DevicesStay'
  <2>1. Configs # {} => Devices # {}
    BY <1>1 DEF DevicesStay
  <2> QED BY <1>1, <1>3, <2>1, WithoutBusEffect, TakenDevices
<1>5. Follows'
  BY <1>1 DEF Follows
<1> QED BY <1>2, <1>4, <1>5

LEMMA OtherSignals ==
  ASSUME TypeOK, SignalsInv, PointersInv, DropSignal \/ Free \/ HandleSignalFreed \/ UNCHANGED vars
  PROVE  SignalsInv'
<1> USE DEF SignalsInv
<1>1. CASE DropSignal
  <2>1. Taken({})
    BY <1>1, TakenShape DEF DropSignal
  <2>2. nm' = nm /\ info' = info /\ proxies' = proxies /\ modem' = modem
        /\ Devices' = Devices /\ Configs' = Configs
    BY <1>1 DEF DropSignal, Devices, Configs
  <2>3. NoneMissed' /\ LastIsTrue' /\ Addressed'
    BY <2>1, <2>2, TakenKeeps, TakenAddressed
  <2>4. DevicesStay'
    <3>1. CASE info.freed
      BY <2>2, <3>1 DEF DevicesStay
    <3>2. CASE ~info.freed
      <4>1. Configs # {} => Devices # {}
        BY <3>2 DEF DevicesStay
      <4> QED BY <2>1, <2>2, <3>2, <4>1, TakenDevices
    <3> QED BY <3>1, <3>2
  <2>5. signals[1].to = {}
    BY <1>1, <2>1 DEF DropSignal, Taken
  <2>6. ASSUME NEW j \in 1 .. Len(signals), signals[j].to # {}
        PROVE  /\ j - 1 \in 1 .. Len(signals') /\ signals'[j - 1].obj = signals[j].obj
               /\ signals'[j - 1].to = signals[j].to
    <3>1. 1 < j
      BY <2>5, <2>6
    <3>2. j - 1 \in 1 .. Len(signals') /\ (j - 1) + 1 = j
      BY <2>1, <3>1 DEF Taken
    <3> QED BY <2>1, <3>2 DEF Taken
  <2>7. Follows'
    <3>1. SUFFICES ASSUME info.config # NoProxy
                   PROVE  /\ ~info.freed /\ info.config \in Configs
                          /\ proxies[info.config].path # nm.path =>
                               \E i \in 1 .. Len(signals') :
                                 signals'[i].obj = "device" /\ signals'[i].to # {}
                          /\ (\A i \in 1 .. Len(signals') : signals'[i].to = {}) =>
                               modem = {nm.address[nm.path]}
      BY <2>2 DEF Follows, Effective
    <3>2. /\ ~info.freed /\ info.config \in Configs
          /\ proxies[info.config].path # nm.path =>
               \E i \in 1 .. Len(signals) : signals[i].obj = "device" /\ signals[i].to # {}
          /\ (\A i \in 1 .. Len(signals) : signals[i].to = {}) =>
               modem = {nm.address[nm.path]}
      BY <3>1 DEF Follows, Effective
    <3> QED BY <2>6, <3>2
  <2> QED BY <2>3, <2>4, <2>7
<1>2. CASE Free
  <2>1. signals \in Seq(Signal)
    BY DEF TypeOK
  <2>2. signals' = Undelivered(signals, Released) /\ nm' = nm
        /\ info'.freed /\ info'.config = NoProxy
        /\ \A p \in Proxy : p \notin Released => proxies'[p] = proxies[p]
    BY <1>2, ProxyTyped DEF Free
  <2>3. /\ Len(signals') = Len(signals)
        /\ \A i \in 1 .. Len(signals) : /\ signals'[i].obj = signals[i].obj
                                        /\ signals'[i].value = signals[i].value
                                        /\ signals'[i].to = signals[i].to \ Released
    BY <2>1, <2>2, UndeliveredShape
  <2>4. Addressed'
    BY <2>2, <2>3 DEF Addressed
  <2>5. NoneMissed'
    <3>1. SUFFICES ASSUME NEW i \in 1 .. Len(signals), NEW j \in 1 .. Len(signals),
                          i < j, signals[i].obj = signals[j].obj
                   PROVE  signals'[i].to \subseteq signals'[j].to
      BY <2>3 DEF NoneMissed
    <3>2. signals[i].to \subseteq signals[j].to
      BY <3>1 DEF NoneMissed
    <3> QED BY <2>3, <3>2
  <2>6. LastIsTrue'
    BY <2>2, <2>3 DEF LastIsTrue
  <2>7. DevicesStay' /\ Follows'
    BY <2>2 DEF DevicesStay, Follows
  <2> QED BY <2>4, <2>5, <2>6, <2>7
<1>3. CASE UNCHANGED <<nm, signals, proxies, info, modem>>
  BY <1>3 DEF Addressed, NoneMissed, LastIsTrue, DevicesStay, Follows, Devices, Configs, Effective
<1> QED BY <1>1, <1>2, <1>3 DEF HandleSignalFreed, vars

(***************************************************************************)
(* Types.                                                                  *)
(***************************************************************************)
Networks == [path : Path, address : [Path -> Address]]
Signals == Seq(Signal)
Infos == [iface : Proxy \cup {NoProxy}, config : Proxy \cup {NoProxy}, bus : BOOLEAN, freed : BOOLEAN]
ModemAddresses == {{}} \cup {{a} : a \in Address}
Inits == 0 .. MaxInits

LEMMA TypeStep ==
  ASSUME IInv, [Next]_vars PROVE TypeOK'
<1> USE DEF IInv
<1>0. /\ nm \in Networks
      /\ signals \in Signals
      /\ proxies \in [Proxy -> ProxyState]
      /\ info \in Infos
      /\ modem \in ModemAddresses
      /\ inits \in Inits /\ broken \in BOOLEAN
  BY ProxyTyped DEF TypeOK, Networks, Infos, ModemAddresses, Inits, Signals
<1> DEFINE Typed ==
      /\ nm' \in Networks
      /\ signals' \in Signals
      /\ proxies' \in [Proxy -> ProxyState]
      /\ info' \in Infos
      /\ modem' \in ModemAddresses
      /\ inits' \in Inits /\ broken' \in BOOLEAN
<1> SUFFICES Typed
  BY DEF TypeOK, ProxyState, Networks, Infos, ModemAddresses, Inits, Signals
<1>1. ASSUME NEW path \in Path, SwitchConfig(path) PROVE Typed
  <2>1. [obj |-> "device", value |-> path, to |-> Devices] \in Signal
    BY DEF Signal, Devices
  <2>2. signals' \in Signals
    BY <1>0, <1>1, <2>1 DEF SwitchConfig, Emit, Signals
  <2>3. nm' \in Networks
    BY <1>0, <1>1 DEF SwitchConfig, Networks
  <2> QED BY <1>0, <1>1, <2>2, <2>3 DEF SwitchConfig
<1>2. ASSUME NEW a \in Address, ChangeAddress(a) PROVE Typed
  <2> DEFINE to == {p \in Configs : proxies[p].path = nm.path}
  <2>1. to \subseteq Proxy /\ nm.path \in Path
    BY <1>0 DEF Configs, Networks
  <2> HIDE DEF to
  <2>2. [obj |-> nm.path, value |-> a, to |-> to] \in Signal
    BY <2>1 DEF Signal
  <2>3. signals' = Append(signals, [obj |-> nm.path, value |-> a, to |-> to])
    BY <1>2 DEF ChangeAddress, Emit, to
  <2>4. nm' \in Networks
    BY <1>0, <1>2 DEF ChangeAddress, Networks
  <2>5. signals' \in Signals
    BY <1>0, <2>2, <2>3 DEF Signals
  <2> QED BY <1>0, <1>2, <2>4, <2>5 DEF ChangeAddress
<1>3. CASE Initialize
  <2>1. inits' \in Inits /\ UNCHANGED <<nm, signals, broken>>
    BY <1>0, <1>3, InitializeCounts, ConstantAssumption DEF Inits
  <2>2. CASE \E d \in Proxy : /\ proxies[d] = NotProxy
                              /\ SetupIp4ConfigProxy([proxies EXCEPT ![d] = DeviceProxy],
                                                     nm.path, 1, d)
    <3>1. PICK d \in Proxy : SetupIp4ConfigProxy([proxies EXCEPT ![d] = DeviceProxy],
                                                 nm.path, 1, d)
      BY <2>2
    <3> DEFINE base == [proxies EXCEPT ![d] = DeviceProxy]
    <3>2. base \in [Proxy -> ProxyState] /\ nm.path \in Path
      BY <1>0, ProxyTyped DEF Networks
    <3>3. SetupIp4ConfigProxy(base, nm.path, 1, d)
      BY <3>1
    <3> HIDE DEF base
    <3>4. /\ proxies' \in [Proxy -> ProxyState]
          /\ info' \in Infos
          /\ modem' \in ModemAddresses
      BY <3>2, <3>3, SetupEffect DEF Infos, ModemAddresses
    <3> QED BY <1>0, <2>1, <3>4
  <2>3. CASE \E bus \in BOOLEAN :
               /\ info' = [info EXCEPT !.iface = NoProxy, !.config = NoProxy, !.bus = bus]
               /\ UNCHANGED <<proxies, modem>>
    <3>1. info' \in Infos
      BY <1>0, <2>3 DEF Infos
    <3> QED BY <1>0, <2>1, <2>3, <3>1
  <2> QED BY <1>3, <2>2, <2>3 DEF Initialize
<1>4. CASE HandleDeviceSignal
  <2>1. signals' \in Signals /\ proxies' \in [Proxy -> ProxyState]
        /\ signals[1].value \in Path /\ Head(signals) = signals[1]
    BY <1>4, DeviceSignalEffect DEF Taken, Signals
  <2> DEFINE base == Without(Replaced)
  <2>2. base \in [Proxy -> ProxyState]
    BY ProxyTyped
  <2>3. SetupIp4ConfigProxy(base, signals[1].value, Cardinality(signals[1].to), info.iface)
    BY <1>4, <2>1 DEF HandleDeviceSignal
  <2>4. info.iface \in Proxy \cup {NoProxy}
    BY <1>0 DEF Infos
  <2> HIDE DEF base
  <2>5. /\ info' \in Infos
        /\ modem' \in ModemAddresses
    BY <2>1, <2>2, <2>3, <2>4, SetupEffect DEF Infos, ModemAddresses
  <2> QED BY <1>0, <1>4, <2>1, <2>5 DEF HandleDeviceSignal
<1>5. CASE HandleConfigSignal
  <2>1. signals' \in Signals /\ proxies' \in [Proxy -> ProxyState]
        /\ modem' \in ModemAddresses
    BY <1>5, ConfigSignalEffect DEF SignalsInv, Signals, ModemAddresses
  <2> QED BY <1>0, <1>5, <2>1 DEF HandleConfigSignal
<1>10. CASE HandleSignalWithoutBus
  <2>1. signals' \in Signals /\ proxies' \in [Proxy -> ProxyState]
    BY <1>10, WithoutBusEffect DEF SignalsInv, Signals
  <2> QED BY <1>0, <1>10, <2>1 DEF HandleSignalWithoutBus
<1>6. CASE DropSignal
  <2>1. signals' \in Signals
    BY <1>6, TakenShape DEF DropSignal, Signals
  <2> QED BY <1>0, <1>6, <2>1 DEF DropSignal
<1>7. CASE Free
  <2>1. signals' \in Signals /\ proxies' \in [Proxy -> ProxyState]
    BY <1>0, <1>7, UndeliveredShape, ProxyTyped DEF Free, Signals
  <2>2. info' \in Infos
    BY <1>7 DEF Free, Infos
  <2> QED BY <1>0, <1>7, <2>1, <2>2 DEF Free
<1>8. CASE HandleSignalFreed
  BY <1>0, <1>8 DEF HandleSignalFreed
<1>9. CASE UNCHANGED vars
  BY <1>0, <1>9 DEF vars
<1> QED
  BY <1>1, <1>2, <1>3, <1>4, <1>5, <1>6, <1>7, <1>8, <1>9, <1>10 DEF Next

(***************************************************************************)
(* Pointers and what is left behind.                                       *)
(***************************************************************************)
LEMMA KindsFinite ==
  /\ IsFiniteSet(Devices) /\ Cardinality(Devices) \in Nat
  /\ IsFiniteSet(Configs) /\ Cardinality(Configs) \in Nat
<1>1. Devices \subseteq Proxy /\ Configs \subseteq Proxy
  BY DEF Devices, Configs
<1> QED BY <1>1, ConstantAssumption, FS_Subset, FS_CardinalityType

LEMMA AddOne ==
  ASSUME NEW S, IsFiniteSet(S), NEW x, NEW T, T = S \cup {x}
  PROVE  Cardinality(T) \in Nat /\ Cardinality(T) <= Cardinality(S) + 1
<1>1. IsFiniteSet(S \cup {x}) /\ Cardinality(S) \in Nat
      /\ Cardinality(S \cup {x}) = IF x \in S THEN Cardinality(S) ELSE Cardinality(S) + 1
  BY FS_AddElement, FS_CardinalityType
<1> QED BY <1>1

LEMMA InitializePointers ==
  ASSUME TypeOK, PointersInv, Initialize PROVE PointersInv'
<1>1. inits \in Nat /\ inits' = inits + 1 /\ ~info.freed /\ ~info'.freed /\ ~broken'
  <2>1. inits \in Nat /\ inits' = inits + 1 /\ ~info.freed /\ ~broken'
    BY InitializeCounts DEF TypeOK
  <2>2. ~info'.freed
    BY DEF Initialize, SetupIp4ConfigProxy, TypeOK
  <2> QED BY <2>1, <2>2
<1>2. CASE \E d \in Proxy :
              /\ info'.bus
              /\ proxies[d] = NotProxy /\ info'.iface = d /\ proxies'[d].kind = "device"
              /\ info'.config # NoProxy =>
                   /\ info'.config \in Proxy /\ info'.config # d
                   /\ proxies[info'.config] = NotProxy
                   /\ proxies'[info'.config].kind = "config"
              /\ \A p \in Proxy : p # d /\ p # info'.config => proxies'[p] = proxies[p]
  <2>1. PICK d \in Proxy :
              /\ info'.bus
              /\ proxies[d] = NotProxy /\ info'.iface = d /\ proxies'[d].kind = "device"
              /\ info'.config # NoProxy =>
                   /\ info'.config \in Proxy /\ info'.config # d
                   /\ proxies[info'.config] = NotProxy
                   /\ proxies'[info'.config].kind = "config"
              /\ \A p \in Proxy : p # d /\ p # info'.config => proxies'[p] = proxies[p]
    BY <1>2
  <2>2. Devices' = Devices \cup {d}
    BY <2>1, ProxyTyped, ConstantAssumption DEF Devices
  <2>3. LeftBehind(Devices, info.iface)'
    <3>1. Cardinality(Devices') \in Nat /\ Cardinality(Devices') <= Cardinality(Devices) + 1
      BY <2>2, KindsFinite, AddOne
    <3> QED BY <1>1, <2>1, <3>1, KindsFinite, ConstantAssumption DEF PointersInv, LeftBehind
  <2>4. CASE info'.config = NoProxy
    <3>1. Configs' = Configs
      BY <2>1, <2>4, ProxyTyped, ConstantAssumption DEF Configs
    <3>2. LeftBehind(Configs, info.config)'
      BY <1>1, <3>1, KindsFinite DEF PointersInv, LeftBehind
    <3> QED BY <1>1, <2>1, <2>2, <2>3, <2>4, <3>2 DEF PointersInv
  <2>5. CASE info'.config # NoProxy
    <3>1. Configs' = Configs \cup {info'.config}
      BY <2>1, <2>5, ProxyTyped, ConstantAssumption DEF Configs
    <3>2. Cardinality(Configs') \in Nat /\ Cardinality(Configs') <= Cardinality(Configs) + 1
      BY <3>1, KindsFinite, AddOne
    <3>3. LeftBehind(Configs, info.config)'
      BY <1>1, <2>5, <3>2, KindsFinite DEF PointersInv, LeftBehind
    <3> QED BY <1>1, <2>1, <2>2, <2>3, <3>1, <3>3 DEF PointersInv
  <2> QED BY <2>4, <2>5
<1>3. CASE info'.iface = NoProxy /\ info'.config = NoProxy /\ proxies' = proxies
  <2>1. Devices' = Devices /\ Configs' = Configs
    BY <1>3 DEF Devices, Configs
  <2>2. LeftBehind(Devices, info.iface)' /\ LeftBehind(Configs, info.config)'
    BY <1>1, <2>1, KindsFinite DEF PointersInv, LeftBehind
  <2> QED BY <1>1, <1>3, <2>2 DEF PointersInv
<1> QED BY <1>2, <1>3, InitializeEffect

LEMMA DeviceSignalPointers ==
  ASSUME TypeOK, SignalsInv, PointersInv, HandleDeviceSignal PROVE PointersInv'
<1> DEFINE c == info'.config
           kept == Configs \ {info.config}
<1>1. inits \in Nat /\ inits' = inits /\ broken' = broken /\ ~broken
  BY DEF HandleDeviceSignal, TypeOK
<1>2. ~info'.freed /\ info'.iface = info.iface /\ info'.bus
  BY DeviceSignalEffect
<1>3. Devices' = Devices
  <2>1. ASSUME NEW p \in Proxy PROVE proxies'[p].kind = "device" <=> proxies[p].kind = "device"
    <3>1. CASE p = c
      <4>1. proxies'[p].kind = "config" /\ (p \in Replaced \/ proxies[p] = NotProxy)
        BY <3>1, DeviceSignalEffect, ConstantAssumption
      <4> QED BY <4>1, ProxyTyped, DeviceSignalEffect DEF Devices
    <3>2. CASE p # c
      <4>1. proxies'[p] = IF p \in Replaced THEN NotProxy ELSE proxies[p]
        BY <3>2, DeviceSignalEffect
      <4> QED BY <4>1, ProxyTyped, DeviceSignalEffect DEF Devices
    <3> QED BY <3>1, <3>2
  <2> QED BY <2>1 DEF Devices
<1>4. \A p \in Proxy : p # c => (p \in Configs' <=> p \in kept)
  <2>1. ASSUME NEW p \in Proxy, p # c PROVE p \in Configs' <=> p \in kept
    <3>1. proxies'[p] = IF p \in Replaced THEN NotProxy ELSE proxies[p]
      BY <2>1, DeviceSignalEffect
    <3>2. p \in Replaced <=> p = info.config
      BY ConstantAssumption DEF Replaced
    <3> QED BY <3>1, <3>2, ProxyTyped DEF Configs
  <2> QED BY <2>1
<1>5. inits > 0
  <2>1. 1 \in 1 .. Len(signals) /\ Effective(1) /\ signals[1].obj = "device"
    BY DeviceSignalEffect DEF Taken, Effective
  <2>2. Devices # {}
    BY <2>1, EffectiveSeen DEF SignalsInv
  <2>3. Cardinality(Devices) # 0
    BY <2>2, KindsFinite, FS_EmptySet
  <2> QED BY <1>1, <2>3, KindsFinite DEF PointersInv, LeftBehind
<1>6. IsFiniteSet(kept) /\ Cardinality(kept) \in Nat /\ Cardinality(kept) <= inits - 1
  <2>1. IsFiniteSet(kept)
        /\ Cardinality(kept) = IF info.config \in Configs THEN Cardinality(Configs) - 1
                               ELSE Cardinality(Configs)
    BY KindsFinite, FS_RemoveElement
  <2>2. info.config \in Configs \/ info.config = NoProxy
    BY DEF PointersInv
  <2> QED BY <1>1, <1>5, <2>1, <2>2, KindsFinite, FS_CardinalityType DEF PointersInv, LeftBehind
<1>7. CASE c = NoProxy
  <2>1. Configs' = kept
    BY <1>4, <1>7, ConstantAssumption DEF Configs
  <2>2. LeftBehind(Configs, info.config)'
    BY <1>1, <1>6, <2>1 DEF LeftBehind
  <2> QED BY <1>1, <1>2, <1>3, <1>7, <2>2 DEF PointersInv, LeftBehind
<1>8. CASE c # NoProxy
  <2>1. c \in Proxy /\ c \in Configs'
    BY <1>8, DeviceSignalEffect DEF Configs
  <2>2. Configs' = kept \cup {c}
    BY <1>4, <2>1 DEF Configs
  <2> HIDE DEF kept
  <2>3. Cardinality(Configs') \in Nat /\ Cardinality(Configs') <= Cardinality(kept) + 1
    BY <1>6, <2>2, AddOne
  <2>5. LeftBehind(Configs, info.config)'
    BY <1>1, <1>6, <1>8, <2>3 DEF LeftBehind
  <2> QED BY <1>1, <1>2, <1>3, <2>1, <2>5 DEF PointersInv, LeftBehind
<1> QED BY <1>7, <1>8

LEMMA FreePointers ==
  ASSUME TypeOK, PointersInv, Free PROVE PointersInv'
<1>1. inits \in Nat /\ inits' = inits /\ ~broken' /\ info'.freed
      /\ info'.iface = NoProxy /\ info'.config = NoProxy
  BY DEF Free, TypeOK
<1>2. \A p \in Proxy : proxies'[p] = IF p \in Released THEN NotProxy ELSE proxies[p]
  BY ProxyTyped DEF Free
<1>3. \A p \in Proxy : p \in Released <=> p = info.iface \/ p = info.config
  BY ConstantAssumption DEF Released
<1>4. (info.iface \in Proxy => info.iface \in Devices)
      /\ (info.config \in Proxy => info.config \in Configs)
  BY ConstantAssumption DEF PointersInv
<1>5. Devices' = Devices \ {info.iface}
  BY <1>2, <1>3, <1>4, ProxyTyped DEF Devices, Configs
<1>6. Configs' = Configs \ {info.config}
  BY <1>2, <1>3, <1>4, ProxyTyped DEF Devices, Configs
<1>7. LeftBehind(Devices, info.iface)'
  <2>1. Cardinality(Devices') = IF info.iface \in Devices THEN Cardinality(Devices) - 1
                                ELSE Cardinality(Devices)
    BY <1>5, KindsFinite, FS_RemoveElement
  <2>2. info.iface \in Devices \/ info.iface = NoProxy
    BY DEF PointersInv
  <2> QED BY <1>1, <2>1, <2>2, KindsFinite DEF PointersInv, LeftBehind
<1>8. LeftBehind(Configs, info.config)'
  <2>1. Cardinality(Configs') = IF info.config \in Configs THEN Cardinality(Configs) - 1
                                ELSE Cardinality(Configs)
    BY <1>6, KindsFinite, FS_RemoveElement
  <2>2. info.config \in Configs \/ info.config = NoProxy
    BY DEF PointersInv
  <2> QED BY <1>1, <2>1, <2>2, KindsFinite DEF PointersInv, LeftBehind
<1> QED BY <1>1, <1>7, <1>8 DEF PointersInv

(* A freed NMInfo is only used through a proxy that is still connected. *)
LEMMA FreedPointers ==
  ASSUME TypeOK, SignalsInv, PointersInv, HandleSignalFreed PROVE PointersInv'
<1>1. 1 \in 1 .. Len(signals) /\ Effective(1)
  <2>1. Head(signals) = signals[1] /\ 1 \in 1 .. Len(signals)
    BY TakenTyped DEF HandleSignalFreed
  <2> QED BY <2>1 DEF HandleSignalFreed, Effective
<1>2. Devices \cup Configs # {}
  BY <1>1, EffectiveSeen DEF SignalsInv
<1>3. Devices' = Devices /\ Configs' = Configs /\ info' = info /\ inits' = inits /\ info.freed
  BY DEF HandleSignalFreed, Devices, Configs
<1> QED BY <1>2, <1>3 DEF PointersInv, LeftBehind

LEMMA PointersStep ==
  ASSUME IInv, [Next]_vars PROVE PointersInv'
<1> USE DEF IInv
<1>1. CASE HandleConfigSignal
  <2>1. Devices' = Devices /\ Configs' = Configs
    BY <1>1, ConfigSignalEffect DEF SignalsInv, Devices, Configs
  <2> QED BY <1>1, <2>1 DEF HandleConfigSignal, PointersInv, LeftBehind
<1>2. CASE UNCHANGED <<proxies, info, inits, broken>>
  BY <1>2 DEF PointersInv, LeftBehind, Devices, Configs
<1>3. CASE HandleSignalWithoutBus
  <2>1. Devices' = Devices /\ Configs' = Configs
    BY <1>3, WithoutBusEffect DEF SignalsInv, Devices, Configs
  <2> QED BY <1>3, <2>1 DEF HandleSignalWithoutBus, PointersInv, LeftBehind
<1> QED
  BY <1>1, <1>2, <1>3, InitializePointers, DeviceSignalPointers, FreePointers, FreedPointers
  DEF Next, SwitchConfig, ChangeAddress, DropSignal, vars

LEMMA SignalsStep ==
  ASSUME IInv, [Next]_vars PROVE SignalsInv'
  BY SwitchConfigStep, ChangeAddressStep, InitializeSignals, DeviceSignalSignals,
     ConfigSignalSignals, WithoutBusSignals, OtherSignals
  DEF IInv, Next

LEMMA InitSound == Init => IInv
<1> SUFFICES ASSUME Init PROVE IInv
  OBVIOUS
<1>1. Devices = {} /\ Configs = {} /\ Cardinality({}) = 0
  BY FS_EmptySet DEF Init, Devices, Configs, NotProxy
<1>2. TypeOK
  <2>1. proxies \in [Proxy -> {NotProxy, DeviceProxy} \cup ConfigProxies]
    BY DEF Init
  <2>2. /\ signals \in Seq(Signal)
        /\ inits \in 0 .. MaxInits
        /\ broken \in BOOLEAN
    <3>1. inits = 0 /\ signals = <<>> /\ broken = FALSE /\ MaxInits \in Nat
      BY ConstantAssumption DEF Init
    <3>2. <<>> \in Seq(Signal)
      OBVIOUS
    <3>3. inits \in 0 .. MaxInits
      BY <3>1, SMT
    <3>4. signals \in Seq(Signal)
      BY <3>1, <3>2, Zenon
    <3> QED BY <3>1, <3>3, <3>4
  <2>3. info \in [iface : Proxy \cup {NoProxy}, config : Proxy \cup {NoProxy}, bus : BOOLEAN, freed : BOOLEAN]
    BY DEF Init
  <2>4. nm \in [path : Path, address : [Path -> Address]]
        /\ modem \in {{}} \cup {{a} : a \in Address}
    BY DEF Init
  <2> QED BY <2>1, <2>2, <2>3, <2>4 DEF TypeOK
<1>3. SignalsInv
  BY DEF Init, SignalsInv, Addressed, NoneMissed, LastIsTrue, DevicesStay, Follows, Configs,
         NotProxy
<1>4. PointersInv
  BY <1>1 DEF Init, PointersInv, LeftBehind
<1> QED BY <1>2, <1>3, <1>4 DEF IInv

LEMMA IInvAlways == Spec => []IInv
<1>1. IInv /\ [Next]_vars => IInv'
  BY TypeStep, SignalsStep, PointersStep DEF IInv
<1> QED BY <1>1, InitSound, PTL DEF Spec

(* Signals, proxies and pointers keep their types. *)
THEOREM TypeCorrect == Spec => []TypeOK
<1>1. IInv => TypeOK
  BY DEF IInv
<1> QED BY <1>1, IInvAlways, PTL

(* When the signals are handled the modem has the address of the device,   *)
(* although forgotten proxies answer the same signals.                     *)
THEOREM InSyncAlways == Spec => []InSyncWhenHandled
<1>1. IInv => InSyncWhenHandled
  BY DEF IInv, SignalsInv, Follows, InSyncWhenHandled
<1> QED BY <1>1, IInvAlways, PTL

(* nm_initialize leaves one proxy of a kind behind at most, and NMInfo's   *)
(* pointers are good.                                                      *)
THEOREM ProxiesBoundedAlways == Spec => []ProxiesBounded
<1>1. IInv => ProxiesBounded
  <2>1. SUFFICES ASSUME IInv PROVE ProxiesBounded
    OBVIOUS
  <2>2. inits \in Nat
    BY <2>1 DEF IInv, TypeOK
  <2> QED BY <2>1, <2>2, KindsFinite DEF IInv, PointersInv, LeftBehind, ProxiesBounded
<1> QED BY <1>1, IInvAlways, PTL

LEMMA FreedMeansReinit == ASSUME IInv, broken PROVE inits > 1
<1>1. /\ inits \in Nat
      /\ info.iface = NoProxy /\ info.config = NoProxy
      /\ Devices # {} \/ Configs # {}
      /\ LeftBehind(Devices, NoProxy) /\ LeftBehind(Configs, NoProxy)
  BY DEF IInv, TypeOK, PointersInv
<1>2. Cardinality(Devices) # 0 \/ Cardinality(Configs) # 0
  BY <1>1, KindsFinite, FS_EmptySet
<1> QED BY <1>1, <1>2, KindsFinite DEF LeftBehind

(* The freed NMInfo is used only after a second nm_initialize. *)
THEOREM FreedAfterReinit == Spec => []FreedOnlyUsedAfterReinit
<1>1. IInv => FreedOnlyUsedAfterReinit
  BY FreedMeansReinit DEF FreedOnlyUsedAfterReinit
<1> QED BY <1>1, IInvAlways, PTL

(***************************************************************************)
(* The proxies that nm_initialize forgets.                                 *)
(***************************************************************************)
(* Connected, and NMInfo has no pointer to them. *)
Forgotten == (Devices \cup Configs) \ {info.iface, info.config}

LEMMA ForgottenKept ==
  ASSUME TypeOK, NEW p \in Forgotten, proxies'[p].kind = proxies[p].kind,
         info'.iface # p, info'.config # p
  PROVE  p \in Forgotten'
  BY DEF Forgotten, Devices, Configs

(* A proxy that a second nm_initialize left behind is never released, by   *)
(* nm_info_free neither: it stays connected, to an NMInfo that may be      *)
(* freed, for as long as ofono runs.                                       *)
THEOREM ForgottenForGood == Spec => [][Forgotten \subseteq Forgotten']_vars
<1>1. ASSUME IInv, [Next]_vars, NEW p \in Forgotten PROVE p \in Forgotten'
  <2> USE <1>1 DEF IInv
  <2>1. /\ p \in Proxy /\ p # info.iface /\ p # info.config /\ p # NoProxy
        /\ proxies[p] # NotProxy /\ NotProxy.kind = "none"
    BY ProxyTyped, ConstantAssumption DEF Forgotten, Devices, Configs
  <2>2. CASE UNCHANGED <<proxies, info>>
    BY <2>1, <2>2, ForgottenKept
  <2>3. CASE Initialize
    <3>1. /\ p # info'.iface /\ p # info'.config /\ proxies'[p] = proxies[p]
      BY <2>1, <2>3, InitializeEffect
    <3> QED BY <3>1, ForgottenKept
  <2>4. CASE HandleDeviceSignal
    <3>1. p \notin Replaced
      BY <2>1 DEF Replaced
    <3>2. p # info'.iface /\ p # info'.config
      BY <2>1, <2>4, <3>1, DeviceSignalEffect DEF SignalsInv
    <3>3. proxies'[p] = proxies[p]
      BY <2>1, <2>4, <3>1, <3>2, DeviceSignalEffect DEF SignalsInv
    <3> QED BY <3>2, <3>3, ForgottenKept
  <2>5. CASE HandleConfigSignal
    <3>1. proxies'[p].kind = proxies[p].kind /\ info' = info
      BY <2>1, <2>5, ConfigSignalEffect DEF SignalsInv, HandleConfigSignal
    <3> QED BY <2>1, <3>1, ForgottenKept
  <2>7. CASE HandleSignalWithoutBus
    <3>1. proxies'[p].kind = proxies[p].kind /\ info' = info
      BY <2>1, <2>7, WithoutBusEffect DEF SignalsInv, HandleSignalWithoutBus
    <3> QED BY <2>1, <3>1, ForgottenKept
  <2>6. CASE Free
    <3>1. info'.iface = NoProxy /\ info'.config = NoProxy /\ p \notin Released
      BY <2>1, <2>6 DEF Free, Released
    <3>2. proxies'[p] = proxies[p]
      BY <2>1, <2>6, <3>1, ProxyTyped DEF Free
    <3> QED BY <2>1, <3>1, <3>2, ForgottenKept
  <2> QED BY <2>2, <2>3, <2>4, <2>5, <2>6, <2>7
          DEF Next, vars, SwitchConfig, ChangeAddress, DropSignal, HandleSignalFreed
<1>2. IInv /\ [Next]_vars => [Forgotten \subseteq Forgotten']_vars
  BY <1>1
<1> QED BY <1>2, IInvAlways, PTL DEF Spec

(* The freed NMInfo is used through such a proxy, and through no other.    *)
THEOREM FreedUsedByForgotten == Spec => [](broken => info.freed /\ Forgotten # {})
<1>1. IInv => (broken => info.freed /\ Forgotten # {})
  <2>1. SUFFICES ASSUME IInv, broken PROVE info.freed /\ Forgotten # {}
    OBVIOUS
  <2>2. info.freed /\ info.iface = NoProxy /\ info.config = NoProxy /\ Devices \cup Configs # {}
    BY <2>1 DEF IInv, PointersInv
  <2>3. NoProxy \notin Devices \cup Configs
    BY ConstantAssumption DEF Devices, Configs
  <2> QED BY <2>2, <2>3 DEF Forgotten
<1> QED BY <1>1, IInvAlways, PTL
=============================================================================
