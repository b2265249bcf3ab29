------------------------------- MODULE NmDbus -------------------------------
(***************************************************************************)
(* The NetworkManager monitor of nm_dbus.c: a proxy of the Wi-Fi device    *)
(* tells which IP4Config object the device uses, a proxy of that object    *)
(* tells its address, and every address goes to the modem by the callback  *)
(* (mtk_ims_nm_callback_wrapper, setWifiIpAddress).  nm_initialize runs at *)
(* each set_registration and forgets the proxies of the time before, which *)
(* stay connected to the same NMInfo.                                      *)
(*                                                                         *)
(* A proxy gets the PropertiesChanged signals that were emitted since it   *)
(* was created, in the order of the bus, when the main loop dispatches     *)
(* them; it is created with the values of that moment.  A signal that      *)
(* reaches several proxies is one step.                                    *)
(***************************************************************************)
EXTENDS Naturals, Sequences, FiniteSets

CONSTANTS
  Proxy,      \* GDBusProxy objects
  Path,       \* values of the property Ip4Config of the device
  Address,    \* what update_ip4_info reads of one: address, prefix, gateway, name servers
  NoProxy,    \* NULL
  MaxInits,   \* bound on the calls of nm_initialize
  MaxSignals  \* bound on the signals that wait in the main loop

ASSUME ConstantAssumption ==
  /\ NoProxy \notin Proxy /\ IsFiniteSet(Proxy)
  /\ "device" \notin Path
  /\ MaxInits \in Nat /\ MaxSignals \in Nat

VARIABLES
  nm,       \* NetworkManager: the path of the device's Ip4Config, the address at each path
  signals,  \* signals on their way, each with the proxies that will see it
  proxies,  \* [Proxy -> kind and object of the proxy and its cached address]
  info,     \* NMInfo: iface_proxy, ip4config_proxy; whether connection and callback
            \* are set; whether it is freed
  modem,    \* the address that went to the callback last, {} if none
  inits,    \* calls of nm_initialize so far
  broken    \* a handler has run with an NMInfo that is freed

vars == <<nm, signals, proxies, info, modem, inits, broken>>

NotProxy == [kind |-> "none"]

DeviceProxy == [kind |-> "device"]

ConfigProxies == [kind : {"config"}, path : Path, cache : Address]

(* Connected proxies of the device and of IP4Config objects. *)
Devices == {p \in Proxy : proxies[p].kind = "device"}
Configs == {p \in Proxy : proxies[p].kind = "config"}

Signal == [obj : {"device"}, value : Path, to : SUBSET Proxy]
            \cup [obj : Path, value : Address, to : SUBSET Proxy]

TypeOK ==
  /\ nm \in [path : Path, address : [Path -> Address]]
  /\ signals \in Seq(Signal)
  /\ proxies \in [Proxy -> {NotProxy, DeviceProxy} \cup ConfigProxies]
  /\ info \in [iface : Proxy \cup {NoProxy}, config : Proxy \cup {NoProxy},
              bus : BOOLEAN, freed : BOOLEAN]
  /\ modem \in {{}} \cup {{a} : a \in Address}
  /\ inits \in 0 .. MaxInits
  /\ broken \in BOOLEAN

(* The MtkIms is new: its nm_info is all zero. *)
Init ==
  /\ nm \in [path : Path, address : [Path -> Address]]
  /\ signals = <<>>
  /\ proxies = [p \in Proxy |-> NotProxy]
  /\ info = [iface |-> NoProxy, config |-> NoProxy, bus |-> FALSE, freed |-> FALSE]
  /\ modem = {}
  /\ inits = 0
  /\ broken = FALSE

(***************************************************************************)
(* NetworkManager.                                                         *)
(***************************************************************************)
Emit(obj, value, to) ==
  /\ Len(signals) < MaxSignals
  /\ signals' = Append(signals, [obj |-> obj, value |-> value, to |-> to])

(* The device gets another IP4Config object. *)
SwitchConfig(path) ==
  /\ ~broken
  /\ path # nm.path
  /\ nm' = [nm EXCEPT !.path = path]
  /\ Emit("device", path, Devices)
  /\ UNCHANGED <<proxies, info, modem, inits, broken>>

(* The address of the object in use changes. *)
ChangeAddress(a) ==
  /\ ~broken
  /\ a # nm.address[nm.path]
  /\ nm' = [nm EXCEPT !.address[nm.path] = a]
  /\ Emit(nm.path, a, {p \in Configs : proxies[p].path = nm.path})
  /\ UNCHANGED <<proxies, info, modem, inits, broken>>

(***************************************************************************)
(* nm_dbus.c.                                                              *)
(***************************************************************************)
(* A proxy is released: it is disconnected, and what was still on its way  *)
(* to it is dropped.                                                       *)
Without(ps) == [p \in Proxy |-> IF p \in ps THEN NotProxy ELSE proxies[p]]

Undelivered(sigs, ps) == [i \in DOMAIN sigs |-> [sigs[i] EXCEPT !.to = @ \ ps]]

(* Mutated form of Replaced: the proxy of before is not released. *)
ReplacedKept == {}

(* setup_ip4config_proxy releases the proxy of before, if NMInfo has one. *)
Replaced == {info.config} \ {NoProxy}

(* Mutated forms of SetupIp4ConfigProxy: the address is not read before    *)
(* its first signal; address and path are mixed up.                        *)
SetupIp4ConfigProxyUnread(base, path, n, d) ==
  \/ \E q \in {q \in Proxy : base[q] = NotProxy} :
       /\ proxies' = [base EXCEPT
                        ![q] = [kind |-> "config", path |-> path, cache |-> nm.address[path]]]
       /\ info' = [info EXCEPT !.iface = d, !.config = q, !.bus = TRUE]
       /\ UNCHANGED modem
  \/ /\ proxies' = base
     /\ info' = [info EXCEPT !.iface = d, !.config = NoProxy, !.bus = TRUE]
     /\ UNCHANGED modem

SetupIp4ConfigProxyMixed(base, path, n, d) ==
  \E q \in {q \in Proxy : base[q] = NotProxy} :
    /\ proxies' = [base EXCEPT ![q] = [kind |-> "config", path |-> path, cache |-> path]]
    /\ info' = [info EXCEPT !.iface = d, !.config = q, !.bus = TRUE]
    /\ modem' = {path}

(* setup_ip4config_proxy, run n times in a row with the proxies in base:   *)
(* the proxy of the IP4Config object at path is created and                *)
(* update_ip4_info gives its address to the callback; or it cannot be made *)
(* (the last time).  d is NMInfo's proxy of the device.                    *)
SetupIp4ConfigProxy(base, path, n, d) ==
  \/ \E q \in {q \in Proxy : base[q] = NotProxy} :
       /\ proxies' = [base EXCEPT
                        ![q] = [kind |-> "config", path |-> path, cache |-> nm.address[path]]]
       /\ info' = [info EXCEPT !.iface = d, !.config = q, !.bus = TRUE]
       /\ modem' = {nm.address[path]}
  \/ /\ proxies' = base
     /\ info' = [info EXCEPT !.iface = d, !.config = NoProxy, !.bus = TRUE]
     /\ modem' \in {modem} \cup (IF n > 1 THEN {{nm.address[path]}} ELSE {})

(* nm_initialize and find_iface: NMInfo is cleared, whatever it had; there *)
(* may be no bus; the device of the interface is found and its             *)
(* configuration set up, or not.                                           *)
Initialize ==
  /\ ~broken /\ ~info.freed
  /\ inits < MaxInits
  /\ inits' = inits + 1
  /\ \/ \E d \in Proxy : /\ proxies[d] = NotProxy
                        /\ SetupIp4ConfigProxy([proxies EXCEPT ![d] = DeviceProxy],
                                               nm.path, 1, d)
     \/ \E bus \in BOOLEAN :
          /\ info' = [info EXCEPT !.iface = NoProxy, !.config = NoProxy, !.bus = bus]
          /\ UNCHANGED <<proxies, modem>>
  /\ UNCHANGED <<nm, signals, broken>>

(* on_interface_properties_changed, in each proxy of the device. *)
HandleDeviceSignal ==
  LET to == Head(signals).to IN
  /\ ~broken /\ ~info.freed /\ info.bus
  /\ signals # <<>> /\ Head(signals).obj = "device" /\ to # {}
  /\ SetupIp4ConfigProxy(Without(Replaced), Head(signals).value, Cardinality(to), info.iface)
  /\ signals' = Undelivered(Tail(signals), Replaced)
  /\ UNCHANGED <<nm, inits, broken>>

(* The proxies ps of an object that has the address a now. *)
Cached(ps, a) == [p \in Proxy |-> IF p \in ps THEN [proxies[p] EXCEPT !.cache = a] ELSE proxies[p]]

(* on_ip4config_properties_changed, in each proxy of the object.           *)
HandleConfigSignal ==
  LET to == Head(signals).to
      a == Head(signals).value IN
  /\ ~broken /\ ~info.freed /\ info.bus
  /\ signals # <<>> /\ Head(signals).obj # "device" /\ to # {}
  /\ proxies' = Cached(to, a)
  /\ modem' = {a}
  /\ signals' = Tail(signals)
  /\ UNCHANGED <<nm, info, inits, broken>>

(* The same handlers in forgotten proxies when the last nm_initialize found*)
(* no bus: without a connection no proxy is created, without a callback no *)
(* address goes anywhere.                                                  *)
HandleSignalWithoutBus ==
  LET to == Head(signals).to IN
  /\ ~broken /\ ~info.freed /\ ~info.bus
  /\ signals # <<>> /\ to # {}
  /\ proxies' = IF Head(signals).obj = "device" THEN proxies ELSE Cached(to, Head(signals).value)
  /\ signals' = Tail(signals)
  /\ UNCHANGED <<nm, info, modem, inits, broken>>

(* A signal that no proxy sees (any more). *)
DropSignal ==
  /\ ~broken
  /\ signals # <<>> /\ Head(signals).to = {}
  /\ signals' = Tail(signals)
  /\ UNCHANGED <<nm, proxies, info, modem, inits, broken>>

(* The proxies nm_info_free releases. *)
Released == {info.iface, info.config} \ {NoProxy}

(* nm_info_free: the MtkIms is finalized. *)
Free ==
  /\ ~broken /\ ~info.freed
  /\ proxies' = Without(Released)
  /\ signals' = Undelivered(signals, Released)
  /\ info' = [iface |-> NoProxy, config |-> NoProxy, bus |-> FALSE, freed |-> TRUE]
  /\ UNCHANGED <<nm, modem, inits, broken>>

(* A proxy that was forgotten runs its handler with the freed NMInfo. *)
HandleSignalFreed ==
  /\ ~broken /\ info.freed
  /\ signals # <<>> /\ Head(signals).to # {}
  /\ broken' = TRUE
  /\ UNCHANGED <<nm, signals, proxies, info, modem, inits>>

Next ==
  \/ \E path \in Path : SwitchConfig(path)
  \/ \E a \in Address : ChangeAddress(a)
  \/ Initialize
  \/ HandleDeviceSignal
  \/ HandleConfigSignal
  \/ HandleSignalWithoutBus
  \/ DropSignal
  \/ Free
  \/ HandleSignalFreed

Spec == Init /\ [][Next]_vars

(***************************************************************************)
(* Properties.                                                             *)
(***************************************************************************)
(* When no signal is on its way, and the last attempt to follow the        *)
(* configuration succeeded, the callback was given the address of the      *)
(* device as it is, however often nm_initialize ran.                       *)
InSyncWhenHandled ==
  signals = <<>> /\ info.config # NoProxy => modem = {nm.address[nm.path]}

(* NMInfo's pointers lead to connected proxies, and no more than one proxy *)
(* of each kind is left behind by each nm_initialize.                      *)
ProxiesBounded ==
  /\ info.iface \in Devices \cup {NoProxy} /\ info.config \in Configs \cup {NoProxy}
  /\ \A kind \in {Devices, Configs} :
        Cardinality(kind) <= inits - (IF info.freed /\ inits > 0 THEN 1 ELSE 0)

(* The freed NMInfo is used only if nm_initialize ran more than once.      *)
FreedOnlyUsedAfterReinit == broken => inits > 1
=============================================================================
