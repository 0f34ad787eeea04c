-------------------------- MODULE DeploymentProofs --------------------------
(***************************************************************************)
(* Proofs about Deployment, for every config file, every set of names,     *)
(* daemons and ports, and every timing of beacons: the types, the          *)
(* consistency of the registry, the routes of accepted names, and what a   *)
(* discovered route leads to.                                              *)
(***************************************************************************)
EXTENDS Deployment, TLAPS

(***************************************************************************)
(* The inductive invariant: one part about the registry, one about the     *)
(* network; no step needs the other's.                                     *)
(***************************************************************************)

\* The loops visit names of their own map.
TodoKnown ==
    /\ phase = "applying" => todo \subseteq DOMAIN cfg
    /\ phase = "fallbacks" => todo \subseteq DOMAIN fallback

\* While the routes are built every device has one or is yet to be visited.
EveryDeviceRouted ==
    /\ phase = "building" => DOMAIN routes \cup todo = DOMAIN devices
    /\ phase = "ready" => DOMAIN routes = DOMAIN devices

\* While a window is open the address of every daemon that listens, and that
\* of every beacon heard, is one that was served since it opened.
AddressesServed ==
    /\ Open => Listening \subseteq listened
    /\ \A i \in DOMAIN peers : peers[i].port = 0 \/ peers[i] \in listened

\* A daemon that lost nothing so far was heard, or its next beacon comes
\* before Interval + Late of the window are over.
SteadyOnTime ==
    \A d \in steady :
        /\ daemon[d].at = "announcing"
        /\ Heard(d) \/ daemon[d].due + (window - remaining) <= Interval + Late - 1

RegInv == RegTypeOK /\ RegistrySound /\ TodoKnown /\ EveryDeviceRouted
NetInv == NetTypeOK /\ AddressesServed /\ SteadyOnTime
IInv == RegInv /\ NetInv

(***************************************************************************)
(* The registry.                                                           *)
(***************************************************************************)

LEMMA InsertEffect ==
    ASSUME NEW map, NEW n, NEW value
    PROVE  /\ DOMAIN Insert(map, n, value) = DOMAIN map \cup {n}
           /\ Insert(map, n, value)[n] = value
           /\ \A m \in DOMAIN map \ {n} : Insert(map, n, value)[m] = map[m]
BY DEF Insert

\* A canonical name is a device's own, and belongs to one device only.
LEMMA CanonicalName ==
    ASSUME RegTypeOK, RegistrySound, NEW n, Registered(n)
    PROVE  /\ CanonicalOf(n) \in DOMAIN devices /\ CanonicalOf(n) \in Name
           /\ CanonicalOf(n) \notin DOMAIN aliases
BY DEF RegTypeOK, RegistrySound, Registered, CanonicalOf

LEMMA RegInvInit == RegInit => RegInv
<1> SUFFICES ASSUME RegInit PROVE RegInv
  OBVIOUS
<1>1. /\ devices = Minimum /\ aliases = MinimumAliases /\ todo = {} /\ phase = "reading"
      /\ DOMAIN cfg = {} /\ DOMAIN fallback = {} /\ DOMAIN routes = {}
      /\ flag \in ModeFlags /\ left = MaxLines /\ mode = NoValue
  BY DEF RegInit
<1>2. DOMAIN aliases = {"Ventoinha", "LedIndicador"}
      /\ aliases["Ventoinha"] = "Fan" /\ aliases["LedIndicador"] = "StatusLed"
  BY <1>1 DEF MinimumAliases
<1>3. DOMAIN devices = Devices
  BY <1>1 DEF Minimum
<1>4. ASSUME NEW n \in Devices
      PROVE  /\ devices[n] \in DeviceEntry
             /\ devices[n].aliases = {a \in DOMAIN aliases : aliases[a] = n}
  <2>1. CASE n \in {"cpu_temp", "cpu_power", "attention"}
    <3>1. devices[n] = Plain("sensor", {})
      BY <1>1, <2>1 DEF Minimum
    <3>2. {a \in DOMAIN aliases : aliases[a] = n} = {}
      BY <1>2, <2>1
    <3>3. QED
      BY <3>1, <3>2 DEF Plain, DeviceEntry, Kind, DeviceMode, Endpoint
  <2>2. CASE n \notin {"cpu_temp", "cpu_power", "attention"}
    <3> DEFINE A == {a \in {"Ventoinha", "LedIndicador"} : MinimumAliases[a] = n}
    <3>1. devices[n] = Plain("actor", A)
      BY <1>1, <2>2 DEF Minimum
    <3>2. A = {a \in DOMAIN aliases : aliases[a] = n}
      BY <1>1, <1>2
    <3>3. A \in SUBSET Name
      BY RegistryAssumption
    <3> HIDE DEF A
    <3>4. QED
      BY <3>1, <3>2, <3>3 DEF Plain, DeviceEntry, Kind, DeviceMode, Endpoint
  <2>3. QED
    BY <2>1, <2>2
<1>5. RegTypeOK
  BY <1>1, <1>2, <1>3, <1>4, RegistryAssumption DEF RegTypeOK, Phase
<1>6. RegistrySound
  <2>1. DOMAIN devices \cap DOMAIN aliases = {}
    BY <1>2, <1>3 DEF Devices
  <2>2. \A a \in DOMAIN aliases : aliases[a] \in DOMAIN devices
    BY <1>2, <1>3 DEF Devices
  <2>3. QED
    BY <1>3, <1>4, <2>1, <2>2 DEF RegistrySound
<1>7. QED
  BY <1>1, <1>5, <1>6 DEF RegInv, TodoKnown, EveryDeviceRouted

\* Steps that leave the registry alone keep it sound.
LEMMA RefuseKeeps ==
    ASSUME RegInv, Refuse
    PROVE  RegInv'
BY DEF RegInv, Refuse, file, registry, RegTypeOK, RegistrySound, TodoKnown, EveryDeviceRouted, Phase

\* What a line declares fits the block of a device.
LEMMA DeclaredType ==
    ASSUME RegTypeOK, NEW line \in Lines, line.key = "device"
    PROVE  line.name \in Name /\ Declared(line) \in DeviceCfg
<1>1. Readable(line) /\ \A n \in DOMAIN cfg : cfg[n] \in DeviceCfg
  BY RegistryAssumption DEF RegTypeOK
<1>2. line.name \in Name /\ \/ line.field = "alias_de" /\ line.value \in Name
                            \/ line.field = "mode" /\ line.value \in DeviceMode
                            \/ line.field = "endpoint" /\ line.value \in Endpoint
                            \/ line.field \in Field
  BY <1>1 DEF Readable
<1> DEFINE d == IF line.name \in DOMAIN cfg THEN cfg[line.name] ELSE Blank
<1>3. d \in DeviceCfg
  BY <1>1 DEF Blank, DeviceCfg
<1>4. Declared(line) = CASE line.field = "alias_de" -> [d EXCEPT !.alias_de = line.value]
                         [] line.field = "mode"     -> [d EXCEPT !.mode = line.value]
                         [] line.field = "endpoint" -> [d EXCEPT !.endpoint = line.value]
                         [] OTHER                   -> [d EXCEPT !.given = @ \cup {line.field}]
  BY DEF Declared
<1> HIDE DEF d
<1>5. CASE line.field = "alias_de"
  BY <1>2, <1>3, <1>4, <1>5 DEF DeviceCfg, Field
<1>6. CASE line.field = "mode"
  BY <1>2, <1>3, <1>4, <1>6 DEF DeviceCfg, Field
<1>7. CASE line.field = "endpoint"
  BY <1>2, <1>3, <1>4, <1>7 DEF DeviceCfg, Field
<1>8. CASE line.field \notin {"alias_de", "mode", "endpoint"}
  BY <1>2, <1>3, <1>4, <1>8 DEF DeviceCfg
<1>9. QED
  BY <1>2, <1>5, <1>6, <1>7, <1>8

LEMMA ReadLineKeeps ==
    ASSUME RegInv, NEW line \in Lines, ReadLine(line)
    PROVE  RegInv'
<1>1. RegTypeOK /\ RegistrySound
  BY DEF RegInv
<1>2. /\ phase = "reading" /\ UNCHANGED <<flag, phase, todo, devices, aliases, routes>>
      /\ left > 0 /\ left' = left - 1
  BY DEF ReadLine, registry
<1>3. left' \in 0 .. MaxLines
  BY <1>1, <1>2, RegistryAssumption DEF RegTypeOK
<1>4. Readable(line) /\ line.key # "malformed"
  BY RegistryAssumption DEF ReadLine
<1>5. RegTypeOK'
  <2>1. CASE line.key = "mode"
    <3>1. mode' \in OperationMode /\ UNCHANGED <<cfg, fallback>>
      BY <1>4, <2>1 DEF ReadLine, Readable
    <3>2. QED
      BY <1>1, <1>2, <1>3, <3>1 DEF RegTypeOK
  <2>2. CASE line.key = "fallback"
    <3>1. /\ fallback' = Insert(fallback, line.name, line.value) /\ UNCHANGED <<cfg, mode>>
          /\ line.name \in Name /\ line.value \in Seq(Name)
      BY <1>4, <2>2 DEF ReadLine, Readable
    <3>2. DOMAIN fallback' \subseteq Name /\ \A n \in DOMAIN fallback' : fallback'[n] \in Seq(Name)
      BY <1>1, <3>1 DEF RegTypeOK, Insert
    <3>3. QED
      BY <1>1, <1>2, <1>3, <3>1, <3>2 DEF RegTypeOK
  <2>3. CASE line.key = "device"
    <3>1. cfg' = Insert(cfg, line.name, Declared(line)) /\ UNCHANGED <<fallback, mode>>
      BY <2>3 DEF ReadLine
    <3>2. line.name \in Name /\ Declared(line) \in DeviceCfg
      BY <1>1, <2>3, DeclaredType
    <3>3. DOMAIN cfg' \subseteq Name /\ \A n \in DOMAIN cfg' : cfg'[n] \in DeviceCfg
      BY <1>1, <3>1, <3>2 DEF RegTypeOK, Insert
    <3>4. QED
      BY <1>1, <1>2, <1>3, <3>1, <3>3 DEF RegTypeOK
  <2>4. QED
    BY <1>4, <2>1, <2>2, <2>3 DEF Readable
<1>6. RegistrySound'
  BY <1>1, <1>2 DEF RegistrySound
<1>7. QED
  BY <1>2, <1>5, <1>6 DEF RegInv, TodoKnown, EveryDeviceRouted

(***************************************************************************)
(* FxpConfig::apply.                                                       *)
(***************************************************************************)

\* What a visit leaves to be shown: the types of the devices and the aliases,
\* and that they fit together; devices are only added.
LEMMA VisitKeeps ==
    ASSUME RegInv, NEW n, phase \in {"applying", "fallbacks"}, Visited(n),
           DOMAIN devices' \subseteq Name, DOMAIN devices \subseteq DOMAIN devices',
           \A m \in DOMAIN devices' : devices'[m] \in DeviceEntry,
           DOMAIN aliases' \subseteq Name, RegistrySound'
    PROVE  RegInv'
<1>1. /\ todo' = todo \ {n}
      /\ UNCHANGED <<flag, phase, left, cfg, fallback, mode, routes>>
  BY DEF Visited, file
<1>2. RegTypeOK'
  BY <1>1 DEF RegInv, RegTypeOK
<1>3. TodoKnown' /\ EveryDeviceRouted'
  BY <1>1 DEF RegInv, TodoKnown, EveryDeviceRouted
<1>4. QED
  BY <1>2, <1>3 DEF RegInv

LEMMA SetAliasKeeps ==
    ASSUME RegInv, NEW n \in todo, SetAlias(n)
    PROVE  RegInv'
<1> DEFINE of == cfg[n].alias_de
<1>1. RegTypeOK /\ RegistrySound /\ n \in Name
  BY DEF RegInv, RegTypeOK
<1>2. /\ of \notin DOMAIN aliases /\ of \in DOMAIN devices
      /\ n \notin DOMAIN devices /\ n \notin DOMAIN aliases
      /\ aliases' = Insert(aliases, n, of)
      /\ devices' = [devices EXCEPT ![of].aliases = @ \cup {n}]
      /\ Visited(n) /\ phase = "applying"
  BY DEF SetAlias, AliasFails, Occupied, Applying
<1> HIDE DEF of
<1>3. /\ DOMAIN devices \subseteq Name /\ \A m \in DOMAIN devices : devices[m] \in DeviceEntry
      /\ DOMAIN aliases \subseteq Name
  BY <1>1 DEF RegTypeOK
<1>4. DOMAIN devices' = DOMAIN devices
  BY <1>2
<1>5. /\ devices'[of] \in DeviceEntry /\ devices'[of].aliases = devices[of].aliases \cup {n}
      /\ \A m \in DOMAIN devices \ {of} : devices'[m] = devices[m]
  BY <1>1, <1>2, <1>3 DEF DeviceEntry
<1>6. /\ DOMAIN aliases' = DOMAIN aliases \cup {n} /\ aliases'[n] = of
      /\ \A a \in DOMAIN aliases : aliases'[a] = aliases[a]
  BY <1>2 DEF Insert
<1>7. RegistrySound'
  <2>1. /\ DOMAIN devices \cap DOMAIN aliases = {}
        /\ \A a \in DOMAIN aliases : aliases[a] \in DOMAIN devices
        /\ \A m \in DOMAIN devices : devices[m].aliases = {a \in DOMAIN aliases : aliases[a] = m}
    BY <1>1 DEF RegistrySound
  <2>2. ASSUME NEW m \in DOMAIN devices
        PROVE  devices'[m].aliases = {a \in DOMAIN aliases' : aliases'[a] = m}
    <3>1. CASE m = of
      BY <1>2, <1>5, <1>6, <2>1, <3>1
    <3>2. CASE m # of
      BY <1>2, <1>5, <1>6, <2>1, <3>2
    <3>3. QED
      BY <3>1, <3>2
  <2>3. DOMAIN devices' \cap DOMAIN aliases' = {}
    BY <1>2, <1>4, <1>6, <2>1
  <2>4. \A a \in DOMAIN aliases' : aliases'[a] \in DOMAIN devices'
    BY <1>2, <1>4, <1>6, <2>1
  <2>5. QED
    BY <1>4, <2>2, <2>3, <2>4 DEF RegistrySound
<1>8. \A m \in DOMAIN devices' : devices'[m] \in DeviceEntry
  BY <1>3, <1>4, <1>5
<1>9. DOMAIN devices' \subseteq Name /\ DOMAIN devices \subseteq DOMAIN devices'
      /\ DOMAIN aliases' \subseteq Name
  BY <1>1, <1>3, <1>4, <1>6
<1>10. QED
  BY <1>2, <1>7, <1>8, <1>9, VisitKeeps

\* A device that is changed in place keeps the registry sound if it keeps its
\* names.
LEMMA ChangeKeeps ==
    ASSUME RegInv, NEW n, NEW c \in DOMAIN devices,
           phase \in {"applying", "fallbacks"}, Visited(n), UNCHANGED aliases,
           DOMAIN devices' = DOMAIN devices,
           \A m \in DOMAIN devices \ {c} : devices'[m] = devices[m],
           devices'[c] \in DeviceEntry, devices'[c].aliases = devices[c].aliases
    PROVE  RegInv'
<1>1. RegistrySound'
  BY DEF RegInv, RegistrySound
<1>2. /\ \A m \in DOMAIN devices' : devices'[m] \in DeviceEntry
      /\ DOMAIN devices' \subseteq Name /\ DOMAIN aliases' \subseteq Name
  BY DEF RegInv, RegTypeOK
<1>3. QED
  BY <1>1, <1>2, VisitKeeps

LEMMA OverrideKeeps ==
    ASSUME RegInv, NEW n \in todo, Override(n)
    PROVE  RegInv'
<1> DEFINE c == CanonicalOf(n)
           m1 == Or(cfg[n].mode, devices[c].mode)
           e1 == Or(cfg[n].endpoint, devices[c].endpoint)
<1>1. RegTypeOK /\ RegistrySound /\ TodoKnown
  BY DEF RegInv
<1>2. phase = "applying" /\ Registered(n) /\ Visited(n) /\ UNCHANGED aliases
  BY DEF Override, Applying
<1>3. c \in DOMAIN devices /\ devices[c] \in DeviceEntry
  BY <1>1, <1>2, CanonicalName DEF RegTypeOK
<1>4. cfg[n] \in DeviceCfg
  BY <1>1, <1>2 DEF TodoKnown, RegTypeOK
<1>5. m1 \in DeviceMode /\ e1 \in Endpoint
  BY <1>3, <1>4 DEF Or, DeviceCfg, DeviceEntry
<1>6. devices' = [devices EXCEPT ![c].mode = m1, ![c].endpoint = e1]
  BY <1>3 DEF Override
<1> HIDE DEF c, m1, e1
<1>7. /\ DOMAIN devices' = DOMAIN devices
      /\ \A m \in DOMAIN devices \ {c} : devices'[m] = devices[m]
  BY <1>3, <1>6
<1>8. devices'[c] = [[devices[c] EXCEPT !.mode = m1] EXCEPT !.endpoint = e1]
  BY <1>3, <1>6
<1>9. devices'[c] \in DeviceEntry /\ devices'[c].aliases = devices[c].aliases
  BY <1>3, <1>5, <1>8 DEF DeviceEntry
<1>10. QED
  BY <1>2, <1>3, <1>7, <1>9, ChangeKeeps

LEMMA ExtendKeeps ==
    ASSUME RegInv, NEW n \in todo, Extend(n)
    PROVE  RegInv'
<1> DEFINE kind == IF "grandeza" \in cfg[n].given THEN "sensor" ELSE "actor"
           new == [Plain(kind, {}) EXCEPT !.mode = Or(cfg[n].mode, @),
                                          !.endpoint = Or(cfg[n].endpoint, @)]
<1>1. RegTypeOK /\ RegistrySound /\ TodoKnown /\ n \in Name
  BY DEF RegInv, RegTypeOK
<1>2. /\ phase = "applying" /\ ~Registered(n) /\ Visited(n) /\ UNCHANGED aliases
      /\ devices' = Insert(devices, n, new)
  BY DEF Extend, Applying
<1>3. cfg[n] \in DeviceCfg
  BY <1>1, <1>2 DEF TodoKnown, RegTypeOK
<1>4. new \in DeviceEntry /\ new.aliases = {}
  <2>1. /\ Plain(kind, {}) \in DeviceEntry /\ Plain(kind, {}).aliases = {}
        /\ Plain(kind, {}).mode = "simulado" /\ Plain(kind, {}).endpoint = "simulado"
    BY DEF Plain, DeviceEntry, Kind, DeviceMode, Endpoint
  <2>2. /\ Or(cfg[n].mode, "simulado") \in DeviceMode
        /\ Or(cfg[n].endpoint, "simulado") \in Endpoint
    BY <1>3 DEF Or, DeviceCfg, DeviceMode, Endpoint
  <2>3. new = [Plain(kind, {}) EXCEPT !.mode = Or(cfg[n].mode, "simulado"),
                                      !.endpoint = Or(cfg[n].endpoint, "simulado")]
    BY <2>1
  <2>4. QED
    BY <2>1, <2>2, <2>3 DEF DeviceEntry
<1> HIDE DEF new
<1>5. n \notin DOMAIN devices /\ n \notin DOMAIN aliases
  BY <1>1, <1>2 DEF Registered, CanonicalOf, RegistrySound
<1>6. /\ DOMAIN devices' = DOMAIN devices \cup {n} /\ devices'[n] = new
      /\ \A m \in DOMAIN devices : devices'[m] = devices[m]
  BY <1>2, <1>5 DEF Insert
<1>7. RegistrySound'
  <2>1. /\ DOMAIN devices \cap DOMAIN aliases = {}
        /\ \A a \in DOMAIN aliases : aliases[a] \in DOMAIN devices
        /\ \A m \in DOMAIN devices : devices[m].aliases = {a \in DOMAIN aliases : aliases[a] = m}
    BY <1>1 DEF RegistrySound
  <2>2. ASSUME NEW m \in DOMAIN devices'
        PROVE  devices'[m].aliases = {a \in DOMAIN aliases : aliases[a] = m}
    <3>1. CASE m = n
      BY <1>4, <1>5, <1>6, <2>1, <3>1
    <3>2. CASE m # n
      BY <1>6, <2>1, <3>2
    <3>3. QED
      BY <3>1, <3>2
  <2>3. QED
    BY <1>2, <1>5, <1>6, <2>1, <2>2 DEF RegistrySound
<1>8. \A m \in DOMAIN devices' : devices'[m] \in DeviceEntry
  BY <1>1, <1>4, <1>6 DEF RegTypeOK
<1>9. DOMAIN devices' \subseteq Name /\ DOMAIN aliases' \subseteq Name
  BY <1>1, <1>2, <1>6 DEF RegTypeOK
<1>10. QED
  BY <1>2, <1>6, <1>7, <1>8, <1>9, VisitKeeps

LEMMA ApplyFallbackKeeps ==
    ASSUME RegInv, NEW n \in todo, ApplyFallback(n)
    PROVE  RegInv'
<1> DEFINE c == CanonicalOf(n)
<1>1. RegTypeOK /\ RegistrySound /\ TodoKnown
  BY DEF RegInv
<1>2. phase = "fallbacks" /\ Registered(n) /\ Visited(n) /\ UNCHANGED aliases
  BY DEF ApplyFallback, FallbackFails
<1>3. c \in DOMAIN devices /\ devices[c] \in DeviceEntry
  BY <1>1, <1>2, CanonicalName DEF RegTypeOK
<1>4. fallback[n] \in Seq(Name)
  BY <1>1, <1>2 DEF TodoKnown, RegTypeOK
<1>5. devices' = [devices EXCEPT ![c].fallback = fallback[n]]
  BY DEF ApplyFallback
<1> HIDE DEF c
<1>6. /\ DOMAIN devices' = DOMAIN devices
      /\ \A m \in DOMAIN devices \ {c} : devices'[m] = devices[m]
      /\ devices'[c] = [devices[c] EXCEPT !.fallback = fallback[n]]
  BY <1>3, <1>5
<1>7. devices'[c] \in DeviceEntry /\ devices'[c].aliases = devices[c].aliases
  BY <1>3, <1>4, <1>6 DEF DeviceEntry
<1>8. QED
  BY <1>2, <1>3, <1>6, <1>7, ChangeKeeps

(***************************************************************************)
(* From one loop to the next, and the routes.                              *)
(***************************************************************************)

LEMMA PhaseKeeps ==
    ASSUME RegInv, EndOfFile \/ DevicesApplied \/ SelectMode \/ Built
    PROVE  RegInv'
<1>1. RegTypeOK /\ RegistrySound /\ EveryDeviceRouted
  BY DEF RegInv
<1>2. UNCHANGED <<flag, devices, aliases, routes>>
  BY DEF EndOfFile, DevicesApplied, SelectMode, Built, registry
<1>3. RegistrySound'
  BY <1>1, <1>2 DEF RegistrySound
<1>4. CASE EndOfFile
  BY <1>1, <1>2, <1>3, <1>4, RegistryAssumption
     DEF EndOfFile, RegInv, RegTypeOK, TodoKnown, EveryDeviceRouted, Phase
<1>5. CASE DevicesApplied
  BY <1>1, <1>2, <1>3, <1>5
     DEF DevicesApplied, file, RegInv, RegTypeOK, TodoKnown, EveryDeviceRouted, Phase
<1>6. CASE SelectMode
  <2>1. mode' \in OperationMode
    BY <1>1, <1>6, RegistryAssumption DEF SelectMode, Or, RegTypeOK, OperationMode
  <2>2. DOMAIN cfg' = {} /\ DOMAIN fallback' = {}
    BY <1>6 DEF SelectMode
  <2>3. QED
    BY <1>1, <1>2, <1>3, <1>6, <2>1, <2>2
       DEF SelectMode, RegInv, RegTypeOK, TodoKnown, EveryDeviceRouted, Phase
<1>7. CASE Built
  BY <1>1, <1>2, <1>3, <1>7
     DEF Built, file, RegInv, RegTypeOK, TodoKnown, EveryDeviceRouted, Phase
<1>8. QED
  BY <1>4, <1>5, <1>6, <1>7

LEMMA RoutedKeeps ==
    ASSUME RegInv, NEW n, NEW route, Building(n), Routed(n, route)
    PROVE  RegInv'
<1>1. /\ phase = "building" /\ n \in todo
      /\ routes' = Insert(routes, n, route) /\ todo' = todo \ {n}
      /\ UNCHANGED <<flag, phase, left, cfg, fallback, mode, devices, aliases>>
  BY DEF Building, IsNext, Routed, file, registry
<1>2. DOMAIN routes' = DOMAIN routes \cup {n}
  BY <1>1 DEF Insert
<1>3. RegTypeOK' /\ EveryDeviceRouted' /\ TodoKnown'
  BY <1>1, <1>2 DEF RegInv, RegTypeOK, EveryDeviceRouted, TodoKnown
<1>4. RegistrySound'
  BY <1>1 DEF RegInv, RegistrySound
<1>5. QED
  BY <1>3, <1>4 DEF RegInv

LEMMA ConfigureKeeps ==
    ASSUME RegInv, Configure
    PROVE  RegInv'
<1>1. CASE \E line \in Lines : ReadLine(line)
  BY <1>1, ReadLineKeeps
<1>2. CASE ReadMalformed \/ EndOfInvalidFile
  BY <1>2, RefuseKeeps DEF ReadMalformed, EndOfInvalidFile
<1>3. CASE EndOfFile \/ DevicesApplied \/ SelectMode \/ Built
  BY <1>3, PhaseKeeps
<1>4. ASSUME NEW n \in todo,
             SetAliasFails(n) \/ DeviceFails(n) \/ ApplyFallbackFails(n)
      PROVE  RegInv'
  BY <1>4, RefuseKeeps DEF SetAliasFails, DeviceFails, ApplyFallbackFails
<1>5. ASSUME NEW n \in todo, SetAlias(n) \/ Override(n) \/ Extend(n) \/ ApplyFallback(n)
      PROVE  RegInv'
  BY <1>5, SetAliasKeeps, OverrideKeeps, ExtendKeeps, ApplyFallbackKeeps
<1>6. ASSUME NEW n \in todo, Build(n)
      PROVE  RegInv'
  BY <1>6, RoutedKeeps DEF Build
<1>7. QED
  BY <1>1, <1>2, <1>3, <1>4, <1>5, <1>6 DEF Configure

(***************************************************************************)
(* The network.                                                            *)
(***************************************************************************)

\* The states of a daemon, one field at a time.
DaemonOK(r, d) ==
    \/ r = Down
    \/ /\ r = [at |-> "serving", port |-> r.port, due |-> 0] /\ r.port \in PortsOf(d)
    \/ /\ r = [at |-> "announcing", port |-> r.port, due |-> r.due]
       /\ r.port \in PortsOf(d) /\ r.due \in 0 .. Interval + Late

LEMMA DaemonStates ==
    ASSUME NEW d \in Daemon, NEW r
    PROVE  DaemonOK(r, d) <=>
             r \in States(d) \cup [at : {"announcing"}, port : PortsOf(d), due : 0 .. Interval + Late]
<1>1. Interval \in Nat /\ Late \in Nat /\ Interval > 0
  BY DiscoveryAssumption
<1>2. ASSUME r \in [at : {"serving"}, port : PortsOf(d), due : {0}]
      PROVE  r = [at |-> "serving", port |-> r.port, due |-> 0] /\ r.port \in PortsOf(d)
  BY <1>2
<1>3. ASSUME r \in [at : {"announcing"}, port : PortsOf(d), due : 0 .. Interval + Late]
      PROVE  /\ r = [at |-> "announcing", port |-> r.port, due |-> r.due]
             /\ r.port \in PortsOf(d) /\ r.due \in 0 .. Interval + Late
  BY <1>3
<1>4. [at : {"announcing"}, port : PortsOf(d), due : 0 .. Interval + Late - 1]
        \subseteq [at : {"announcing"}, port : PortsOf(d), due : 0 .. Interval + Late]
  <2>1. 0 .. Interval + Late - 1 \subseteq 0 .. Interval + Late
    BY <1>1
  <2>2. QED
    BY <2>1
<1>5. r = [at |-> "serving", port |-> r.port, due |-> 0] /\ r.port \in PortsOf(d)
        => r \in [at : {"serving"}, port : PortsOf(d), due : {0}]
  OBVIOUS
<1>6. ASSUME NEW Due, r.port \in PortsOf(d), r.due \in Due,
             r = [at |-> "announcing", port |-> r.port, due |-> r.due]
      PROVE  r \in [at : {"announcing"}, port : PortsOf(d), due : Due]
  BY <1>6
<1>7. QED
  BY <1>2, <1>3, <1>4, <1>5, <1>6 DEF DaemonOK, States

LEMMA PortsAreNumbers ==
    ASSUME NEW d \in Daemon
    PROVE  /\ PortsOf(d) \subseteq Nat
           /\ Peer[d].serve = "unix" => PortsOf(d) = {0}
           /\ \A port \in Nat : Address(d, port) \in [identifier : STRING, host : STRING, port : Nat]
<1>1. /\ Peer[d] \in [identifier : STRING, host : STRING, serve : {"tcp", "tls", "unix"}]
      /\ Port \subseteq Nat
  BY DiscoveryAssumption
<1>2. QED
  BY <1>1 DEF PortsOf, Address

\* The types, with the daemons one field at a time.
NetTypes ==
    /\ window \in Windows /\ remaining \in 0 .. window
    /\ DOMAIN daemon = Daemon /\ \A d \in Daemon : DaemonOK(daemon[d], d)
    /\ kills \in 0 .. Restarts /\ steady \subseteq Daemon
    /\ peers \in Seq([identifier : STRING, host : STRING, port : Nat])
    /\ \A i, j \in DOMAIN peers :
          i # j => peers[i].identifier # peers[j].identifier \/ peers[i].host # peers[j].host

LEMMA NetTypesEquiv == NetTypeOK <=> NetTypes
BY DaemonStates DEF NetTypeOK, NetTypes

LEMMA NetTypesEquivNext == NetTypeOK' <=> NetTypes'
BY DaemonStates DEF NetTypeOK, NetTypes

Timing == Interval \in Nat /\ Late \in Nat /\ window \in Nat /\ remaining \in Nat

LEMMA NetNumbers ==
    ASSUME NetTypes
    PROVE  Timing /\ Interval > 0 /\ window > 0 /\ Restarts \in Nat
BY DiscoveryAssumption DEF NetTypes, Timing

LEMMA QuietKeeps ==
    ASSUME window \in Windows, remaining' = 0, daemon' = Quiet, peers' = <<>>, kills' = 0,
           steady' = {}, listened' = {}, window' = window
    PROVE  NetInv'
<1>1. window \in Nat /\ Restarts \in Nat
  BY DiscoveryAssumption
<1>2. NetTypes'
  BY <1>1 DEF NetTypes, Quiet, DaemonOK
<1>3. AddressesServed' /\ SteadyOnTime'
  BY DEF AddressesServed, SteadyOnTime, Open
<1>4. QED
  BY <1>2, <1>3, NetTypesEquivNext DEF NetInv

LEMMA OpenWindowKeeps ==
    ASSUME NetInv, OpenWindow
    PROVE  NetInv'
<1>1. NetTypes
  BY NetTypesEquiv DEF NetInv
<1>2. Timing /\ Interval > 0 /\ window > 0 /\ Restarts \in Nat
  BY <1>1, NetNumbers
<1>3. /\ remaining' = window /\ window' = window /\ peers' = <<>> /\ kills' = 0
      /\ steady' = {d \in Daemon : daemon'[d].at = "announcing"}
      /\ listened' = Listening'
  BY DEF OpenWindow
<1>4. DOMAIN daemon' = Daemon /\ \A d \in Daemon : daemon'[d] \in States(d)
  BY DEF OpenWindow
<1>5. \A d \in Daemon : DaemonOK(daemon'[d], d)
  BY <1>4, DaemonStates
<1>6. \A d \in Daemon : daemon'[d].at = "announcing" => daemon'[d].due \in 0 .. Interval + Late - 1
  BY <1>4 DEF States, Down
<1>7. NetTypes'
  <2>1. peers' \in Seq([identifier : STRING, host : STRING, port : Nat]) /\ DOMAIN peers' = {}
    BY <1>3
  <2>2. remaining' \in 0 .. window' /\ kills' \in 0 .. Restarts
    BY <1>2, <1>3 DEF Timing
  <2>3. steady' \subseteq Daemon
    BY <1>3
  <2>4. QED
    BY <1>1, <1>3, <1>4, <1>5, <2>1, <2>2, <2>3 DEF NetTypes
<1>8. AddressesServed'
  BY <1>3 DEF AddressesServed
<1>9. SteadyOnTime'
  <2>1. ASSUME NEW d \in steady'
        PROVE  /\ daemon'[d].at = "announcing"
               /\ daemon'[d].due + (window' - remaining') <= Interval + Late - 1
    BY <1>2, <1>3, <1>6 DEF Timing
  <2>2. QED
    BY <2>1 DEF SteadyOnTime
<1>10. QED
  BY <1>7, <1>8, <1>9, NetTypesEquivNext DEF NetInv

\* What one daemon's step leaves to be shown: the other daemons, and the rest
\* of the search, are untouched, unless a beacon is heard.
LEMMA DaemonStepKeeps ==
    ASSUME NetInv, NEW d \in Daemon, NEW r, DaemonOK(r, d),
           daemon' = [daemon EXCEPT ![d] = r],
           UNCHANGED <<window, remaining, peers>>, kills' \in 0 .. Restarts,
           steady' \subseteq steady, d \in steady' => r = daemon[d],
           listened \subseteq listened',
           Open /\ r.at # "down" /\ Peer[d].serve # "unix" => Address(d, r.port) \in listened'
    PROVE  NetInv'
<1>1. NetTypes /\ AddressesServed /\ SteadyOnTime
  BY NetTypesEquiv DEF NetInv
<1>2. DOMAIN daemon' = Daemon /\ daemon'[d] = r /\ \A e \in Daemon \ {d} : daemon'[e] = daemon[e]
  BY <1>1 DEF NetTypes
<1>3. NetTypes'
  BY <1>1, <1>2 DEF NetTypes
<1>4. AddressesServed'
  BY <1>1, <1>2 DEF AddressesServed, Open, Listening, Listens
<1>5. SteadyOnTime'
  <2>1. ASSUME NEW e \in steady'
        PROVE  daemon'[e] = daemon[e] /\ e \in steady
    BY <1>1, <1>2 DEF NetTypes
  <2>2. QED
    BY <1>1, <2>1 DEF SteadyOnTime, Heard
<1>6. QED
  BY <1>3, <1>4, <1>5, NetTypesEquivNext DEF NetInv

LEMMA ServeKeeps ==
    ASSUME NetInv, NEW d \in Daemon, NEW port, Serve(d, port)
    PROVE  NetInv'
<1> DEFINE r == [at |-> "serving", port |-> port, due |-> 0]
<1>1. NetTypes /\ SteadyOnTime
  BY NetTypesEquiv DEF NetInv
<1>2. /\ daemon[d].at = "down" /\ port \in PortsOf(d) /\ daemon' = [daemon EXCEPT ![d] = r]
      /\ UNCHANGED <<window, remaining, peers, kills, steady>>
      /\ listened \subseteq listened'
      /\ Peer[d].serve # "unix" => Address(d, r.port) \in listened'
  BY DEF Serve
<1>3. DaemonOK(r, d)
  BY <1>2 DEF DaemonOK
<1>4. d \notin steady
  BY <1>1, <1>2 DEF SteadyOnTime
<1>5. kills' \in 0 .. Restarts
  BY <1>1, <1>2 DEF NetTypes
<1> HIDE DEF r
<1>6. QED
  BY <1>2, <1>3, <1>4, <1>5, DaemonStepKeeps

LEMMA AnnounceKeeps ==
    ASSUME NetInv, NEW d \in Daemon, Announce(d)
    PROVE  NetInv'
<1> DEFINE r == [at |-> "announcing", port |-> daemon[d].port, due |-> 0]
<1>1. NetTypes /\ SteadyOnTime /\ AddressesServed
  BY NetTypesEquiv DEF NetInv
<1>2. /\ Open /\ daemon[d].at = "serving" /\ daemon' = [daemon EXCEPT ![d].at = "announcing"]
      /\ UNCHANGED <<window, remaining, peers, kills, steady, listened>>
  BY DEF Announce
<1>3. /\ daemon[d] = [at |-> "serving", port |-> daemon[d].port, due |-> 0]
      /\ daemon[d].port \in PortsOf(d)
  BY <1>1, <1>2 DEF NetTypes, DaemonOK, Down
<1>4. daemon' = [daemon EXCEPT ![d] = r]
  <2>1. [daemon[d] EXCEPT !.at = "announcing"] = r
    BY <1>3
  <2>2. daemon' = [daemon EXCEPT ![d] = [daemon[d] EXCEPT !.at = "announcing"]]
    BY <1>2
  <2> HIDE DEF r
  <2>3. QED
    BY <2>1, <2>2
<1>5. DaemonOK(r, d)
  <2>1. 0 \in 0 .. Interval + Late
    BY <1>1, NetNumbers DEF Timing
  <2>2. QED
    BY <1>3, <2>1 DEF DaemonOK
<1>6. d \notin steady
  BY <1>1, <1>2 DEF SteadyOnTime
<1>7. Peer[d].serve # "unix" => Address(d, r.port) \in listened'
  BY <1>1, <1>2 DEF AddressesServed, Listening, Listens
<1>8. kills' \in 0 .. Restarts
  BY <1>1, <1>2 DEF NetTypes
<1> HIDE DEF r
<1>9. QED
  BY <1>2, <1>4, <1>5, <1>6, <1>7, <1>8, DaemonStepKeeps

LEMMA KillKeeps ==
    ASSUME NetInv, NEW d \in Daemon, Kill(d)
    PROVE  NetInv'
<1>1. NetTypes
  BY NetTypesEquiv DEF NetInv
<1>2. /\ daemon' = [daemon EXCEPT ![d] = Down] /\ kills < Restarts /\ kills' = kills + 1
      /\ steady' = steady \ {d} /\ UNCHANGED <<window, remaining, peers, listened>>
  BY DEF Kill
<1>3. kills' \in 0 .. Restarts
  BY <1>1, <1>2, DiscoveryAssumption DEF NetTypes
<1>4. DaemonOK(Down, d) /\ Down.at = "down"
  BY DEF DaemonOK, Down
<1>5. QED
  BY <1>2, <1>3, <1>4, DaemonStepKeeps

LEMMA BeaconKeeps ==
    ASSUME NetInv, NEW d \in Daemon, NEW arrives \in BOOLEAN, Beacon(d, arrives)
    PROVE  NetInv'
<1> DEFINE beacon == Address(d, BeaconPort(d))
           PeerType == [identifier : STRING, host : STRING, port : Nat]
<1>1. NetTypes /\ AddressesServed /\ SteadyOnTime
  BY NetTypesEquiv DEF NetInv
<1>2. Timing /\ Interval > 0
  BY <1>1, NetNumbers
<1>3. /\ Open /\ daemon[d].at = "announcing"
      /\ UNCHANGED <<window, remaining, kills, listened>>
      /\ steady' = IF arrives THEN steady ELSE steady \ {d}
  BY DEF Beacon
<1>4. PICK slack \in 0 .. Late : daemon' = [daemon EXCEPT ![d].due = Interval + slack]
  BY DEF Beacon
<1>5. /\ daemon[d] = [at |-> "announcing", port |-> daemon[d].port, due |-> daemon[d].due]
      /\ daemon[d].port \in PortsOf(d)
  BY <1>1, <1>3 DEF NetTypes, DaemonOK, Down
<1> DEFINE r == [at |-> "announcing", port |-> daemon[d].port, due |-> Interval + slack]
<1>6. DOMAIN daemon' = Daemon /\ daemon'[d] = r /\ \A e \in Daemon \ {d} : daemon'[e] = daemon[e]
  <2>1. [daemon[d] EXCEPT !.due = Interval + slack] = r
    BY <1>5
  <2>2. daemon' = [daemon EXCEPT ![d] = [daemon[d] EXCEPT !.due = Interval + slack]]
    BY <1>4
  <2> HIDE DEF r
  <2>3. QED
    BY <1>1, <2>1, <2>2 DEF NetTypes
<1>7. DaemonOK(r, d)
  <2>1. Interval + slack \in 0 .. Interval + Late
    BY <1>2 DEF Timing
  <2>2. QED
    BY <1>5, <2>1 DEF DaemonOK
<1>8. /\ beacon \in PeerType
      /\ beacon.identifier = Peer[d].identifier /\ beacon.host = Peer[d].host
      /\ beacon.port = daemon[d].port
  BY <1>5, PortsAreNumbers DEF BeaconPort, Address
<1>9. beacon.port = 0 \/ beacon \in listened
  <2>1. CASE Peer[d].serve = "unix"
    BY <1>5, <1>8, <2>1, PortsAreNumbers
  <2>2. CASE Peer[d].serve # "unix"
    BY <1>1, <1>3, <2>2 DEF AddressesServed, Listening, Listens, BeaconPort
  <2>3. QED
    BY <2>1, <2>2
<1>10. \/ peers' = peers /\ (arrives => Heard(d))
       \/ peers' = Append(peers, beacon) /\ ~Heard(d)
  BY DEF Beacon
<1>11. peers \in Seq(PeerType)
  BY <1>1 DEF NetTypes
<1> HIDE DEF beacon, r, PeerType
<1>12. CASE peers' = peers /\ (arrives => Heard(d))
  <2>1. NetTypes'
    BY <1>1, <1>3, <1>6, <1>7, <1>12 DEF NetTypes
  <2>2. AddressesServed'
    <3>1. r.port = daemon[d].port /\ r.at = "announcing"
      BY DEF r
    <3>2. Listening' = Listening
      BY <1>3, <1>6, <3>1 DEF Listening, Listens
    <3>3. QED
      BY <1>1, <1>3, <1>12, <3>2 DEF AddressesServed, Open
  <2>3. SteadyOnTime'
    <3>1. r.at = "announcing"
      BY DEF r
    <3>2. \A e \in Daemon : Heard(e)' <=> Heard(e)
      BY <1>12 DEF Heard
    <3>3. ASSUME NEW e \in steady'
          PROVE  /\ daemon'[e].at = "announcing"
                 /\ Heard(e)' \/ daemon'[e].due + (window' - remaining') <= Interval + Late - 1
      <4>1. e \in steady /\ e \in Daemon
        BY <1>1, <1>3 DEF NetTypes
      <4>2. CASE e = d
        BY <1>3, <1>6, <1>12, <3>1, <3>2, <4>1, <4>2
      <4>3. CASE e # d
        BY <1>1, <1>3, <1>6, <3>2, <4>1, <4>3 DEF SteadyOnTime
      <4>4. QED
        BY <4>2, <4>3
    <3>4. QED
      BY <3>3 DEF SteadyOnTime
  <2>4. QED
    BY <2>1, <2>2, <2>3, NetTypesEquivNext DEF NetInv
<1>13. CASE peers' = Append(peers, beacon) /\ ~Heard(d)
  <2>1. /\ peers' \in Seq(PeerType) /\ DOMAIN peers' = DOMAIN peers \cup {Len(peers) + 1}
        /\ Len(peers) \in Nat /\ DOMAIN peers = 1 .. Len(peers)
        /\ peers'[Len(peers) + 1] = beacon
        /\ \A i \in DOMAIN peers : peers'[i] = peers[i]
    BY <1>8, <1>11, <1>13
  <2>2. \A i \in DOMAIN peers :
            peers[i].identifier # beacon.identifier \/ peers[i].host # beacon.host
    BY <1>8, <1>13 DEF Heard
  <2>3. \A i, j \in DOMAIN peers' :
            i # j => peers'[i].identifier # peers'[j].identifier \/ peers'[i].host # peers'[j].host
    BY <1>1, <2>1, <2>2 DEF NetTypes
  <2>4. NetTypes'
    BY <1>1, <1>3, <1>6, <1>7, <2>1, <2>3 DEF NetTypes, PeerType
  <2>5. AddressesServed'
    <3>1. r.port = daemon[d].port /\ r.at = "announcing"
      BY DEF r
    <3>2. Listening' = Listening
      BY <1>3, <1>6, <3>1 DEF Listening, Listens
    <3>3. QED
      BY <1>1, <1>3, <1>9, <2>1, <3>2 DEF AddressesServed, Open
  <2>6. SteadyOnTime'
    <3>1. r.at = "announcing"
      BY DEF r
    <3>2. Heard(d)' /\ \A e \in Daemon : Heard(e) => Heard(e)'
      BY <1>8, <2>1 DEF Heard
    <3>3. ASSUME NEW e \in steady'
          PROVE  /\ daemon'[e].at = "announcing"
                 /\ Heard(e)' \/ daemon'[e].due + (window' - remaining') <= Interval + Late - 1
      <4>1. e \in steady /\ e \in Daemon
        BY <1>1, <1>3 DEF NetTypes
      <4>2. CASE e = d
        BY <1>6, <3>1, <3>2, <4>2
      <4>3. CASE e # d
        BY <1>1, <1>3, <1>6, <3>2, <4>1, <4>3 DEF SteadyOnTime
      <4>4. QED
        BY <4>2, <4>3
    <3>4. QED
      BY <3>3 DEF SteadyOnTime
  <2>7. QED
    BY <2>4, <2>5, <2>6, NetTypesEquivNext DEF NetInv
<1>14. QED
  BY <1>10, <1>12, <1>13

LEMMA ElapseKeeps ==
    ASSUME NetInv, Elapse
    PROVE  NetInv'
<1>1. NetTypes /\ AddressesServed /\ SteadyOnTime
  BY NetTypesEquiv DEF NetInv
<1>2. Timing
  BY <1>1, NetNumbers
<1>3. /\ remaining > 1 /\ remaining' = remaining - 1
      /\ \A d \in Daemon : daemon[d].at = "announcing" => daemon[d].due > 0
      /\ UNCHANGED <<window, peers, kills, steady, listened>>
      /\ daemon' = [d \in Daemon |-> IF daemon[d].at = "announcing"
                                     THEN [daemon[d] EXCEPT !.due = @ - 1] ELSE daemon[d]]
  BY DEF Elapse
<1>4. ASSUME NEW d \in Daemon
      PROVE  /\ DaemonOK(daemon'[d], d)
             /\ daemon'[d].at = daemon[d].at /\ daemon'[d].port = daemon[d].port
             /\ daemon[d].at = "announcing" => /\ daemon[d].due \in Nat
                                               /\ daemon'[d].due = daemon[d].due - 1
  <2>1. CASE daemon[d].at = "announcing"
    <3>1. /\ daemon[d] = [at |-> "announcing", port |-> daemon[d].port, due |-> daemon[d].due]
          /\ daemon[d].port \in PortsOf(d) /\ daemon[d].due \in 0 .. Interval + Late
      BY <1>1, <2>1 DEF NetTypes, DaemonOK, Down
    <3>2. daemon[d].due - 1 \in 0 .. Interval + Late /\ daemon[d].due \in Nat
      BY <1>2, <1>3, <2>1, <3>1 DEF Timing
    <3>3. daemon'[d] = [at |-> "announcing", port |-> daemon[d].port, due |-> daemon[d].due - 1]
      BY <1>3, <2>1, <3>1
    <3>4. QED
      BY <2>1, <3>1, <3>2, <3>3 DEF DaemonOK
  <2>2. CASE daemon[d].at # "announcing"
    BY <1>1, <1>3, <2>2 DEF NetTypes
  <2>3. QED
    BY <2>1, <2>2
<1>5. NetTypes'
  <2>1. remaining' \in 0 .. window'
    BY <1>1, <1>2, <1>3 DEF NetTypes, Timing
  <2>2. QED
    BY <1>1, <1>3, <1>4, <2>1 DEF NetTypes
<1>6. AddressesServed'
  <2>1. Listening' = Listening
    BY <1>4 DEF Listening, Listens
  <2>2. Open
    BY <1>2, <1>3 DEF Open, Timing
  <2>3. QED
    BY <1>1, <1>3, <2>1, <2>2 DEF AddressesServed
<1>7. SteadyOnTime'
  <2>1. ASSUME NEW d \in steady'
        PROVE  /\ daemon'[d].at = "announcing"
               /\ Heard(d)' \/ daemon'[d].due + (window' - remaining') <= Interval + Late - 1
    <3>1. d \in steady /\ d \in Daemon /\ daemon[d].at = "announcing"
      BY <1>1, <1>3 DEF NetTypes, SteadyOnTime
    <3>2. Heard(d)' <=> Heard(d)
      BY <1>3 DEF Heard
    <3>3. daemon'[d].due + (window' - remaining') = daemon[d].due + (window - remaining)
      BY <1>2, <1>3, <1>4, <3>1 DEF Timing
    <3>4. QED
      BY <1>1, <1>4, <3>1, <3>2, <3>3, <1>3 DEF SteadyOnTime
  <2>2. QED
    BY <2>1 DEF SteadyOnTime
<1>8. QED
  BY <1>5, <1>6, <1>7, NetTypesEquivNext DEF NetInv

(***************************************************************************)
(* The whole start.                                                        *)
(***************************************************************************)

LEMMA SearchKeeps ==
    ASSUME IInv, NEW n \in todo, Search(n)
    PROVE  IInv'
<1>1. RegInv'
  BY DEF IInv, Search, RegInv, RegTypeOK, RegistrySound, TodoKnown, EveryDeviceRouted,
         regVars, file, registry
<1>2. NetInv'
  BY OpenWindowKeeps DEF IInv, Search
<1>3. QED
  BY <1>1, <1>2 DEF IInv

LEMMA WindowEndsKeeps ==
    ASSUME NetInv, WindowEnds
    PROVE  NetInv'
<1>1. window \in Windows
  BY DEF NetInv, NetTypeOK
<1>2. QED
  BY <1>1, QuietKeeps DEF WindowEnds

LEMMA ResolveKeeps ==
    ASSUME IInv, NEW n \in todo, Resolve(n)
    PROVE  IInv'
<1>1. PICK route : Routed(n, route)
  BY DEF Resolve, BuildFound, BuildMissed
<1>2. RegInv'
  BY <1>1, RoutedKeeps DEF IInv, Resolve
<1>3. NetInv'
  BY WindowEndsKeeps DEF IInv, Resolve
<1>4. QED
  BY <1>2, <1>3 DEF IInv

LEMMA NetworkKeeps ==
    ASSUME NetInv, Network
    PROVE  NetInv'
<1>1. ASSUME NEW d \in Daemon, \E port \in Port \cup {0} : Serve(d, port)
      PROVE  NetInv'
  BY <1>1, ServeKeeps
<1>2. ASSUME NEW d \in Daemon, Announce(d) \/ Kill(d)
      PROVE  NetInv'
  BY <1>2, AnnounceKeeps, KillKeeps
<1>3. ASSUME NEW d \in Daemon, \E arrives \in BOOLEAN : Beacon(d, arrives)
      PROVE  NetInv'
  BY <1>3, BeaconKeeps
<1>4. QED
  BY <1>1, <1>2, <1>3, ElapseKeeps DEF Network

LEMMA InitIInv == Init => IInv
<1> SUFFICES ASSUME Init PROVE IInv
  OBVIOUS
<1>1. RegInv
  BY RegInvInit DEF Init
<1>2. /\ window \in Windows /\ remaining = 0 /\ daemon = Quiet /\ peers = <<>> /\ kills = 0
      /\ steady = {} /\ listened = {}
  BY DEF Init, NetInit
<1>3. window \in Nat /\ Restarts \in Nat
  BY <1>2, DiscoveryAssumption
<1>4. NetTypes
  BY <1>2, <1>3 DEF NetTypes, Quiet, DaemonOK
<1>5. AddressesServed /\ SteadyOnTime
  BY <1>2 DEF AddressesServed, SteadyOnTime, Open
<1>6. QED
  BY <1>1, <1>4, <1>5, NetTypesEquiv DEF IInv, NetInv

LEMMA NextIInv == IInv /\ [Next]_vars => IInv'
<1> SUFFICES ASSUME IInv, [Next]_vars PROVE IInv'
  OBVIOUS
<1>1. ASSUME UNCHANGED netVars
      PROVE  NetInv'
  BY <1>1 DEF IInv, NetInv, NetTypeOK, AddressesServed, SteadyOnTime, netVars,
              Open, Listening, Listens, Heard
<1>2. ASSUME UNCHANGED regVars
      PROVE  RegInv'
  BY <1>2 DEF IInv, RegInv, RegTypeOK, RegistrySound, TodoKnown, EveryDeviceRouted,
              regVars, file, registry
<1>3. CASE Configure /\ UNCHANGED netVars
  BY <1>1, <1>3, ConfigureKeeps DEF IInv
<1>4. CASE \E n \in todo : Search(n) \/ Resolve(n)
  BY <1>4, SearchKeeps, ResolveKeeps
<1>5. CASE Network /\ UNCHANGED regVars
  BY <1>2, <1>5, NetworkKeeps DEF IInv
<1>6. CASE UNCHANGED vars
  BY <1>1, <1>2, <1>6 DEF IInv, vars
<1>7. QED
  BY <1>3, <1>4, <1>5, <1>6 DEF Next

LEMMA InvariantHolds == Spec => []IInv
BY InitIInv, NextIInv, PTL DEF Spec

(***************************************************************************)
(* Results.                                                                *)
(***************************************************************************)

\* The variables keep their types.
THEOREM TypeCorrect == Spec => []TypeOK
<1>1. IInv => TypeOK
  BY DEF IInv, RegInv, NetInv, TypeOK
<1>2. QED
  BY <1>1, InvariantHolds, PTL

\* At every step of every config file (FxpConfig::apply, registry.rs:804-931) a
\* name is a device or an alias, an alias leads to a device in one step, and the
\* devices list exactly their aliases.
THEOREM RegistryCorrect == Spec => []RegistrySound
<1>1. IInv => RegistrySound
  BY DEF IInv, RegInv
<1>2. QED
  BY <1>1, InvariantHolds, PTL

\* Every name the loader accepts (registry.rs:564) is of one kind and has a route
\* once the bus is built (bus.rs:228-409).
THEOREM AcceptedNamesResolve == Spec => []NamesResolve
<1>1. ASSUME IInv, phase = "ready"
      PROVE  NamesResolve
  <2>1. RegistrySound /\ RegTypeOK /\ DOMAIN routes = DOMAIN devices
    BY <1>1 DEF IInv, RegInv, EveryDeviceRouted
  <2>2. ASSUME NEW k \in Kind, NEW n \in Flattened(k)
        PROVE  /\ CanonicalOf(n) \in DOMAIN devices
               /\ devices[CanonicalOf(n)].kind = k
    <3>1. PICK d \in DOMAIN devices : devices[d].kind = k /\ n \in {d} \cup devices[d].aliases
      BY DEF Flattened
    <3>2. CanonicalOf(n) = d
      BY <2>1, <3>1 DEF RegistrySound, CanonicalOf
    <3>3. QED
      BY <3>1, <3>2
  <2>3. Flattened("sensor") \cap Flattened("actor") = {}
    BY <2>2 DEF Kind
  <2>4. QED
    BY <2>1, <2>2, <2>3 DEF NamesResolve
<1>2. IInv => NamesResolve
  BY <1>1 DEF NamesResolve
<1>3. QED
  BY <1>2, InvariantHolds, PTL

\* A route that was discovered (bus.rs:296-310) leads to an address at which a
\* daemon of the identifier asked for listened during that search.
THEOREM DiscoveredRoutesWereServed == Spec => RouteWasServed
<1>1. ASSUME IInv, NEW n \in Name, Resolve(n),
             routes'[n].addr # NoValue, routes'[n].addr.port # 0
      PROVE  /\ routes'[n].addr \in listened
             /\ routes'[n].addr.identifier = devices[n].endpoint
  <2>1. CASE \E i \in DOMAIN peers : IsFirst(i, devices[n].endpoint) /\ BuildFound(n, peers[i])
    <3>1. PICK i \in DOMAIN peers : IsFirst(i, devices[n].endpoint) /\ BuildFound(n, peers[i])
      BY <2>1
    <3>2. routes'[n].addr = peers[i]
      BY <3>1 DEF BuildFound, Routed, Insert
    <3>3. peers[i].port = 0 \/ peers[i] \in listened
      BY <1>1 DEF IInv, NetInv, AddressesServed
    <3>4. QED
      BY <1>1, <3>1, <3>2, <3>3 DEF IsFirst
  <2>2. CASE BuildMissed(n)
    <3>1. routes'[n].addr = NoValue
      BY <2>2 DEF BuildMissed, Routed, Insert, RouteTo
    <3>2. QED
      BY <1>1, <3>1
  <2>3. QED
    BY <1>1, <2>1, <2>2 DEF Resolve
<1>2. IInv => \A n \in Name :
          Resolve(n) => LeadsToServed(routes'[n].addr, devices[n].endpoint)
  BY <1>1 DEF LeadsToServed
<1>3. QED
  BY <1>2, InvariantHolds, PTL DEF RouteWasServed

\* A peer that announces throughout a search, and of which no beacon is lost, is
\* found (discover.rs:378-412), whatever else goes on, if the window is as long
\* as two beacons can be apart.
THEOREM AliveIsAlwaysFound == Spec => AliveIsFound
<1>1. ASSUME IInv, NEW n \in Name, Resolve(n), NEW d \in steady,
             Peer[d].identifier = devices[n].endpoint, window >= Interval + Late
      PROVE  routes'[n].kind = "remote"
  <2>1. NetTypes /\ SteadyOnTime
    BY <1>1, NetTypesEquiv DEF IInv, NetInv
  <2>2. Timing /\ d \in Daemon /\ daemon[d].at = "announcing"
    BY <1>1, <2>1, NetNumbers DEF SteadyOnTime, NetTypes
  <2>3. daemon[d].due > 0 /\ remaining = 1
    BY <1>1, <2>2 DEF Resolve, WindowEnds
  <2>4. daemon[d].due \in Nat
    <3>1. daemon[d].due \in 0 .. Interval + Late
      BY <2>1, <2>2 DEF NetTypes, DaemonOK, Down
    <3>2. QED
      BY <2>2, <3>1 DEF Timing
  <2>5. Heard(d)
    BY <1>1, <2>1, <2>2, <2>3, <2>4 DEF SteadyOnTime, Timing
  <2>6. ~NobodyNamed(devices[n].endpoint)
    BY <1>1, <2>5 DEF Heard, NobodyNamed
  <2>7. PICK i \in DOMAIN peers : BuildFound(n, peers[i])
    BY <1>1, <2>6 DEF Resolve
  <2>8. QED
    BY <2>7 DEF BuildFound, Routed, Insert
<1>2. IInv => \A n \in Name :
          Resolve(n) /\ Expected(devices[n].endpoint) => routes'[n].kind = "remote"
  BY <1>1 DEF Expected
<1>3. QED
  BY <1>2, InvariantHolds, PTL DEF AliveIsFound
=============================================================================
