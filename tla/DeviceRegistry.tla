--------------------------- MODULE DeviceRegistry ---------------------------
(***************************************************************************)
(* The registry of the FXP (vbl-fxp registry.rs) and the bus built from it *)
(* (bus.rs build, main.rs build_fxp).                                      *)
(*                                                                         *)
(*   ReadLine ... --> EndOfFile --> Apply ... --> ApplyFallback ...        *)
(*                --> SelectMode --> Build ... --> ready                   *)
(*                                                                         *)
(* A config file declares aliases, overrides and new devices; it is        *)
(* applied to the mandatory devices, in the order of a BTreeMap whatever   *)
(* the order of its lines.  Any failure refuses the file and ends the      *)
(* process, with the half-built registry.  Quantities, limits and paths    *)
(* are abstracted to whether they are given.                               *)
(***************************************************************************)
EXTENDS Integers, Sequences, FiniteSets, Functions

CONSTANTS
    Alphabet,   \* every name that occurs, sorted
    Lines,      \* the lines a config file may hold
    MaxLines,   \* bound: lines of a file
    ModeFlags,  \* values --fxp-mode may have, NoValue when it is not given
    Hardware,   \* the mandatory devices `auto` finds on this host
    Identifier, \* identifiers a `discover:` endpoint may name
    NoValue     \* None

Name == Range(Alphabet)
OperationMode == {"real", "simulado", "hibrido"}
DeviceMode == {"real", "simulado"}
Endpoint == {"simulado", "auto", "leitura", "atuacao", "remoto"} \cup Identifier
Field == {"grandeza", "unidade", "limite", "safety_limit"}
Kind == {"sensor", "actor"}

Devices == {"cpu_temp", "cpu_power", "attention", "CpuPowerCap", "Fan", "StatusLed"}

\* What a line may say: every value is one the parser accepts.
Readable(line) ==
    \/ line.key = "malformed"
    \/ line.key = "mode" /\ line.value \in OperationMode
    \/ line.key = "fallback" /\ line.name \in Name /\ line.value \in Seq(Name)
    \/ /\ line.key = "device" /\ line.name \in Name
       /\ \/ line.field = "alias_de" /\ line.value \in Name
          \/ line.field = "mode" /\ line.value \in DeviceMode
          \/ line.field = "endpoint" /\ line.value \in Endpoint
          \/ line.field \in Field

ASSUME RegistryAssumption ==
    /\ Alphabet \in Seq(STRING) /\ IsInjective(Alphabet) /\ MaxLines \in Nat
    /\ Devices \cup {"Ventoinha", "LedIndicador"} \subseteq Name
    /\ \A line \in Lines : Readable(line)
    /\ ModeFlags \subseteq OperationMode \cup {NoValue}

VARIABLES
    flag,       \* --fxp-mode
    phase,      \* where the start of the process is
    left,       \* lines the file may still have
    cfg,        \* FxpConfig.devices: [declared names -> DeviceCfg]
    fallback,   \* FxpConfig.fallback: [names -> Seq of names]
    mode,       \* FxpConfig.mode, then BusConfig.mode
    todo,       \* what the loop under way has yet to visit
    devices,    \* [canonical names -> DeviceEntry]
    aliases,    \* [aliases -> the canonical name]
    routes      \* [canonical names -> Route]

file == <<left, cfg, fallback, mode>>
registry == <<devices, aliases>>
regVars == <<flag, phase, file, todo, registry, routes>>

Phase == {"reading", "applying", "fallbacks", "building", "ready", "refused"}
DeviceCfg == [alias_de : Name \cup {NoValue}, mode : DeviceMode \cup {NoValue},
              endpoint : Endpoint \cup {NoValue}, given : SUBSET Field]
DeviceEntry == [kind : Kind, mode : DeviceMode, endpoint : Endpoint,
                fallback : Seq(Name), aliases : SUBSET Name]
Blank == [alias_de |-> NoValue, mode |-> NoValue, endpoint |-> NoValue, given |-> {}]
Plain(kind, names) == [kind |-> kind, mode |-> "simulado", endpoint |-> "simulado",
                       fallback |-> <<>>, aliases |-> names]
RouteTo(kind) == [kind |-> kind, addr |-> NoValue]

\* DeviceRegistry::minimum.
MinimumAliases ==
    [a \in {"Ventoinha", "LedIndicador"} |-> IF a = "Ventoinha" THEN "Fan" ELSE "StatusLed"]
Minimum ==
    [n \in Devices |->
        IF n \in {"cpu_temp", "cpu_power", "attention"} THEN Plain("sensor", {})
        ELSE Plain("actor", {a \in {"Ventoinha", "LedIndicador"} : MinimumAliases[a] = n})]

\* BTreeMap::insert.
Insert(map, n, value) == [m \in DOMAIN map \cup {n} |-> IF m = n THEN value ELSE map[m]]

\* The loops visit names in their order.
Position == [n \in Name |-> CHOOSE i \in DOMAIN Alphabet : Alphabet[i] = n]
IsNext(n) == n \in todo /\ \A m \in todo \ {n} : Position[n] < Position[m]

RegInit ==
    /\ flag \in ModeFlags /\ phase = "reading" /\ left = MaxLines
    /\ cfg = <<>> /\ fallback = <<>> /\ mode = NoValue
    /\ todo = {}
    /\ devices = Minimum /\ aliases = MinimumAliases
    /\ routes = <<>>

CanonicalOf(n) == IF n \in DOMAIN aliases THEN aliases[n] ELSE n
Registered(n) == CanonicalOf(n) \in DOMAIN devices
Occupied(n) == n \in DOMAIN devices \cup DOMAIN aliases

Refuse == phase' = "refused" /\ UNCHANGED <<flag, file, todo, registry, routes>>

----------------------------------------------------------------------------
(* FxpConfig::parse: a key that comes again replaces the value, `given`    *)
(* only grows (unidade stands for precisao_pct too, limite for min and     *)
(* max).  Whatever cannot be read is a malformed line.                     *)

Declared(line) ==
    LET d == IF line.name \in DOMAIN cfg THEN cfg[line.name] ELSE Blank
    IN  CASE line.field = "alias_de" -> [d EXCEPT !.alias_de = line.value]
          [] line.field = "mode"     -> [d EXCEPT !.mode = line.value]
          [] line.field = "endpoint" -> [d EXCEPT !.endpoint = line.value]
          [] OTHER                   -> [d EXCEPT !.given = @ \cup {line.field}]

ReadLine(line) ==
    /\ phase = "reading" /\ left > 0 /\ line.key # "malformed"
    /\ left' = left - 1
    /\ CASE line.key = "mode" -> mode' = line.value /\ UNCHANGED <<cfg, fallback>>
         [] line.key = "fallback" -> /\ fallback' = Insert(fallback, line.name, line.value)
                                     /\ UNCHANGED <<cfg, mode>>
         [] line.key = "device" -> /\ cfg' = Insert(cfg, line.name, Declared(line))
                                   /\ UNCHANGED <<fallback, mode>>
    /\ UNCHANGED <<flag, phase, todo, registry, routes>>

ReadMalformed == phase = "reading" /\ left > 0 /\ Refuse

\* FxpConfig::validate.
IsAlias(n) == n \in DOMAIN cfg /\ cfg[n].alias_de # NoValue
Invalid(n) == IsAlias(n) /\ \/ IsAlias(cfg[n].alias_de)
                            \/ cfg[n].mode # NoValue \/ cfg[n].endpoint # NoValue

EndOfFile ==
    /\ phase = "reading" /\ \A n \in DOMAIN cfg : ~Invalid(n)
    /\ phase' = "applying" /\ left' = 0 /\ todo' = DOMAIN cfg
    /\ UNCHANGED <<flag, cfg, fallback, mode, registry, routes>>

EndOfInvalidFile == phase = "reading" /\ (\E n \in DOMAIN cfg : Invalid(n)) /\ Refuse

----------------------------------------------------------------------------
(* FxpConfig::apply, one declared name after the other.                    *)

Applying(n) == phase = "applying" /\ IsNext(n)
Visited(n) == todo' = todo \ {n} /\ UNCHANGED <<flag, phase, file, routes>>

\* set_alias: ChainedAlias, UnknownAlias, ConflictingAlias.
AliasShadows(n, of) == of \in DOMAIN aliases \/ of \notin DOMAIN devices  \* mutant
AliasFails(n, of) == of \in DOMAIN aliases \/ of \notin DOMAIN devices \/ Occupied(n)

SetAliasUnlisted(n) ==                                                   \* mutant
    /\ Applying(n) /\ IsAlias(n) /\ ~AliasFails(n, cfg[n].alias_de)
    /\ aliases' = Insert(aliases, n, cfg[n].alias_de)
    /\ Visited(n) /\ UNCHANGED devices
SetAlias(n) ==
    LET of == cfg[n].alias_de
    IN  /\ Applying(n) /\ IsAlias(n) /\ ~AliasFails(n, of)
        /\ aliases' = Insert(aliases, n, of)
        /\ devices' = [devices EXCEPT ![of].aliases = @ \cup {n}]
        /\ Visited(n)

SetAliasFails(n) == Applying(n) /\ IsAlias(n) /\ AliasFails(n, cfg[n].alias_de) /\ Refuse

Or(given, default) == IF given = NoValue THEN default ELSE given

\* get_mut resolves the name: an alias overrides the device behind it.
OverrideFails(n) ==
    IF devices[CanonicalOf(n)].kind = "sensor" THEN "safety_limit" \in cfg[n].given
    ELSE cfg[n].given \cap {"grandeza", "unidade"} # {}

Override(n) ==
    /\ Applying(n) /\ ~IsAlias(n) /\ Registered(n) /\ ~OverrideFails(n)
    /\ devices' = [devices EXCEPT ![CanonicalOf(n)].mode = Or(cfg[n].mode, @),
                                  ![CanonicalOf(n)].endpoint = Or(cfg[n].endpoint, @)]
    /\ Visited(n) /\ UNCHANGED aliases

\* A quantity makes a sensor, a limit or the address of a peer an actor.
ExtensionFails(n) ==
    \/ {"grandeza", "safety_limit"} \subseteq cfg[n].given
    \/ cfg[n].given \subseteq {"unidade"} /\ cfg[n].endpoint # "remoto"

Extend(n) ==
    /\ Applying(n) /\ ~IsAlias(n) /\ ~Registered(n) /\ ~ExtensionFails(n)
    /\ LET kind == IF "grandeza" \in cfg[n].given THEN "sensor" ELSE "actor"
       IN  devices' = Insert(devices, n,
                             [Plain(kind, {}) EXCEPT !.mode = Or(cfg[n].mode, @),
                                                     !.endpoint = Or(cfg[n].endpoint, @)])
    /\ Visited(n) /\ UNCHANGED aliases

DeviceFails(n) ==
    /\ Applying(n) /\ ~IsAlias(n)
    /\ IF Registered(n) THEN OverrideFails(n) ELSE ExtensionFails(n)
    /\ Refuse

DevicesApplied ==
    /\ phase = "applying" /\ todo = {}
    /\ phase' = "fallbacks" /\ todo' = DOMAIN fallback
    /\ UNCHANGED <<flag, file, registry, routes>>

\* An alternate only has to be registered: an alias or a sensor will do.
FallbackFails(n) ==
    \/ ~Registered(n) \/ \E i \in DOMAIN fallback[n] : ~Registered(fallback[n][i])
    \/ devices[CanonicalOf(n)].kind = "sensor"

ApplyFallback(n) ==
    /\ phase = "fallbacks" /\ IsNext(n) /\ ~FallbackFails(n)
    /\ devices' = [devices EXCEPT ![CanonicalOf(n)].fallback = fallback[n]]
    /\ Visited(n) /\ UNCHANGED aliases

ApplyFallbackFails(n) == phase = "fallbacks" /\ IsNext(n) /\ FallbackFails(n) /\ Refuse

----------------------------------------------------------------------------
(* build_fxp and FxpBus::build.                                            *)

\* The flag comes before the file, the file before the default; nothing else of
\* the file is used again.
SelectMode ==
    /\ phase = "fallbacks" /\ todo = {}
    /\ phase' = "building" /\ mode' = Or(flag, Or(mode, "simulado"))
    /\ todo' = DOMAIN devices /\ cfg' = <<>> /\ fallback' = <<>>
    /\ UNCHANGED <<flag, left, registry, routes>>

DeviceModeOf(n) == IF mode = "simulado" THEN "simulado" ELSE devices[n].mode
Concrete(n) == DeviceModeOf(n) = "real"

\* base_route, and the concrete endpoints that need nobody's answer.
StaticRoute(n) ==
    LET e == devices[n]
    IN  IF ~Concrete(n)
        THEN RouteTo(IF mode = "real" THEN "inaccessible" ELSE "simulator")
        ELSE CASE e.endpoint = "remoto" -> RouteTo("remote")
               [] e.endpoint = "auto" /\ n \in Hardware -> RouteTo("real")
               [] e.endpoint = "leitura" /\ e.kind = "sensor" -> RouteTo("real")
               [] e.endpoint = "atuacao" /\ e.kind = "actor" -> RouteTo("real")
               [] OTHER -> RouteTo("inaccessible")

Building(n) == phase = "building" /\ IsNext(n)
Searches(n) == Concrete(n) /\ devices[n].endpoint \in Identifier

Routed(n, route) ==
    /\ routes' = Insert(routes, n, route) /\ todo' = todo \ {n}
    /\ UNCHANGED <<flag, phase, file, registry>>

Build(n) == Building(n) /\ ~Searches(n) /\ Routed(n, StaticRoute(n))
\* A `discover:` endpoint leads to the peer that was found, if one was.
BuildFound(n, peer) == Routed(n, [kind |-> "remote", addr |-> peer])
BuildMissed(n) == Routed(n, RouteTo("inaccessible"))

Built ==
    /\ phase = "building" /\ todo = {} /\ phase' = "ready"
    /\ UNCHANGED <<flag, file, todo, registry, routes>>

\* to_runtime_registry, against which the loader validates a program.
Flattened(kind) ==
    UNION {{n} \cup devices[n].aliases : n \in {d \in DOMAIN devices : devices[d].kind = kind}}

Configure ==
    \/ \E line \in Lines : ReadLine(line)
    \/ ReadMalformed \/ EndOfFile \/ EndOfInvalidFile
    \/ \E n \in todo : \/ SetAlias(n) \/ SetAliasFails(n)
                       \/ Override(n) \/ Extend(n) \/ DeviceFails(n)
                       \/ ApplyFallback(n) \/ ApplyFallbackFails(n) \/ Build(n)
    \/ DevicesApplied \/ SelectMode \/ Built

----------------------------------------------------------------------------
RegTypeOK ==
    /\ flag \in ModeFlags /\ phase \in Phase /\ left \in 0 .. MaxLines
    /\ mode \in OperationMode \cup {NoValue}
    /\ DOMAIN cfg \subseteq Name /\ \A n \in DOMAIN cfg : cfg[n] \in DeviceCfg
    /\ DOMAIN fallback \subseteq Name /\ \A n \in DOMAIN fallback : fallback[n] \in Seq(Name)
    /\ DOMAIN devices \subseteq Name /\ \A n \in DOMAIN devices : devices[n] \in DeviceEntry
    /\ DOMAIN aliases \subseteq Name
    /\ todo \subseteq Name /\ DOMAIN routes \subseteq DOMAIN devices

\* At every step of a config file, also of one that is refused later: a name is
\* a device or an alias and never both, an alias leads to a device in one step,
\* and the device lists exactly the aliases that lead to it.
RegistrySound ==
    /\ DOMAIN devices \cap DOMAIN aliases = {}
    /\ \A a \in DOMAIN aliases : aliases[a] \in DOMAIN devices
    /\ \A n \in DOMAIN devices : devices[n].aliases = {a \in DOMAIN aliases : aliases[a] = n}

\* Every name the loader accepts in a program, as a sensor or as an actor, is
\* of that one kind only and has a route on the bus once it is built: a program
\* that validates meets neither NotRegistered nor MissingActor.
NamesResolve ==
    phase = "ready" =>
        /\ Flattened("sensor") \cap Flattened("actor") = {}
        /\ \A k \in Kind : \A n \in Flattened(k) :
              /\ CanonicalOf(n) \in DOMAIN routes
              /\ devices[CanonicalOf(n)].kind = k
=============================================================================
