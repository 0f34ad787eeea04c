----------------------------- MODULE SensorBus -----------------------------
(***************************************************************************)
(* Reading sensors through the FXP bus (vbl-fxp bus.rs), with the RAPL     *)
(* driver of drivers.rs and the side of the peer that answers a reading    *)
(* (peer.rs).                                                              *)
(*                                                                         *)
(*   read_sensor --> cache --> driver, or simulator                        *)
(*                         `-> connection --> READ or READ_BATCH --> peer  *)
(*                                                                         *)
(* A rule reads one sensor at a time and waits for it, while time passes,  *)
(* devices change and the energy counter runs on.  The number a reading    *)
(* carries is abstracted to the device it describes and the instant at     *)
(* which that device showed it.  The peer reads through a bus of its own,  *)
(* so its answer may be as old as its own cache allows.                    *)
(***************************************************************************)
EXTENDS Integers, Sequences, FiniteSets

CONSTANTS
    Sensor,     \* canonical names a program reads
    Place,      \* [Sensor -> Nat]: the place of a name in the registry's order
    Registries, \* the routes a bus may be built with: set of [Sensor -> RouteKind]
    Power,      \* the sensor cpu_power
    Simulated,  \* the sensors the peer routes to its own simulator
    Ttl,        \* cache_ttl of this bus
    PeerTtl,    \* cache_ttl of the peer's bus
    Timeout,    \* read_timeout
    MinDt,      \* MIN_DT_S: the shortest window the RAPL driver accepts
    Range,      \* max_energy_range_uj: the counter wraps here
    MaxPower,   \* bound: energy drawn in one unit of time
    End         \* bound: the last instant

RouteKind == {"real", "rapl", "remote", "simulator", "inaccessible"}
Never == -1
Time == 0 .. End
NoEntry == [at |-> Never, of |-> "none", asof |-> Never, told |-> FALSE]
Entry == [at : Time, of : Sensor, asof : Time, told : BOOLEAN] \cup {NoEntry}
NoAsk == [sensor |-> "none", targets |-> <<>>, since |-> Never]
NoSample == [t |-> Never, e |-> 0]

ASSUME SensorAssumption ==
    /\ Power \in Sensor
    /\ Place \in [Sensor -> Nat] /\ \A s, t \in Sensor : Place[s] = Place[t] => s = t
    /\ \A r \in Registries : /\ r \in [Sensor -> RouteKind]
                             /\ \A s \in Sensor \ {Power} : r[s] # "rapl"
    /\ Simulated \subseteq Sensor
    /\ "none" \notin Sensor
    /\ {Ttl, PeerTtl, Timeout, MinDt, Range, MaxPower, End} \subseteq Nat
    /\ Range > 0 /\ MinDt > 0

VARIABLES
    route,        \* resolved when the bus is built
    now,          \* the wall clock
    cache,        \* [Sensor -> Entry]: the cached reading and when it was cached
    link,         \* connection to the peer: "none", "plain" or "batch" (BATCH granted)
    pc,           \* "idle", "connecting" or "asking"
    ask,          \* the request under way: for a sensor, naming targets in order
    counter,      \* energy_uj, which wraps at Range
    previous,     \* the driver's last accepted sample
    known,        \* history of known_power: the instant it was true of
    powerReadAt,  \* power_read_at
    failedAt,     \* history: when cpu_power's own driver failed last
    uncredited,   \* history: energy drawn since the first sample, not yet reported
    overran,      \* history: a window held a whole Range
    shown         \* history: what this step gave a rule, or NoEntry

meter == <<counter, previous, uncredited, overran>>
power == <<known, powerReadAt, failedAt>>
vars == <<route, now, cache, link, pc, ask, meter, power, shown>>

----------------------------------------------------------------------------
\* How old a reading is that is as old as a cache of this TTL allows: without
\* caching it is still of this instant.
Term(ttl) == IF ttl = 0 THEN 1 ELSE ttl

CacheValid(s) == cache[s] # NoEntry /\ now - cache[s].at < Ttl

Cached(s, asof, told) == [at |-> now, of |-> s, asof |-> asof, told |-> told]

\* note_power.  The flag power_inaccessible is left out, since nothing reads it.
NotePower(s, asof) ==
    IF s = Power THEN known' = asof /\ powerReadAt' = now /\ UNCHANGED failedAt
    ELSE UNCHANGED power

\* The energy of a window.  A counter below the last one has wrapped.
WindowOff == IF counter > previous.e THEN counter - previous.e           \* mutant
             ELSE Range - previous.e + counter
Window == IF counter >= previous.e THEN counter - previous.e
          ELSE Range - previous.e + counter

Init ==
    /\ route \in Registries
    /\ now = 0
    /\ cache = [s \in Sensor |-> NoEntry]
    /\ link = "none" /\ pc = "idle" /\ ask = NoAsk
    /\ counter \in IF route[Power] = "rapl" THEN 0 .. Range - 1 ELSE {0}
    /\ previous = NoSample /\ uncredited = 0 /\ overran = FALSE
    /\ known = Never /\ powerReadAt = Never /\ failedAt = Never
    /\ shown = NoEntry

----------------------------------------------------------------------------
(* RaplEnergySensor::read.                                                 *)

\* The first sample and one too close to the last measure nothing; a counter
\* file, or the range of a wrapped counter, may be unreadable.
WarmUp == previous = NoSample /\ previous' = [t |-> now, e |-> counter]
Degenerate == previous # NoSample /\ now - previous.t < MinDt
SampleFailsForgetful ==                                                  \* mutant
    /\ WarmUp \/ (previous # NoSample /\ previous' = [t |-> now, e |-> counter])
    /\ UNCHANGED <<counter, uncredited, overran>>
SampleFails ==
    /\ WarmUp \/ UNCHANGED previous
    /\ UNCHANGED <<counter, uncredited, overran>>

SampleTaken ==
    /\ previous # NoSample /\ ~Degenerate
    /\ previous' = [t |-> now, e |-> counter]
    /\ uncredited' = uncredited - Window
    /\ UNCHANGED <<counter, overran>>

----------------------------------------------------------------------------
(* read_sensor.                                                            *)

Serve(entry) == shown' = entry
Silent == shown' = NoEntry

\* read_real, read_remote: a reading younger than the TTL is given again.
ReadCached(s) ==
    /\ pc = "idle" /\ route[s] \in {"real", "rapl", "remote"} /\ CacheValid(s)
    /\ Serve(cache[s])
    /\ UNCHANGED <<route, now, cache, link, pc, ask, meter, power>>

ReadReal(s) ==
    /\ pc = "idle" /\ route[s] \in {"real", "rapl"} /\ ~CacheValid(s)
    /\ IF route[s] = "rapl" THEN SampleTaken ELSE UNCHANGED meter
    /\ cache' = [cache EXCEPT ![s] = Cached(s, now, FALSE)]
    /\ Serve(cache'[s]) /\ NotePower(s, now)
    /\ UNCHANGED <<route, now, link, pc, ask>>

ReadRealFails(s) ==
    /\ pc = "idle" /\ route[s] \in {"real", "rapl"} /\ ~CacheValid(s)
    /\ IF route[s] = "rapl" THEN SampleFails ELSE UNCHANGED meter
    /\ failedAt' = IF s = Power THEN now ELSE failedAt
    /\ Silent
    /\ UNCHANGED <<route, now, cache, link, pc, ask, known, powerReadAt>>

ReadSimulator(s) ==
    /\ pc = "idle" /\ route[s] = "simulator"
    /\ Serve(Cached(s, now, FALSE))
    /\ UNCHANGED <<route, now, cache, link, pc, ask, meter, power>>

\* Simulator::read_sensor of a failed sensor, Route::Inaccessible.
ReadNowhere(s) ==
    /\ pc = "idle" /\ route[s] \in {"simulator", "inaccessible"}
    /\ Silent
    /\ UNCHANGED <<route, now, cache, link, pc, ask, meter, power>>

----------------------------------------------------------------------------
(* read_remote: one request, for a batch of every expired sensor of the    *)
(* peer when the connection grants it and there are two of them.  A        *)
(* connection without BATCH stands for batch_prefetch switched off too.    *)

AlvosDeBatch == {s \in Sensor : route[s] = "remote" /\ ~CacheValid(s)}

InOrder(S) == {t \in [1 .. Cardinality(S) -> S] :
                  \A j, k \in DOMAIN t : j < k => Place[t[j]] < Place[t[k]]}

Request(s, granted) ==
    /\ pc' = "asking"
    /\ \E targets \in IF granted = "batch" /\ Cardinality(AlvosDeBatch) >= 2
                      THEN InOrder(AlvosDeBatch) ELSE {<<s>>} :
          ask' = [sensor |-> s, targets |-> targets, since |-> now]

ReadRemote(s) ==
    /\ pc = "idle" /\ route[s] = "remote" /\ ~CacheValid(s)
    /\ IF link = "none"
       THEN pc' = "connecting" /\ ask' = [NoAsk EXCEPT !.sensor = s]
       ELSE Request(s, link)
    /\ Silent
    /\ UNCHANGED <<route, now, cache, link, meter, power>>

Connect(granted) ==
    /\ pc = "connecting"
    /\ link' = granted /\ Request(ask.sensor, granted)
    /\ Silent
    /\ UNCHANGED <<route, now, cache, meter, power>>

Unanswered ==
    /\ pc' = "idle" /\ ask' = NoAsk /\ link' = "none"
    /\ Silent
    /\ UNCHANGED <<route, now, cache, meter, power>>

ConnectFails == pc = "connecting" /\ Unanswered
\* A timeout, a broken connection or an answer to another request.
RequestFails == pc = "asking" /\ Unanswered

\* What the peer's bus shows for s: its simulator does not cache.
PeerAnswer(s) ==
    LET lag == IF s \in Simulated THEN 1 ELSE Term(PeerTtl)
    IN  {t \in Time : ask.since - lag < t /\ t <= now}

\* handle_read and handle_batch: one item for each name, in their order, of
\* which any may be an error.  A busy peer answers one error for all of them.
NoItem == [of |-> "none", asof |-> Never]
HandleBatch(ages) ==
    [k \in DOMAIN ask.targets |->
        IF ages[k] = Never THEN NoItem ELSE [of |-> ask.targets[k], asof |-> ages[k]]]

\* The peer flags an answer that holds any synthetic reading; the record that
\* follows names the sensor that was asked for.
ToldWhenAsked(s) ==
    s = ask.sensor /\ \E k \in DOMAIN ask.targets : ask.targets[k] \in Simulated

\* Names and items are matched by their position, whatever an item is of.
ItemForOfGood(items, s) ==                                               \* mutant
    LET good == SelectSeq(items, LAMBDA item : item # NoItem)
    IN  IF \E k \in DOMAIN good : ask.targets[k] = s
        THEN good[CHOOSE k \in DOMAIN good : ask.targets[k] = s] ELSE NoItem
ItemFor(items, s) ==
    IF \E k \in DOMAIN items : ask.targets[k] = s
    THEN items[CHOOSE k \in DOMAIN items : ask.targets[k] = s] ELSE NoItem

\* read_remote_individual and read_remote_batch: every item that carries a
\* reading is cached; the request fails only with the item that was asked for.
FetchedFrom(items) ==
    [s \in Sensor |-> LET item == ItemFor(items, s)
                     IN  IF item = NoItem THEN cache[s]
                         ELSE Cached(item.of, item.asof, ToldWhenAsked(s))]

NoteFromAsked(items) ==                                                  \* mutant
    IF ask.sensor = Power /\ ItemFor(items, Power) # NoItem
    THEN NotePower(Power, ItemFor(items, Power).asof) ELSE UNCHANGED power
NoteFrom(items) ==
    IF ItemFor(items, Power) # NoItem
    THEN NotePower(Power, ItemFor(items, Power).asof) ELSE UNCHANGED power

Answer(items) ==
    /\ pc = "asking"
    /\ cache' = FetchedFrom(items)
    /\ NoteFrom(items)
    /\ IF ItemFor(items, ask.sensor) # NoItem THEN Serve(cache'[ask.sensor]) ELSE Silent
    /\ pc' = "idle" /\ ask' = NoAsk
    /\ UNCHANGED <<route, now, link, meter>>

----------------------------------------------------------------------------
\* update_power, on every tick: only a real cpu_power is swept, past the cache.
SweepDueLate == route[Power] \in {"real", "rapl"}                        \* mutant
                /\ (powerReadAt = Never \/ now - powerReadAt > Ttl)
SweepDue == route[Power] \in {"real", "rapl"}
            /\ (powerReadAt = Never \/ now - powerReadAt >= Ttl)

OnTick ==
    /\ pc = "idle"
    /\ IF SweepDue
       THEN /\ powerReadAt' = now
            /\ \/ /\ IF route[Power] = "rapl" THEN SampleTaken ELSE UNCHANGED meter
                  /\ known' = now /\ UNCHANGED failedAt
               \/ /\ IF route[Power] = "rapl" THEN SampleFails ELSE UNCHANGED meter
                  /\ failedAt' = now /\ UNCHANGED known
       ELSE UNCHANGED <<meter, power>>
    /\ Silent
    /\ UNCHANGED <<route, now, cache, link, pc, ask>>

\* A request is never waited for beyond its timeout.
Advance(drawn) ==
    /\ now < End
    /\ pc = "asking" => now < ask.since + Timeout
    /\ now' = now + 1
    /\ counter' = (counter + drawn) % Range
    /\ uncredited' = IF previous = NoSample THEN 0 ELSE uncredited + drawn
    /\ overran' = (overran \/ uncredited' >= Range)
    /\ Silent
    /\ UNCHANGED <<route, cache, link, pc, ask, previous, power>>

Ages == [DOMAIN ask.targets -> Time \cup {Never}]

Next ==
    \/ \E s \in Sensor : \/ ReadCached(s) \/ ReadReal(s) \/ ReadRealFails(s)
                         \/ ReadSimulator(s) \/ ReadNowhere(s) \/ ReadRemote(s)
    \/ \E granted \in {"plain", "batch"} : Connect(granted)
    \/ ConnectFails \/ RequestFails
    \/ \E ages \in Ages :
          /\ \A k \in DOMAIN ages : ages[k] # Never => ages[k] \in PeerAnswer(ask.targets[k])
          /\ Answer(HandleBatch(ages))
    \/ OnTick
    \/ \E drawn \in 0 .. (IF route[Power] = "rapl" THEN MaxPower ELSE 0) : Advance(drawn)

Spec == Init /\ [][Next]_vars

----------------------------------------------------------------------------
\* Types, and no more energy is reported than was drawn.
TypeOK ==
    /\ route \in Registries
    /\ now \in Time
    /\ cache \in [Sensor -> Entry]
    /\ link \in {"none", "plain", "batch"}
    /\ pc \in {"idle", "connecting", "asking"}
    /\ ask = NoAsk \/ /\ ask.sensor \in Sensor /\ ask.since \in Time \cup {Never}
                      /\ \A k \in DOMAIN ask.targets : ask.targets[k] \in Sensor
    /\ counter \in 0 .. Range - 1
    /\ previous = NoSample \/ previous \in [t : Time, e : 0 .. Range - 1]
    /\ known \in Time \cup {Never} /\ powerReadAt \in Time \cup {Never}
    /\ failedAt \in Time \cup {Never} /\ overran \in BOOLEAN
    /\ uncredited \in 0 .. End * MaxPower
    /\ shown \in Entry

\* What a rule is given describes the sensor it asked for, and describes it as
\* it was at most one cache term ago, on top of the request and of the peer's
\* own cache when the sensor is remote: across batches, in which an answer fills
\* the entries of sensors nobody asked for.
Fresh ==
    /\ \A s \in Sensor : cache[s] # NoEntry => cache[s].of = s
    /\ shown # NoEntry =>
          now - shown.asof < Ttl + (IF route[shown.of] = "remote" THEN Timeout + Term(PeerTtl) ELSE 1)

\* The windows of the RAPL driver tile time: whatever the failing, degenerate
\* and wrapped samples in between, the energy not reported yet is the energy
\* the counter advanced by since the last accepted sample, unless a window held
\* a whole range of the counter.
EnergyHonest ==
    previous # NoSample =>
        /\ uncredited >= Window
        /\ ~overran => uncredited = Window

\* The power that is shared among the forms, cpu_power() (bus.rs:1586), returns
\* whatever was noted last.  After a tick a local one is older than a cache term
\* only if its driver failed within that term, and no rule is ever shown a newer
\* reading of it, a cached or a prefetched one, than the forms are charged by.
Recent(at) == at # Never /\ now - at < Term(Ttl)
PowerUpToDate ==
    [][ /\ OnTick /\ route[Power] \in {"real", "rapl"} => Recent(known') \/ Recent(failedAt')
        /\ shown'.of = Power /\ route[Power] # "simulator" => shown'.asof <= known' ]_vars

\* FORMAL 4.7 of the project: synthetic data is always marked in the ledger,
\* under the name of the sensor a rule reads it from.
SyntheticMarked == shown.of \in Simulated => shown.told
=============================================================================
