# Verification of verbo

TLA+ models of the runtime of Verbo (`src/core`), model-checked with TLC and
partly proved with TLAPS.  Verbo programs declare *forms*, each with a
conjugation, a maintenance deadline and an absolute horizon, and a *review*
(rules over sensors that dissolve, subvert, reclassify or act).  A tick engine
ends the forms; an FXP bus reaches sensors and actuators, local or of other
hosts; a hash-chained ledger ("Caderno") records everything.

## 1. Inventory

Paths are under `src/core/crates`.

| component | state | operations | hard behaviours | what makes it correct |
|---|---|---|---|---|
| tick engine `vbl-runtime/src/engine.rs`, `form.rs` | `forms` map, `order` list, scheduler, retained labour, virtual clock | `register_form`, `bind`, `tick` (review, action lists, implicit keep, collapse, horizon), `dissolve_form`, `reclassify_*`, `keep`, `persist` | the list shrinks under the index loop; action lists return in the middle; due deadlines of a form whose review stopped go back to the heap with the version they were drained with | map, list, heap and labour agree; no deadline is lost; ends are prompt; only legal transitions; every form ends |
| deadline scheduler `scheduler.rs` | binary heap of versioned entries | `schedule`, `drain_due`, `remove_form` | obsolete versions stay in the heap | no lost deadline, bounded garbage |
| main interpreter `main_interp.rs` | next due time of each `every` block | `run_due` | periods below or off the tick grid | a form kept often enough never collapses |
| loader `loader.rs` | - | `load`, `validate` | declaration over a living name | declared forms enter the books |
| persistence `persist.rs` | `.vl` files and JSON sidecars | `reload_equilibrium` | torn or failing writes, a clock that restarts | reloaded forms keep their horizon |
| run loop `vbl-cli/src/main.rs` | - | `run`, `run_loop` | order of reload, load, main and tick | as the engine |
| start of the CLI `vbl-cli/src/main.rs` (`build_fxp`, `fxpd`) | config, registry, routes | read the file, apply it, build the bus; serve, then announce | a refusal half-way; peers that come and go meanwhile | every accepted name has a route, the start ends |
| FXP bus, actuation `vbl-fxp/src/bus.rs` | routes, clients, queue | `act_with_priority`, `on_tick` | lost acknowledgements, fallback, retry after a late execution, reconnection mid-call | the limits that bind a device hold on every path to it, honest outcomes, no command lost |
| FXP bus, sensor reading `bus.rs`, RAPL driver `drivers.rs` | cache, last known power, last sample of the meter | `read_sensor`, `read_remote_batch`, power sweep of `on_tick` | one answer fills the entries of sensors nobody asked for; failing, degenerate and wrapped samples | readings are of their sensor and fresh, energy windows tile time, the power shared is the latest known |
| command queue `vbl-fxp/src/queue.rs` | bounded heap by priority and sequence | `enqueue`, `requeue`, `dequeue` | the pump empties it and puts back; full queue | nothing lost or retried too often |
| simulated FXP `vbl-runtime/src/sim.rs`, `fxp.rs` | scripted values, faults | `act`, `read`, own fallback | its own alternates beside the bus's | as the bus |
| production ledger `production_ledger.rs` | channel, writer thread, buffer, file | `open`, `record`, `leak`, `close`, `drop`; `verify*`, `jsonl_from_binary` | kill in the middle of a frame, I/O errors, join of a dead writer | the file is an honest prefix, success means complete, the verifier is exact |
| hash-chained ledger `ledger.rs` | list of events, head of the chain | `record`, `verify_chain`, `export_jsonl` | tampering after the fact | the chain breaks |
| peer `vbl-fxp/src/peer.rs`, `transport.rs`, `auth.rs` | per connection: authentication, capabilities, dictionary; the client's connections | AUTH, CAPS, HELLO, DICT_SYNC, ACT, READ, READ_BATCH | late answers, reconnection without authentication, dictionaries that change between frames | nothing served before authentication, both ends agree, answers go to their request |
| TLS session store `sessoes.rs` | resumable sessions in memory and in a file | put, get, take, prune, persist | eviction, expiry, restarts, failing writes | sessions are single-use and last their term |
| TLS and TOFU store `tls.rs` | pins in memory and in a file; client configurations with their tickets | `verificar`, `verificar_estrito`, rotation, `persistir` | configurations shared by endpoints of different trust; the write fails after the pin entered memory; several processes on one file | every link was verified under its endpoint's trust, what was learned stays |
| wire schema `schema.rs` | - | encode, decode | truncated and oversized frames | decoding inverts encoding |
| registry and drivers `registry.rs`, `drivers.rs` | devices, aliases, fallbacks | `parse_config`, `validate`, `apply`, routes | applied in the order of names, not of lines; aliases before and over devices | names, aliases and devices agree, at every step |
| discovery `discover.rs`, `mdns.rs` | beacons, peers heard in one window | announce, listen | loss, daemons restarted on other ports, two daemons on one host | routes lead to peers that were there |
| language `vbl-lang` | - | lex, parse, canonical form | canonical text must parse back | pure function |
| auditor, soak, JSON | - | measurements, formatting | - | not modelled |

**How they interact.** One thread runs reload, load and then, per iteration,
`run_due` and `tick`; both call the FXP bus synchronously and write to the
ledger.  The bus calls drivers (files), peers (TCP, TLS or UDP) or the simulator
and is pumped by the tick (`on_tick`).  The ledger's writer is a thread of its
own behind an unbounded channel.  Persistence happens inside a reclassification,
and is read back by the next process.  A peer (`vbl fxpd`) owns a bus of its own
behind a mutex, shared by its connections; it binds its socket, then announces it by
multicast beacons, and a bus being built listens for a window per `discover:`
endpoint.  All processes of a user share one TOFU file, and nothing else locks it.

## 2. Modules and how they correspond to the code

**`Engine`** models `engine.rs`, `scheduler.rs`, `form.rs`, `main_interp.rs`, the
registration of `loader.rs` and `run_loop`.  One action per branch of the loop
body of `tick`; `pc` says where in it the engine is, and `b`, `i`, `r`, `a` are
its indexes (block of main, position in `order`, rule, action).  `DissolveForm`
and `StopReview` are the two ways to leave the body early.  What a sensor reads
and whether a condition holds is an outside choice (`RuleFires` or
`RuleDoesNotFire`); so are the outcomes of persisting (`Persist`).  Abstractions:
time is in whole seconds (the code uses `f64` and the CLI ticks of 1 s); the heap
is a set of entries, since every overdue entry of a form is drained at once and
equal entries are handled alike; watts and ledger texts are left out; the outcome
of an `act` is only recorded by the engine; `run_loop`'s early end when no form is
left only shortens a behaviour.  The branch of `execute_actions` that records
`review_after_dissolution` cannot be reached from `tick` and has no action.

**`FormLife`** is the abstract specification: the matrix of legal transitions of
a form and its fixed instant of birth.  `Engine!ImplementsLife` is the refinement.

**`EngineInvariant`** states the engine's three inductive invariants: `IInv` (types,
books, deadlines), `RInv` (the loop over `order`, reviews and subversion) and `KInv`
(the keeps of main).  **`EngineProofs`** proves types, books, visits, subversion and
the refinement of `FormLife`; **`EngineDeadlineProofs`**, on top of it, deadlines,
restarts and keeps.  **`MCEngine`** holds the programs of the runs.

**`EngineRestart`** (with **`MCEngineRestart`**) composes the engine with the
persistence directory over several runs of the process: `Restart` at any step,
`Reload` file by file in any order (as `read_dir` gives them), then `RunStep`.

**`ActBus`** (with **`MCActBus`**) models actuation through the bus: `Issue`
(`act_with_priority` up to the primary route), `Primary`, `Alternate`, `Exhaust`
(`try_fallback`, `enqueue`), `OnTick`, `Expire`, `Retry`, `PumpEnd`
(`pump_queue`).  `DeliverRoute` has one disjunct per route.  There are two tables of
limits: `Limit` of the registry, which `Issue` and the drivers check, and `SimLimit`,
which the simulator checks and a config file does not change (`build` keeps the devices
the simulator already has).  `breach` records whatever is put out beyond the registry's
limit, by which route and to which device.  Answers of devices
and peers are outside choices; a remote request without an answer may have been
carried out or not.  The attempts of one driver delivery are one step, because
nothing changes between them.  Wall-clock time is only "answered" or "not
answered in time"; the wrap of the `u32` sequence number is left out (a command
waits a few ticks).  A late execution by a peer is counted when the bus gives up.

**`ProductionLedger`** (with **`MCProductionLedger`**) models the ledger's two
threads, the channel, the buffer and the file, and the verifier and the JSONL
export as operators.  A file is a sequence of cells, two per frame; a frame that
lacks its second cell stands for any incomplete frame.  The buffer may be written
out between any two pieces, because lines have any length.  SHA-256 is ideal: the
hash of a chain is the sequence of its lines.  Aggregates are left out.

**`SensorBus`** (with **`MCSensorBus`**) is the reading side of the bus: `ReadCached`,
`ReadReal`, `ReadSimulator`, `ReadNowhere` and `ReadRemote` are the branches of
`read_sensor`; a remote reading goes on through `Connect` and `Answer` (or fails),
because time passes, devices change and the peer reads through a cache of its own
meanwhile.  With BATCH granted, a request takes every remote sensor whose entry is
stale (`AlvosDeBatch`), named in the order of the registry (`InOrder`); the peer makes
one item for each name (`HandleBatch`), and names and items are matched by position only
(`ItemFor`), so that an item may describe another device if they get out of step.
`OnTick` is the power sweep.  `SampleTaken`, `WarmUp`,
`Degenerate` and `SampleFails` are the outcomes of one sample of the RAPL meter.
A number is abstracted to the device it describes and the instant it was true of.
`known` is the instant of what `cpu_power()` returns.  The flag `power_inaccessible` is
left out, because the code writes it and never reads it (section 6); `failedAt` is
history, not state of the code.

**`TlsTrust`** (with **`MCTlsTrust`**) models whom the bus trusts and how a peer
remembers sessions: `Connect` takes a client configuration from the cache under its
`Key`, `Resume` offers the ticket in it, `Full` verifies a certificate under the
configuration's trust, `OpenTmp`, `WriteTmp` and `Rename` persist the store step by
step, `Finish` issues the next session.  `AdicionarPin` and `RemoverPin` rotate;
`ClientRestart` and `ServerRestart` read the files again.  A peer saves its sessions
within the operation that changes them (it is one process), and the save may fail.
Cryptography is ideal and rustls external.

**`DeviceRegistry`** models the config file of the FXP: one action per line read
(`ReadLine`), `EndOfFile` (`validate`), one action per name applied (`SetAlias`,
`Override`, `Extend`, `ApplyFallback`, each with the branch that refuses the file),
`SelectMode`, and one per route built.  **`Discovery`** models the daemons
(`Serve`, `Announce`, `Beacon`, `Kill`) and one listening window.  **`Deployment`**
(with **`MCDeployment`**) composes them: routes are built one after the other, and
the ones that name a peer open a window of their own (`Search`, `Resolve`).  Limits,
quantities and paths are abstracted to whether they are given.  The maps of the code
are ordered by name (`BTreeMap`): `todo` is the set of names still to apply, and
`IsNext` takes the smallest.

**`PeerLink`** (with **`MCPeerLink`**) models the bus's requests to one peer: the
client's phases (`ensure_remote`, `negotiate`, `exchange_hello`, `dict_sync`,
`request`), one action per frame it takes, against the threads of the peer
(`serve_connection`, `dispatch`): `Serve` for the connection in use and
`ServeAbandoned` for those the client gave up with a frame on its way; one operator per
handler says what becomes of the connection.  A frame is its opcode, number,
codec and capabilities; whether compression pays is an outside choice, as is the
moment of a timeout.  `Degrade` is the second connection that follows a failed
CAPS.  Not in it: listeners, TLS itself (only whether CAPS leaves as early data),
heartbeats and BYE, which the bus never sends, timestamps.

**`RemoteCall`** is its abstract specification: a request is carried out at most
once, before it is answered, or late if it was given up.  `PeerLink!ImplementsRemoteCall`
is the refinement; it is also what `ActBus` assumes of a remote route, where a
request without an answer may or may not have been carried out.

Each of these components has its proofs in a module of its own, which also states
its inductive invariant: **`ActBusProofs`**, **`ProductionLedgerProofs`**,
**`SensorBusProofs`**, **`TlsTrustProofs`**, **`PeerLinkProofs`**, and
**`DeploymentProofs`** for registry, discovery and their composition.

Definitions marked `\* mutant` are plausible wrong versions of the definition
that follows them; each property is broken by one of them (PROJECT.json,
"mutants"), which shows that it depends on the code's choices.

## 3. Runs

| run | expected | what it shows |
|---|---|---|
| `engine_core` | passes | three forms (kept by main; cycling through the conjugations; subverted), 4 ticks of 2 s: no deadline is lost across keeps, reclassifications and postponements, horizon and collapse are prompt, each form is visited once a tick, a subverted form ends in its tick unless it was reclassified and its rule was run (`SubvertAsWritten`), the engine implements `FormLife` |
| `engine_keep` | passes | no reclassification, 7 ticks: kept forms survive off-grid periods, every form ends |
| `engine_restart` | passes | three runs ended at any step, torn and failing writes: map, list, heap and labour agree at every step, for reloaded forms too, declared again or not, and they have their deadlines |
| `engine_restart_horizon` | violated | the clock restarts at 0 but the sidecar keeps the old clock's instant: a reloaded form gets time back |
| `act_bus` | passes | three commands over all routes: the queue keeps its books and retries are exact (`QueueKeepsBooks`), success is never claimed without a device and only lost acknowledgements duplicate an actuation, on every path the registry's limit holds for drivers and the simulator's own for simulated devices, and a peer is sent more than its device's limit only by a fallback (`WithinLimits`), every queued command settles |
| `sensor_bus` | passes | a bus with drivers of its own and one whose sensors a peer serves: every reading is of the sensor asked for and no older than caches and timeout allow, also when items of a batch are missing, the windows of the energy meter tile time, the power shared after a tick is fresh unless its driver fails and never older than what a rule was shown (`PowerUpToDate`) |
| `sensor_marks` | violated | a batch caches a synthetic reading nobody asked for; a rule reads it later and nothing was ever marked |
| `peer_link` | passes | three requests, timeouts, failing connections and a restart of the peer, over all keys and kinds of capabilities and dictionaries: only authenticated clients are served, both ends hold the same capabilities and readable codecs and kept connections have nothing on their way (`EndsAgree`), handshakes between ends that fit never fail by themselves, the link implements `RemoteCall` |
| `tls_trust` | passes | two peers of one host under every kind of trust, restarts of both ends, failing writes, a rotation: no connection without a certificate verified for that endpoint, one learned identity per peer that stays in a readable file, sessions are single-use and can be resumed until their term or eviction |
| `tofu_unrecorded` | violated | a first use whose write fails is refused, but stays in memory; the next connection is accepted unrecorded.  It has two processes |
| `deployment` | passes | config files of up to four lines, two searches while two daemons come, go and change ports: the registry is consistent at every step, every name the loader accepts has a route, discovered routes lead to a peer that was there during the search, a peer that announces is found if the window allows it, the start ends |
| `ledger` | passes | kill and I/O errors at any step: the file is a prefix of the recorded events correctly chained, and a kill loses fewer than `FlushEvery` composed frames (`FileIsPrefix`), success means complete, the verifier is exact on every file, damaged ones too, and the export agrees (`VerifierIsExact`), `close` returns |

The violated runs check statements of the documents or comments that the code
does not meet; PROJECT.json, "findings", quotes both sides.

**Bounds.** `Total` ticks and `LoadUntil` (registrations happen before that tick)
bound the engine: 4 ticks of 2 s pass every horizon (4 to 7 s) and deadline (2,
3 s) of the programs, exactly and in between, and `neq` goes through both
reclassifications and back; 7 ticks pass the longest horizon (11 s) of
`engine_keep`.  `Runs = 3` gives a reload of a reloaded form.  `Commands = 3`
with `Capacity = 2` fills the queue and overflows it; `QueueTimeout = 1` gives a
retry, a requeue and an expiry; `Led` and `Cap` have limits the config tightened below the
simulator's, and the commands reach them directly, as alternates of the bus and as
alternates of the simulator.  `MaxEvents = 5` with `FlushEvery = 3` has a flush,
frames after it, and the footer.  `Calls = 3` in `peer_link` lets a late answer
meet the next request and the one after it; `Stops = 1` is a restart at every point.  In `sensor_bus` the times are such that an entry is read fresh, at its last instant
and expired, on top of a request that took its whole timeout; 3 units of range against
a power of 2 let the counter wrap inside a window and a window hold a whole range.
In `tls_trust` one entry of capacity and a term of 2 give eviction and expiry, each
before and after a restart; a rotation can come before, during or after a first use.
In `deployment` four lines are two searches in a row, or a new device with an alias
and a fallback; the window of 2 is as long as two beacons can be apart (`Interval` and
`Late` of 1), and a daemon restarted once in a search can be back on another port.
The properties compare neighbours (one form
with its entries, one command with another, a frame with the next); more of them
repeat these situations.

**Deadlock** is not checked in any run because all the programs end: `run_loop`
after `Total` ticks, the bus after `Commands` commands with an empty queue, the
ledger once it is closed or killed, the link after `Calls` requests, the sensors at
`End`, the trust when its sessions and restarts are used up, the start when it is
ready or refused.  Waiting for ever is excluded by the liveness
properties instead (`Finitude`, `QueueDrains`, `CloseReturns`, `BuildEnds`).

**Fairness.** `FairSpec` of `Engine` is weak fairness of the loop: one thread that
never blocks.  Of `ActBus`, weak fairness of the bus: every call returns (drivers
are files, remote requests have timeouts) and the run loop keeps ticking; no
command need be issued and no device need ever answer.  Of `ProductionLedger`,
weak fairness of the two threads.  Of `Deployment`, weak fairness of the start once
the file is read, of time in an open window, and of beacons that are due; no daemon
need be there.  `PeerLink`, `SensorBus` and `TlsTrust` need none; that a client never waits
in vain between ends that fit is an invariant of `PeerLink` (`HandshakeNeverFails`).  Nothing is assumed of rules, sensors or peers.

## 4. Proofs

TLAPS proves the theorems below.  Each is about the `Spec` of its component (for restarts,
`SpecRestart`) for every value of the constants its named assumption allows: any number of forms, commands, sensors,
endpoints or lines of a config file, any program, capacity, term and timeout.  All the
safety properties of the passing runs, action properties and refinements included, are
stated by a theorem.  Every proof has the same shape: an inductive invariant, found and
checked with TLC, one lemma per action, lemmas on the operators the actions share, and
the properties as consequences of the invariant.

### Tick engine (`EngineProofs`, `EngineDeadlineProofs`; `EngineAssumption`: types, a tick is not empty)

| theorem | statement | the argument |
|---|---|---|
| `TypeCorrect` | `[]TypeOK` | `IndexesInside` keeps the loops' indexes inside the lists they run over while forms leave `order`. Inductive as it stands: a form keeps `declared`, hence its rules, through a reclassification, and every step that shortens `order` leaves the body of the loop |
| `BooksCorrect` | `[]BooksAgree` | map, list, heap and labour change together in `Bind` and `DissolveForm`, the only two operators that change the set of active forms |
| `DeadlinesTracked` | `[]IInv` | below |
| `NoDeadlineLost`, `HorizonKept`, `CollapseKept` | `[]NoLostDeadline`, `[]HorizonPrompt`, `[]CollapsePrompt` | consequences of `IInv` between ticks, where no form is pending |
| `ReviewsTracked` | `[]RInv` | below |
| `FormsVisitedOnce`, `SubversionHolds` | `[]EveryFormOncePerTick`, `[]SubvertAsWritten` | consequences of `RInv` |
| `KeepsTracked` | `[]KInv` | below |
| `KeptFormsStay` | `[]KeptFormsSurvive` | a conjunct of `KInv` |
| `RestartsTracked` | `SpecRestart => []RestartInv` | `IInv` in every run of the process, and nothing but reloads while files are left. A restart leaves an empty map; a reload binds an equilibrium form, which needs no maintenance, under the guard that its horizon is still ahead; the steps of a run are the engine's |
| `RestartsKeepBooks`, `RestartsLoseNoDeadline` | `SpecRestart => []BooksAgree`, `SpecRestart => []NoLostDeadline` | consequences of `RestartInv` |
| `EngineImplementsLife` | `ImplementsLife` | each action maps to a step of `FormLife` or a stutter; needs `BooksAgree` and that no active form with a maintenance deadline is an event (`DeadlineNotEvent`), because a reclassification to nonequilibrium asks only for a deadline and is illegal from an event |

*Deadlines (`IInv`).*  Between ticks the properties say
that a live entry covers each deadline, but in the middle of a tick they are false
as they stand: `drain_due` has taken entries out of the heap which the tick has not
looked at yet.  `IInv` says where they are.  While a form is *pending* (at or
behind the index of the loop) its live entry is drained, in `due`, or still ahead in
the heap; once the tick has left the form, the entry covers the deadline again
and the deadline itself is in the future, or the review stopped in this tick.  The
two deadlines leave this state at different points: maintenance is checked
(`ImplicitKeep`, `Collapse`) before the horizon (`MaintenancePending`).  The steps
that matter are `BeginTick` (an entry is drained or not yet due), `Postpone` (an
entry goes back under the version it was drained with, hence live exactly if it was),
a leave of the loop body by any path, and a dissolution, which shifts the list under
the index without making any other form pending or not pending.

*Reviews (`RInv`).*  The forms of the start of the tick are the ones visited followed
by the rest of `order`, which starts at `i` before a visit and at `i + 1` after it: that
is what a dissolution under the index must preserve.  Every action
carried out belongs to a form visited, and to a rule or an action behind the indexes `r`
and `a`.  A subverted form is doomed by the current list or was reclassified by a later
action of the same list; once its dissolution is journalled it is no longer active, so no
later rule can run.

*Keeps (`KInv`).*  For a form without rules that a block keeps, the block's next due
time is at most a period after the last keep; behind main the block has time left or has
kept the form at this very instant; and both instants are multiples of the tick.  Hence
main keeps it at most `OnGrid(period)` after the last keep, the period rounded up to
ticks (`GridCovers`), and the deadline is not over.  The proof found the boundary of this
operator: a block runs once a tick at most, so a period of 0 counts as one tick.

### Actuation (`ActBusProofs`; `BusAssumption`: types)

| theorem | statement | the argument |
|---|---|---|
| `TypeCorrect`, `QueueBooksCorrect`, `AcksCorrect` | `[]TypeOK`, `[]QueueKeepsBooks`, `[]AcksAreHonest` | the three together are inductive with: commands not yet issued have no outcome, place or execution (`UnissuedUntouched`), the command in hand is not settled, the batch is empty outside the pump (`BatchInPump`), and a command that still counts was retried once for each tick it waited (`WaitsAreTries`). What a requeue needs is that queue and batch together never exceed the capacity |
| `LimitsCorrect` | `[]WithinLimits` | with every breach of a command already issued (`BreachIssued`), and every command for a peer's device beyond its limit rejected when it was issued (`RejectedAtOnce`): the delivery to a peer, of a retry too, checks nothing |

### Registry, discovery and start (`DeploymentProofs`; `RegistryAssumption`, `DiscoveryAssumption`)

| theorem | statement | the argument |
|---|---|---|
| `TypeCorrect`, `RegistryCorrect` | `[]TypeOK`, `[]RegistrySound` | `RegInv` adds that the loops visit names of their own map (`TodoKnown`). `SetAlias`, which may take an alias from another device, and `Extend` are the steps that matter |
| `AcceptedNamesResolve` | `[]NamesResolve` | `EveryDeviceRouted`: while routes are built, each device has one or is yet to be visited |
| `DiscoveredRoutesWereServed` | `RouteWasServed` (action) | `AddressesServed`: an address heard was listened at during this search, by a daemon of its identifier |
| `AliveIsAlwaysFound` | `AliveIsFound` (action) | `SteadyOnTime`: a daemon that lost no beacon since the window opened has been heard, or its next one comes within `Interval + Late` of the opening |

`RegistryAssumption` asks for lines the reader of the file can produce (`Readable`) and an
alphabet without repetitions; `DiscoveryAssumption` for an interval above 0.

### Sensor reading (`SensorBusProofs`; `SensorAssumption`: types, only the power sensor may be a RAPL meter, as in the code)

| theorem | statement | the argument |
|---|---|---|
| `TypeCorrect` | `[]TypeOK` | needs the bound of the energy not yet credited (`EnergyBound`) |
| `ReadingsAreFresh` | `[]Fresh` | the age of a value is bounded at each place it passes: in the request (`AskInTime`), the cache (`CacheInTime`), the result (`ShownInTime`); in an answer each name gets the item the peer made for it (`ItemsAreOfTheirNames`) |
| `EnergyAddsUp` | `[]EnergyHonest` | `CounterAddsUp`: the energy not yet credited is the window modulo the range of the counter, and is the window itself unless it overran |
| `PowerIsUpToDate` | `PowerUpToDate` (action) | `ReadOrFailed`: since the last sweep or reading a local power was noted or its driver failed; `PowerNoted`: no cached power is newer than the one noted, so what a rule is shown (`ShownIsCached`) is not either |

The proof found the boundary of a term of 0, under which an entry can still be used at the
instant it was written (`Term`).

### Trust and sessions (`TlsTrustProofs`; `TrustAssumption`: types, a capacity above 0)

| theorem | statement | the argument |
|---|---|---|
| `TypeCorrect` | `[]TypeOK` | with the bound of the store by its capacity, through every eviction |
| `LinksAreVerified` | `[]EveryLinkVerified` | a ticket in a configuration is of a session whose certificate this process verified under the trust in the configuration's key (`Clients`), and a ticket offered is one of these (`Offered`): so a resumption inherits a verification of its own endpoint |
| `TicketsAreHonoured` | `[]TicketsHonoured` | `TicketsLast` and `Stores`: a session is in the memory of the peer, on its disk, or enough others were stored after it |
| `LearnedStays` | `[]LearnedIsKept`, if there is one process | `Kept`: memory, temporary file and file agree at each step of a write. With a second process the property is false (section 6), so the hypothesis is in the theorem |

### Production ledger (`ProductionLedgerProofs`; `LedgerAssumption`: types, a flush interval above 0)

| theorem | statement | the argument |
|---|---|---|
| `InvariantHolds` | `[]IInv` | the chain followed by the channel is what was recorded (`HeadFollows`, `MailFollows`); file and buffer together are what the writer composed of the chain (`CellsFollow`, `Position`); fewer than `FlushEvery` frames were composed since the last flush (`Flushed`) |
| `TypeCorrect`, `FileIsHonest`, `SuccessIsComplete` | `[]TypeOK`, `[]FileIsPrefix`, `[]ClosedIsComplete` | consequences of `IInv` |
| `VerifierHolds` | `[]VerifierIsExact` | the verifier on a prefix of a correctly chained file of any length, torn at any cell |

### Link to a peer (`PeerLinkProofs`; `LinkAssumption`: what the ends can be configured to)

| theorem | statement | the argument |
|---|---|---|
| `InvariantHolds` | `[]IInv` | in each phase of the client, what both ends hold fixes which one frame may be between them (`Session`, one predicate per phase, and one for a degraded link); connections given up hold at most what was sent before (`Abandoned`); nothing is authenticated without the key (`Keyless`); requests still to be answered are on the link or were left behind with their connection (`Requested`); and undisturbed ends that fit neither refuse nor degrade (`Undisturbed`) |
| `TypeCorrect`, `KeylessIsNeverServed`, `HandshakeHolds`, `EndsAlwaysAgree` | `[]TypeOK`, `[]KeylessNeverServed`, `[]HandshakeNeverFails`, `[]EndsAgree` | consequences of `IInv` |
| `LinkImplementsRemoteCall` | `ImplementsRemoteCall` | each action maps to a step of `RemoteCall` or a stutter; `Requested` says that a frame in flight belongs to a request not yet carried out |

### Only model-checked

- Liveness: `Finitude`, `QueueDrains`, `CloseReturns`, `BuildEnds`.  What is proved by
  ENABLED and fairness is out of the prover's reach.
- The properties of the runs that expect a violation, which are false.

## 5. Plan

1. *(done)* All modules of section 2, and their runs.
2. *(done)* The safety properties of the passing runs, as theorems.
3. Framing of `schema.rs` and the language's compile-time clauses, as operators, with
   lemmas on them.

## 6. Disagreements met, without a run of their own

Where the code and its documents, or two parts of the code, disagreed while it was
modelled, the model follows the code:

- A rule that fires in every tick skips the deadline checks of its form
  (`engine.rs:355`), so the horizon FORMAL 146 calls absolute is postponed without
  end; `HorizonPrompt` and `Finitude` speak of forms whose review got through.
- A `reclassify` after `subvert` in one list returns before the dissolution
  (`engine.rs:519`) and saves the form, against FORMAL 209.  An action after
  a `dissolve` is dropped without the record `review_after_dissolution`.
- A fallback sends its value to a peer's device without the limits registered for it
  (`bus.rs:1250`); local alternates are validated.
- A full queue drops an exhausted command without a record (`bus.rs:1317`).
- A `.vcad` that is empty is reported whole (`production_ledger.rs:400`,
  NOTEBOOK-FORMAT 75).
- Two processes that share the TOFU file lose each other's pins, since each writes the
  whole map it read when it started; two that learn at the same time may accept
  different identities of one peer (`OneIdentity` of `TlsTrust` is violated with the
  two processes of `tofu_unrecorded`).  `tls_trust` has one process.
  With two, a peer learned can also be lost altogether: one renames to the store
  the temporary file that the other has just truncated (`LearnedIsKept`, 9 steps).
- A fallback list may name an alias: `apply` accepts it, but routes are kept under
  canonical names and `try_fallback` skips it.
- The alias of a new device is accepted only if it sorts after the device, because the
  file is applied in one pass by name (`registry.rs:805` says aliases first).
- The simulator is built without the limits and the fallbacks the config declares for
  mandatory devices (`bus.rs:238`), and simulated routes are sent to it without a check
  of the registry's (`bus.rs:1231`, `bus.rs:1553`).  A limit the config tightens
  (`registry.rs:847`) does not bind a simulated device, against FORMAL 194, which
  asks for the limits to be checked before any sending.  `WithinLimits` says what does hold:
  the limit the simulator knows.
- The comment of `update_power` promises that a failing sweep becomes an alert on the
  next operation with a ledger (`bus.rs:1379`).  It sets `power_inaccessible`, which
  nothing reads: no alert follows, and `cpu_power()` (`bus.rs:1586`) goes on returning
  the last power known, of any age and unmarked, while the driver fails.
  `PowerUpToDate` speaks of a driver that works.
- The window of a search (500 ms) is shorter than the interval of the beacons (2 s)
  and no flag sets it: the condition of `AliveIsFound` is not met by the defaults.
- A daemon behind a Unix socket announces port 0; one that serves TLS announces
  itself like one that does not.  mDNS publishes an eight-digit hash (`mdns.rs:68`)
  where its reader asks for 64 digits (`mdns.rs:148`), so it resolves nothing.
- SIGTERM ends `fxpd` without dropping its runtime, so its ledger gets no footer.

## 7. Not modelled, and why

Formatting and encoding (`json.rs`, the texts of the ledger, the bytes of
`schema.rs`, the text of the config file and of beacons) and the file drivers are
pure functions or plain I/O without shared state; the heap auditor, the soak test, the
Python prototype, the web page and the site are not part of the program.  `validate` of
the loader only reports before a run.  The language front end is a pure function
from text to declarations.  mDNS is behind a feature that is off by default.  Of what is modelled,
these are left out: wire timestamps; the disk counter; `invalidate_cache`, which
only the probe calls; groups and source filters of multicast; cryptography; the wrap
of the queue's `u32` sequence number; the growth of the ledger's unbounded channel; the
local timeout an act over TLS gets (`bus.rs:1125`), since a timeout is an
outside choice anyway.
