--------------------------- MODULE SensorBusProofs ---------------------------
(***************************************************************************)
(* Proofs about SensorBus, for every set of sensors, routes, terms of the  *)
(* caches, timeouts, ranges of the energy counter and horizons: the types, *)
(* the age of readings, the energy of the RAPL windows and the power of a  *)
(* tick.                                                                   *)
(***************************************************************************)
EXTENDS SensorBus, TLAPS

(***************************************************************************)
(* The inductive invariant.                                                *)
(***************************************************************************)

\* A request is about sensors of the peer and is not waited for too long.
AskInTime ==
    /\ pc # "idle" => ask.sensor \in Sensor /\ route[ask.sensor] = "remote"
    /\ pc = "asking" =>
          /\ \A k \in DOMAIN ask.targets : route[ask.targets[k]] = "remote"
          /\ ask.since \in Time /\ ask.since <= now /\ now <= ask.since + Timeout

\* How old a reading may be when it enters the cache.
Slack(s) == IF route[s] = "remote" THEN Timeout + Term(PeerTtl) ELSE 1

CacheInTime ==
    \A s \in Sensor : cache[s] # NoEntry =>
        /\ cache[s].of = s
        /\ cache[s].at <= now /\ cache[s].at - cache[s].asof < Slack(s)

ShownInTime == shown # NoEntry => now - shown.asof < Ttl + Slack(shown.of)

\* The last sample and the energy drawn since then make up the counter, up to
\* its wraps.
CounterAddsUp ==
    /\ previous = NoSample => uncredited = 0
    /\ previous # NoSample =>
          \E k \in Nat : previous.e + uncredited = counter + k * Range
    /\ ~overran => uncredited < Range

EnergyBound == uncredited <= now * MaxPower

\* No older than the last sweep, a local power was read or its driver failed.
ReadOrFailed ==
    /\ known <= now /\ powerReadAt <= now
    /\ route[Power] \in {"real", "rapl"} => powerReadAt <= known \/ powerReadAt <= failedAt

\* No cached power is newer than the one noted.
PowerNoted == cache[Power] # NoEntry => cache[Power].asof <= known

IInv ==
    /\ TypeOK /\ AskInTime /\ CacheInTime /\ ShownInTime
    /\ CounterAddsUp /\ EnergyBound /\ ReadOrFailed /\ PowerNoted

(***************************************************************************)
(* Numbers.                                                                *)
(***************************************************************************)

LEMMA Constants ==
    /\ Power \in Sensor /\ "none" \notin Sensor
    /\ Ttl \in Nat /\ PeerTtl \in Nat /\ Timeout \in Nat /\ MinDt \in Nat
    /\ Range \in Nat /\ Range > 0 /\ MaxPower \in Nat /\ End \in Nat
    /\ Term(PeerTtl) \in Nat /\ Term(PeerTtl) > 0 /\ Term(Ttl) \in Nat /\ Term(Ttl) > 0
    /\ Ttl <= Term(Ttl)
BY SensorAssumption DEF Term

LEMMA Remainder ==
    ASSUME NEW a \in Nat, NEW m \in Nat, m > 0
    PROVE  /\ a % m \in 0 .. m - 1
           /\ \E j \in Nat : a = (a % m) + j * m
<1>1. a % m \in 0 .. m - 1
  OBVIOUS
<1>2. (a \div m) \in Nat /\ a = (a % m) + (a \div m) * m
  OBVIOUS
<1>3. QED
  BY <1>1, <1>2

LEMMA MoreRanges ==
    ASSUME NEW j \in Nat, NEW k \in Nat, NEW m \in Nat
    PROVE  j * m \in Nat /\ (j + k) * m = j * m + k * m /\ (j > 0 => m <= j * m)
OBVIOUS

LEMMA SumsMeet ==
    ASSUME NEW p \in Nat, NEW u \in Nat, NEW d \in Nat, NEW c \in Nat, NEW c1 \in Nat,
           NEW x \in Nat, NEW y \in Nat, p + u = c + x, c + d = c1 + y
    PROVE  p + (u + d) = c1 + (y + x)
OBVIOUS

LEMMA BoundGrows ==
    ASSUME NEW n \in Nat, NEW m \in Nat, NEW l \in Nat, n <= l
    PROVE  /\ (n + 1) * m = n * m + m
           /\ n * m \in Nat /\ l * m \in Nat /\ n * m <= l * m
<1>1. l - n \in Nat /\ l = n + (l - n)
  OBVIOUS
<1>2. n * m \in Nat /\ (l - n) * m \in Nat /\ l * m = n * m + (l - n) * m
  BY <1>1
<1>3. QED
  BY <1>1, <1>2

(***************************************************************************)
(* The energy meter.                                                       *)
(***************************************************************************)

MeterOK ==
    /\ counter \in 0 .. Range - 1
    /\ previous = NoSample \/ previous \in [t : Time, e : 0 .. Range - 1]
    /\ overran \in BOOLEAN /\ uncredited \in 0 .. End * MaxPower
    /\ CounterAddsUp /\ EnergyBound

\* What was drawn since the last sample is the window, plus whole ranges that
\* the counter cannot show.
LEMMA WindowFits ==
    ASSUME MeterOK, previous # NoSample
    PROVE  /\ Window \in 0 .. Range - 1 /\ previous.e \in 0 .. Range - 1
           /\ \E j \in Nat : uncredited = Window + j * Range
           /\ ~overran => uncredited = Window
<1>1. /\ counter \in 0 .. Range - 1 /\ previous.e \in 0 .. Range - 1
      /\ uncredited \in Nat /\ Range \in Nat /\ Range > 0
      /\ ~overran => uncredited < Range
  <2>1. End * MaxPower \in Nat
    BY Constants, BoundGrows
  <2>2. QED
    BY <2>1, Constants DEF MeterOK, CounterAddsUp
<1>2. PICK k \in Nat : previous.e + uncredited = counter + k * Range
  BY DEF MeterOK, CounterAddsUp
<1>3. k * Range \in Nat /\ (k > 0 => Range <= k * Range)
  BY <1>1, MoreRanges
<1>4. Window \in 0 .. Range - 1
  BY <1>1 DEF Window
<1>5. \E j \in Nat : uncredited = Window + j * Range
  <2>1. CASE counter >= previous.e
    <3>1. Window = counter - previous.e
      BY <2>1 DEF Window
    <3>2. uncredited = Window + k * Range
      BY <1>1, <1>2, <1>3, <3>1
    <3>3. QED
      BY <3>2
  <2>2. CASE ~(counter >= previous.e)
    <3>1. k # 0
      BY <1>1, <1>2, <2>2
    <3>2. k - 1 \in Nat /\ k = 1 + (k - 1)
      BY <3>1
    <3>3. k * Range = Range + (k - 1) * Range /\ (k - 1) * Range \in Nat
      BY <1>1, <3>2, MoreRanges
    <3>4. Window = Range - previous.e + counter
      BY <2>2 DEF Window
    <3>5. uncredited = Window + (k - 1) * Range
      BY <1>1, <1>2, <3>3, <3>4
    <3>6. QED
      BY <3>2, <3>5
  <2>3. QED
    BY <2>1, <2>2
<1>6. ASSUME ~overran
      PROVE  uncredited = Window
  <2>1. PICK j \in Nat : uncredited = Window + j * Range
    BY <1>5
  <2>2. j * Range \in Nat /\ (j > 0 => Range <= j * Range)
    BY <1>1, MoreRanges
  <2>3. j = 0
    BY <1>1, <1>4, <1>6, <2>1, <2>2
  <2>4. QED
    BY <1>1, <1>4, <2>1, <2>3
<1>7. QED
  BY <1>1, <1>4, <1>5, <1>6

LEMMA FirstSampleKeeps ==
    ASSUME MeterOK, now \in Time, previous = NoSample,
           previous' = [t |-> now, e |-> counter],
           UNCHANGED <<now, counter, uncredited, overran>>
    PROVE  MeterOK'
<1>1. previous' \in [t : Time, e : 0 .. Range - 1] /\ previous'.e = counter
  BY DEF MeterOK
<1>2. previous' # NoSample
  BY <1>1 DEF NoSample, Never, Time
<1>3. uncredited = 0 /\ counter \in Nat /\ 0 * Range = 0
  BY Constants DEF MeterOK, CounterAddsUp
<1>4. previous'.e + uncredited' = counter' + 0 * Range
  BY <1>1, <1>3
<1>5. QED
  BY <1>1, <1>2, <1>4 DEF MeterOK, CounterAddsUp, EnergyBound

LEMMA SampleKeeps ==
    ASSUME MeterOK, now \in Time, UNCHANGED now,
           SampleTaken \/ SampleFails \/ UNCHANGED meter
    PROVE  MeterOK'
<1>1. CASE UNCHANGED meter
  BY <1>1 DEF meter, MeterOK, CounterAddsUp, EnergyBound
<1>2. CASE SampleFails
  <2>1. CASE WarmUp
    BY <1>2, <2>1, FirstSampleKeeps DEF SampleFails, WarmUp
  <2>2. CASE UNCHANGED previous
    BY <1>2, <2>2 DEF SampleFails, MeterOK, CounterAddsUp, EnergyBound
  <2>3. QED
    BY <1>2, <2>1, <2>2 DEF SampleFails
<1>3. CASE SampleTaken
  <2>1. /\ previous # NoSample /\ previous' = [t |-> now, e |-> counter]
        /\ uncredited' = uncredited - Window /\ UNCHANGED <<counter, overran>>
    BY <1>3 DEF SampleTaken
  <2>2. /\ Window \in 0 .. Range - 1
        /\ \E j \in Nat : uncredited = Window + j * Range
        /\ ~overran => uncredited = Window
    BY <2>1, WindowFits
  <2>3. PICK j \in Nat : uncredited = Window + j * Range
    BY <2>2
  <2>4. j * Range \in Nat /\ End * MaxPower \in Nat /\ now * MaxPower \in Nat
    BY Constants, MoreRanges, BoundGrows DEF Time
  <2>5. /\ counter \in 0 .. Range - 1 /\ overran \in BOOLEAN
        /\ uncredited \in 0 .. End * MaxPower /\ uncredited <= now * MaxPower
        /\ ~overran => uncredited < Range
    BY DEF MeterOK, CounterAddsUp, EnergyBound
  <2>6. uncredited' = j * Range /\ uncredited' <= uncredited
    BY <2>1, <2>2, <2>3, <2>4, <2>5, Constants
  <2>7. previous' \in [t : Time, e : 0 .. Range - 1] /\ previous'.e = counter
    BY <2>1, <2>5
  <2>8. previous' # NoSample
    BY <2>7 DEF NoSample, Never, Time
  <2>9. uncredited' \in 0 .. End * MaxPower /\ uncredited' <= now * MaxPower
    BY <2>4, <2>5, <2>6
  <2>10. ~overran => uncredited' < Range
    BY <2>4, <2>5, <2>6, Constants
  <2>11. \E k \in Nat : previous'.e + uncredited' = counter' + k * Range
    BY <2>1, <2>6, <2>7
  <2>12. QED
    BY <2>1, <2>5, <2>7, <2>8, <2>9, <2>10, <2>11 DEF MeterOK, CounterAddsUp, EnergyBound
<1>4. QED
  BY <1>1, <1>2, <1>3

LEMMA AdvanceMeterKeeps ==
    ASSUME MeterOK, now \in Time, NEW drawn \in 0 .. MaxPower, Advance(drawn)
    PROVE  MeterOK'
<1>1. /\ now < End /\ now' = now + 1 /\ counter' = (counter + drawn) % Range
      /\ uncredited' = IF previous = NoSample THEN 0 ELSE uncredited + drawn
      /\ overran' = (overran \/ uncredited' >= Range) /\ previous' = previous
  BY DEF Advance
<1>2. /\ counter \in 0 .. Range - 1 /\ overran \in BOOLEAN
      /\ uncredited \in 0 .. End * MaxPower /\ uncredited <= now * MaxPower
      /\ ~overran => uncredited < Range
      /\ previous = NoSample \/ previous \in [t : Time, e : 0 .. Range - 1]
  BY DEF MeterOK, CounterAddsUp, EnergyBound
<1>3. /\ now \in Nat /\ now + 1 \in Nat /\ now <= End /\ now + 1 <= End
      /\ drawn \in Nat /\ drawn <= MaxPower
      /\ counter + drawn \in Nat
  BY <1>1, <1>2, Constants DEF Time
<1>4. /\ now' * MaxPower = now * MaxPower + MaxPower /\ now * MaxPower \in Nat
      /\ End * MaxPower \in Nat /\ now' * MaxPower <= End * MaxPower
  BY <1>1, <1>3, Constants, BoundGrows
<1>5. counter' \in 0 .. Range - 1 /\ \E j \in Nat : counter + drawn = counter' + j * Range
  BY <1>1, <1>3, Constants, Remainder
<1>6. uncredited' \in Nat /\ uncredited' <= now' * MaxPower
  BY <1>1, <1>2, <1>3, <1>4, Constants
<1>7. uncredited' \in 0 .. End * MaxPower
  BY <1>4, <1>6, <1>1, <1>3, Constants
<1>8. overran' \in BOOLEAN /\ (~overran' => uncredited' < Range)
  <2>1. overran' \in BOOLEAN /\ (~overran' => ~(uncredited' >= Range))
    BY <1>1, Zenon
  <2>2. QED
    BY <1>6, <2>1, Constants
<1>9. ASSUME previous # NoSample
      PROVE  \E k \in Nat : previous.e + uncredited' = counter' + k * Range
  <2>1. PICK k \in Nat : previous.e + uncredited = counter + k * Range
    BY <1>9 DEF MeterOK, CounterAddsUp
  <2>2. PICK j \in Nat : counter + drawn = counter' + j * Range
    BY <1>5
  <2>3. /\ j * Range \in Nat /\ k * Range \in Nat /\ j + k \in Nat
        /\ (j + k) * Range = j * Range + k * Range
    BY Constants, MoreRanges
  <2>4. previous.e \in Nat /\ uncredited \in Nat /\ uncredited' = uncredited + drawn
    BY <1>1, <1>2, <1>4, <1>9, Constants
  <2>5. previous.e + uncredited' = counter' + (j + k) * Range
    <3>1. counter \in Nat /\ counter' \in Nat
      BY <1>2, <1>5, Constants
    <3>2. previous.e + (uncredited + drawn) = counter' + (j * Range + k * Range)
      <4>1. /\ previous.e \in Nat /\ uncredited \in Nat /\ drawn \in Nat
            /\ k * Range \in Nat /\ j * Range \in Nat
        BY <1>3, <2>3, <2>4
      <4>2. PICK x \in Nat, y \in Nat : x = k * Range /\ y = j * Range
        BY <4>1
      <4>3. PICK p \in Nat, u \in Nat, c \in Nat, c1 \in Nat :
                p = previous.e /\ u = uncredited /\ c = counter /\ c1 = counter'
        BY <3>1, <4>1
      <4>4. p + u = c + x /\ c + drawn = c1 + y
        BY <2>1, <2>2, <4>2, <4>3
      <4>5. p + (u + drawn) = c1 + (y + x)
        BY <4>1, <4>4, SumsMeet
      <4>6. QED
        BY <4>2, <4>3, <4>5
    <3>3. QED
      BY <2>3, <2>4, <3>2
  <2>6. QED
    BY <2>3, <2>5
<1>10. previous = NoSample => uncredited' = 0
  BY <1>1
<1>11. QED
  BY <1>1, <1>2, <1>5, <1>6, <1>7, <1>8, <1>9, <1>10 DEF MeterOK, CounterAddsUp, EnergyBound

(***************************************************************************)
(* Readings.                                                               *)
(***************************************************************************)

LEMMA MeterOfIInv ==
    ASSUME IInv
    PROVE  /\ MeterOK /\ now \in Time /\ now \in Nat /\ route \in Registries
           /\ cache \in [Sensor -> Entry]
BY Constants DEF IInv, TypeOK, MeterOK, Time

\* A reading that is shown, or cached, at this instant.
LEMMA CachedIsEntry ==
    ASSUME now \in Time, NEW s \in Sensor, NEW asof \in Time, NEW told \in BOOLEAN
    PROVE  /\ Cached(s, asof, told) \in Entry /\ Cached(s, asof, told) # NoEntry
           /\ Cached(s, asof, told).of = s /\ Cached(s, asof, told).at = now
           /\ Cached(s, asof, told).asof = asof
<1>1. Cached(s, asof, told) \in [at : Time, of : Sensor, asof : Time, told : BOOLEAN]
  BY DEF Cached
<1>2. Cached(s, asof, told).of # NoEntry.of
  BY SensorAssumption DEF Cached, NoEntry
<1>3. QED
  BY <1>1, <1>2 DEF Cached, Entry

LEMMA EntryFields ==
    ASSUME NEW r \in Entry, r # NoEntry
    PROVE  r.at \in Time /\ r.asof \in Time /\ r.of \in Sensor
BY DEF Entry

LEMMA SlackType ==
    ASSUME NEW s
    PROVE  Slack(s) \in Nat /\ Slack(s) > 0 /\ (route[s] # "remote" => Slack(s) = 1)
BY Constants DEF Slack

\* The parts of the invariant that no reading of this kind can disturb.
Idle == /\ pc \in {"idle", "connecting", "asking"} /\ link \in {"none", "plain", "batch"}
        /\ ask = NoAsk \/ /\ ask.sensor \in Sensor /\ ask.since \in Time \cup {Never}
                          /\ \A k \in DOMAIN ask.targets : ask.targets[k] \in Sensor
PowerOK == /\ known \in Time \cup {Never} /\ powerReadAt \in Time \cup {Never}
           /\ failedAt \in Time \cup {Never} /\ ReadOrFailed /\ PowerNoted

LEMMA Assemble ==
    ASSUME route \in Registries, now \in Time, cache \in [Sensor -> Entry], shown \in Entry,
           Idle, MeterOK, PowerOK, AskInTime, CacheInTime, ShownInTime
    PROVE  IInv
BY DEF IInv, TypeOK, Idle, MeterOK, PowerOK

LEMMA AssembleNext ==
    ASSUME route' \in Registries, now' \in Time, cache' \in [Sensor -> Entry], shown' \in Entry,
           Idle', MeterOK', PowerOK', AskInTime', CacheInTime', ShownInTime'
    PROVE  IInv'
BY DEF IInv, TypeOK, Idle, MeterOK, PowerOK

LEMMA Parts ==
    ASSUME IInv
    PROVE  Idle /\ MeterOK /\ PowerOK /\ AskInTime /\ CacheInTime /\ ShownInTime
BY MeterOfIInv DEF IInv, TypeOK, Idle, PowerOK

\* A step that leaves the request and time alone, and keeps the meter, power,
\* cache and reading in order, keeps the invariant.
LEMMA ReadingKeeps ==
    ASSUME IInv, UNCHANGED <<route, now, link, pc, ask>>, MeterOK', PowerOK',
           cache' \in [Sensor -> Entry], CacheInTime', shown' \in Entry, ShownInTime'
    PROVE  IInv'
<1>1. Idle' /\ AskInTime'
  BY Parts DEF Idle, AskInTime
<1>2. route' \in Registries /\ now' \in Time
  BY MeterOfIInv
<1>3. QED
  BY <1>1, <1>2, AssembleNext

LEMMA SilentIsFine ==
    ASSUME Silent
    PROVE  shown' \in Entry /\ ShownInTime'
BY DEF Silent, Entry, ShownInTime

LEMMA CacheStays ==
    ASSUME IInv, UNCHANGED <<route, now, cache>>
    PROVE  cache' \in [Sensor -> Entry] /\ CacheInTime'
BY MeterOfIInv, Parts DEF CacheInTime, Slack

LEMMA PowerStays ==
    ASSUME IInv, UNCHANGED <<route, power>>, UNCHANGED cache[Power], now' \in {now, now + 1}
    PROVE  PowerOK'
<1>1. /\ known \in Int /\ powerReadAt \in Int /\ now \in Int
      /\ known' = known /\ powerReadAt' = powerReadAt /\ failedAt' = failedAt
  BY MeterOfIInv, Parts DEF PowerOK, Time, Never, power
<1>2. known <= now' /\ powerReadAt <= now'
  BY <1>1, Parts DEF PowerOK, ReadOrFailed
<1>3. QED
  BY <1>1, <1>2, Parts DEF PowerOK, ReadOrFailed, PowerNoted

LEMMA MeterStays ==
    ASSUME IInv, UNCHANGED <<now, meter>>
    PROVE  MeterOK'
BY MeterOfIInv DEF MeterOK, CounterAddsUp, EnergyBound, meter

\* A cached reading is served within the term of the cache.
LEMMA ReadCachedKeeps ==
    ASSUME IInv, NEW s \in Sensor, ReadCached(s)
    PROVE  IInv'
<1>1. /\ cache[s] # NoEntry /\ now - cache[s].at < Ttl /\ shown' = cache[s]
      /\ UNCHANGED <<route, now, cache, link, pc, ask, meter, power>>
  BY DEF ReadCached, CacheValid, Serve
<1>2. cache[s] \in Entry /\ now \in Nat
  BY MeterOfIInv
<1>3. /\ cache[s].of = s /\ cache[s].at - cache[s].asof < Slack(s)
      /\ cache[s].at \in Time /\ cache[s].asof \in Time
  BY <1>1, <1>2, Parts, EntryFields DEF CacheInTime
<1>4. now - cache[s].asof < Ttl + Slack(s)
  <2>1. cache[s].at \in Nat /\ cache[s].asof \in Nat /\ Slack(s) \in Nat /\ Ttl \in Nat
    BY <1>3, SlackType, Constants DEF Time
  <2>2. QED
    BY <1>1, <1>2, <1>3, <2>1
<1>5. shown' \in Entry /\ ShownInTime'
  BY <1>1, <1>2, <1>3, <1>4 DEF ShownInTime, Slack
<1>6. MeterOK' /\ PowerOK' /\ cache' \in [Sensor -> Entry] /\ CacheInTime'
  BY <1>1, MeterStays, PowerStays, CacheStays
<1>7. QED
  BY <1>1, <1>5, <1>6, ReadingKeeps

LEMMA ReadRealKeeps ==
    ASSUME IInv, NEW s \in Sensor, ReadReal(s)
    PROVE  IInv'
<1> DEFINE entry == Cached(s, now, FALSE)
<1>1. /\ route[s] \in {"real", "rapl"}
      /\ cache' = [cache EXCEPT ![s] = entry] /\ shown' = cache'[s]
      /\ NotePower(s, now)
      /\ UNCHANGED <<route, now, link, pc, ask>>
  BY DEF ReadReal, Serve
<1>2. now \in Time /\ now \in Nat /\ cache \in [Sensor -> Entry]
  BY MeterOfIInv
<1>3. entry \in Entry /\ entry # NoEntry /\ entry.of = s /\ entry.at = now /\ entry.asof = now
  BY <1>2, CachedIsEntry
<1> HIDE DEF entry
<1>4. /\ cache' \in [Sensor -> Entry] /\ cache'[s] = entry
      /\ \A r \in Sensor \ {s} : cache'[r] = cache[r]
  BY <1>1, <1>2, <1>3
<1>5. Slack(s) = 1 /\ Slack(s)' = 1
  BY <1>1, SlackType DEF Slack
<1>6. CacheInTime'
  <2>1. \A r \in Sensor : Slack(r)' = Slack(r)
    BY <1>1 DEF Slack
  <2>2. QED
    BY <1>1, <1>2, <1>3, <1>4, <1>5, <2>1, Parts DEF CacheInTime
<1>7. shown' \in Entry /\ ShownInTime'
  BY <1>1, <1>2, <1>3, <1>4, <1>5, Constants DEF ShownInTime
<1>8. MeterOK'
  <2>1. SampleTaken \/ UNCHANGED meter
    BY DEF ReadReal
  <2>2. QED
    BY <1>1, <1>2, <2>1, MeterOfIInv, SampleKeeps
<1>9. PowerOK'
  <2>1. CASE s = Power
    <3>1. known' = now /\ powerReadAt' = now /\ failedAt' = failedAt
      BY <1>1, <2>1 DEF NotePower
    <3>2. cache'[Power].asof = now
      BY <1>3, <1>4, <2>1
    <3>3. QED
      BY <1>1, <1>2, <3>1, <3>2, Parts DEF PowerOK, ReadOrFailed, PowerNoted
  <2>2. CASE s # Power
    BY <1>1, <1>4, <2>2, PowerStays, Constants DEF NotePower
  <2>3. QED
    BY <2>1, <2>2
<1>10. QED
  BY <1>1, <1>4, <1>6, <1>7, <1>8, <1>9, ReadingKeeps

LEMMA ReadRealFailsKeeps ==
    ASSUME IInv, NEW s \in Sensor, ReadRealFails(s)
    PROVE  IInv'
<1>1. /\ UNCHANGED <<route, now, cache, link, pc, ask, known, powerReadAt>>
      /\ failedAt' = (IF s = Power THEN now ELSE failedAt) /\ Silent
      /\ SampleFails \/ UNCHANGED meter
  BY DEF ReadRealFails
<1>2. MeterOK'
  BY <1>1, MeterOfIInv, SampleKeeps
<1>3. PowerOK'
  <2>1. /\ known \in Time \cup {Never} /\ powerReadAt \in Time \cup {Never}
        /\ failedAt \in Time \cup {Never} /\ now \in Time
    BY MeterOfIInv, Parts DEF PowerOK
  <2>2. failedAt' \in Time \cup {Never} /\ failedAt' \in {failedAt, now}
    BY <1>1, <2>1
  <2>3. QED
    BY <1>1, <2>1, <2>2, Parts DEF PowerOK, ReadOrFailed, PowerNoted
<1>4. cache' \in [Sensor -> Entry] /\ CacheInTime' /\ shown' \in Entry /\ ShownInTime'
  BY <1>1, CacheStays, SilentIsFine
<1>5. QED
  BY <1>1, <1>2, <1>3, <1>4, ReadingKeeps

LEMMA ReadSimulatorKeeps ==
    ASSUME IInv, NEW s \in Sensor, ReadSimulator(s) \/ ReadNowhere(s)
    PROVE  IInv'
<1>1. UNCHANGED <<route, now, cache, link, pc, ask, meter, power>>
  BY DEF ReadSimulator, ReadNowhere
<1>2. MeterOK' /\ PowerOK' /\ cache' \in [Sensor -> Entry] /\ CacheInTime'
  BY <1>1, MeterStays, PowerStays, CacheStays
<1>3. shown' \in Entry /\ ShownInTime'
  <2>1. CASE ReadNowhere(s)
    BY <2>1, SilentIsFine DEF ReadNowhere
  <2>2. CASE ReadSimulator(s)
    <3> DEFINE entry == Cached(s, now, FALSE)
    <3>1. now \in Time /\ now \in Nat
      BY MeterOfIInv
    <3>2. entry \in Entry /\ entry.of = s /\ entry.asof = now
      BY <3>1, CachedIsEntry
    <3>3. shown' = entry
      BY <2>2 DEF ReadSimulator, Serve
    <3>4. Slack(s)' \in Nat /\ Slack(s)' > 0
      BY <1>1, SlackType DEF Slack
    <3> HIDE DEF entry
    <3>5. QED
      BY <1>1, <3>1, <3>2, <3>3, <3>4, Constants DEF ShownInTime
  <2>3. QED
    BY <2>1, <2>2
<1>4. QED
  BY <1>1, <1>2, <1>3, ReadingKeeps

(***************************************************************************)
(* Requests to the peer.                                                   *)
(***************************************************************************)

\* A step of the request that gives the rule nothing leaves the readings, the
\* power and the meter in order.
LEMMA RequestKeeps ==
    ASSUME IInv, Silent, UNCHANGED <<route, now, cache, meter, power>>, Idle', AskInTime'
    PROVE  IInv'
<1>1. MeterOK' /\ PowerOK' /\ cache' \in [Sensor -> Entry] /\ CacheInTime'
  BY MeterStays, PowerStays, CacheStays
<1>2. shown' \in Entry /\ ShownInTime'
  BY SilentIsFine
<1>3. route' \in Registries /\ now' \in Time
  BY MeterOfIInv
<1>4. QED
  BY <1>1, <1>2, <1>3, AssembleNext

LEMMA RequestInTime ==
    ASSUME IInv, NEW s \in Sensor, route[s] = "remote", NEW granted, Request(s, granted),
           UNCHANGED <<route, now>>, link' \in {"none", "plain", "batch"}
    PROVE  Idle' /\ AskInTime'
<1>1. now \in Time /\ now \in Nat /\ now <= now + Timeout
  BY MeterOfIInv, Constants
<1>2. /\ pc' = "asking" /\ ask'.sensor = s /\ ask'.since = now
      /\ \A k \in DOMAIN ask'.targets :
            ask'.targets[k] \in Sensor /\ route[ask'.targets[k]] = "remote"
  <2>1. PICK targets \in IF granted = "batch" /\ Cardinality(AlvosDeBatch) >= 2
                         THEN InOrder(AlvosDeBatch) ELSE {<<s>>} :
          ask' = [sensor |-> s, targets |-> targets, since |-> now]
    BY DEF Request
  <2>2. CASE targets = <<s>>
    BY <2>1, <2>2 DEF Request
  <2>3. CASE targets \in InOrder(AlvosDeBatch)
    <3>1. targets \in [1 .. Cardinality(AlvosDeBatch) -> AlvosDeBatch]
      BY <2>3 DEF InOrder
    <3>2. \A k \in DOMAIN targets : targets[k] \in Sensor /\ route[targets[k]] = "remote"
      BY <3>1 DEF AlvosDeBatch
    <3>3. QED
      BY <2>1, <3>1, <3>2 DEF Request
  <2>4. QED
    BY <2>1, <2>2, <2>3
<1>3. QED
  BY <1>1, <1>2 DEF Idle, AskInTime

LEMMA ReadRemoteKeeps ==
    ASSUME IInv, NEW s \in Sensor, ReadRemote(s)
    PROVE  IInv'
<1>1. /\ route[s] = "remote" /\ Silent
      /\ UNCHANGED <<route, now, cache, link, meter, power>>
  BY DEF ReadRemote
<1>2. link' \in {"none", "plain", "batch"}
  BY <1>1, Parts DEF Idle
<1>3. Idle' /\ AskInTime'
  <2>1. CASE link = "none"
    <3>1. pc' = "connecting" /\ ask' = [NoAsk EXCEPT !.sensor = s]
      BY <2>1 DEF ReadRemote
    <3>2. ask'.sensor = s /\ ask'.targets = <<>> /\ ask'.since = Never
      BY <3>1 DEF NoAsk
    <3>3. QED
      BY <1>1, <1>2, <3>1, <3>2 DEF Idle, AskInTime
  <2>2. CASE link # "none"
    BY <1>1, <1>2, <2>2, RequestInTime DEF ReadRemote
  <2>3. QED
    BY <2>1, <2>2
<1>4. QED
  BY <1>1, <1>3, RequestKeeps

LEMMA ConnectKeeps ==
    ASSUME IInv, NEW granted \in {"plain", "batch"}, Connect(granted)
    PROVE  IInv'
<1>1. /\ pc = "connecting" /\ link' = granted /\ Request(ask.sensor, granted) /\ Silent
      /\ UNCHANGED <<route, now, cache, meter, power>>
  BY DEF Connect
<1>2. ask.sensor \in Sensor /\ route[ask.sensor] = "remote"
  BY <1>1, Parts DEF AskInTime
<1>3. Idle' /\ AskInTime'
  BY <1>1, <1>2, RequestInTime
<1>4. QED
  BY <1>1, <1>3, RequestKeeps

LEMMA UnansweredKeeps ==
    ASSUME IInv, Unanswered
    PROVE  IInv'
<1>1. /\ pc' = "idle" /\ ask' = NoAsk /\ link' = "none" /\ Silent
      /\ UNCHANGED <<route, now, cache, meter, power>>
  BY DEF Unanswered
<1>2. Idle' /\ AskInTime'
  BY <1>1 DEF Idle, AskInTime
<1>3. QED
  BY <1>1, <1>2, RequestKeeps

\* By their positions each name gets the item the peer made for it.
LEMMA ItemsAreOfTheirNames ==
    ASSUME IInv, pc = "asking", NEW ages \in Ages,
           \A k \in DOMAIN ages : ages[k] # Never => ages[k] \in PeerAnswer(ask.targets[k]),
           NEW s \in Sensor, ItemFor(HandleBatch(ages), s) # NoItem
    PROVE  /\ ItemFor(HandleBatch(ages), s).of = s
           /\ ItemFor(HandleBatch(ages), s).asof \in PeerAnswer(s)
           /\ route[s] = "remote"
<1> DEFINE items == HandleBatch(ages)
<1>1. DOMAIN items = DOMAIN ask.targets /\ DOMAIN ages = DOMAIN ask.targets
  BY DEF HandleBatch, Ages
<1>2. \A k \in DOMAIN items : items[k] # NoItem =>
         items[k].of = ask.targets[k] /\ items[k].asof \in PeerAnswer(ask.targets[k])
  BY <1>1 DEF HandleBatch
<1> HIDE DEF items
<1>3. ItemFor(items, s) # NoItem
  BY DEF items
<1>4. PICK k \in DOMAIN items : ask.targets[k] = s /\ ItemFor(items, s) = items[k]
  BY <1>3 DEF ItemFor
<1>5. route[s] = "remote"
  BY <1>1, <1>4, Parts DEF AskInTime
<1>6. items[k].of = s /\ items[k].asof \in PeerAnswer(s)
  BY <1>2, <1>3, <1>4
<1>7. QED
  BY <1>4, <1>5, <1>6 DEF items

LEMMA AnswerKeeps ==
    ASSUME IInv, NEW ages \in Ages, Answer(HandleBatch(ages)),
           \A k \in DOMAIN ages : ages[k] # Never => ages[k] \in PeerAnswer(ask.targets[k])
    PROVE  IInv'
<1> DEFINE item(s) == ItemFor(HandleBatch(ages), s)
<1>1. /\ pc = "asking"
      /\ cache' = [s \in Sensor |-> IF item(s) = NoItem THEN cache[s]
                                   ELSE Cached(item(s).of, item(s).asof, ToldWhenAsked(s))]
      /\ IF item(Power) # NoItem THEN NotePower(Power, item(Power).asof) ELSE UNCHANGED power
      /\ IF item(ask.sensor) # NoItem THEN shown' = cache'[ask.sensor] ELSE Silent
      /\ pc' = "idle" /\ ask' = NoAsk
      /\ UNCHANGED <<route, now, link, meter>>
  BY DEF Answer, FetchedFrom, NoteFrom, Serve
<1>2. /\ ask.sensor \in Sensor /\ route[ask.sensor] = "remote"
      /\ ask.since \in Nat /\ ask.since <= now /\ now <= ask.since + Timeout
  BY <1>1, Parts DEF AskInTime, Time
<1>3. now \in Time /\ now \in Nat /\ cache \in [Sensor -> Entry]
  BY MeterOfIInv
<1>4. ASSUME NEW s \in Sensor, item(s) # NoItem
      PROVE  /\ item(s).of = s /\ route[s] = "remote"
             /\ item(s).asof \in Time /\ item(s).asof \in Nat /\ item(s).asof <= now
             /\ now - item(s).asof < Timeout + Term(PeerTtl)
  <2>1. item(s).of = s /\ route[s] = "remote" /\ item(s).asof \in PeerAnswer(s)
    BY <1>1, <1>4, ItemsAreOfTheirNames
  <2> HIDE DEF item
  <2>2. /\ item(s).asof \in Time /\ item(s).asof <= now
        /\ ask.since - (IF s \in Simulated THEN 1 ELSE Term(PeerTtl)) < item(s).asof
    BY <2>1 DEF PeerAnswer
  <2>3. ask.since - Term(PeerTtl) < item(s).asof /\ item(s).asof \in Nat
    BY <1>2, <2>2, Constants DEF Time
  <2>4. QED
    BY <1>2, <1>3, <2>1, <2>2, <2>3, Constants
<1> HIDE DEF item
<1>5. ASSUME NEW s \in Sensor, item(s) # NoItem
      PROVE  /\ cache'[s] \in Entry /\ cache'[s] # NoEntry
             /\ cache'[s].of = s /\ cache'[s].at = now /\ cache'[s].asof = item(s).asof
  <2>1. item(s).of = s /\ item(s).asof \in Time
    BY <1>4, <1>5
  <2>2. PICK told \in BOOLEAN : cache'[s] = Cached(s, item(s).asof, told)
    BY <1>1, <1>5, <2>1 DEF ToldWhenAsked
  <2>3. /\ Cached(s, item(s).asof, told) \in Entry /\ Cached(s, item(s).asof, told) # NoEntry
        /\ Cached(s, item(s).asof, told).of = s /\ Cached(s, item(s).asof, told).at = now
        /\ Cached(s, item(s).asof, told).asof = item(s).asof
    BY <1>3, <2>1, CachedIsEntry
  <2>4. QED
    BY <2>2, <2>3
<1>6. \A s \in Sensor : item(s) = NoItem => cache'[s] = cache[s]
  BY <1>1
<1>7. cache' \in [Sensor -> Entry]
  <2>1. cache' = [s \in Sensor |-> cache'[s]]
    BY <1>1
  <2>2. \A s \in Sensor : cache'[s] \in Entry
    BY <1>3, <1>5, <1>6
  <2>3. QED
    BY <2>1, <2>2
<1>8. CacheInTime'
  <2>1. ASSUME NEW s \in Sensor, cache'[s] # NoEntry
        PROVE  /\ cache'[s].of = s
               /\ cache'[s].at <= now' /\ cache'[s].at - cache'[s].asof < Slack(s)'
    <3>1. CASE item(s) # NoItem
      BY <1>1, <1>3, <1>4, <1>5, <3>1 DEF Slack
    <3>2. CASE item(s) = NoItem
      BY <1>1, <1>6, <2>1, <3>2, Parts DEF CacheInTime, Slack
    <3>3. QED
      BY <3>1, <3>2
  <2>2. QED
    BY <2>1 DEF CacheInTime
<1>9. shown' \in Entry /\ ShownInTime'
  <2>1. CASE item(ask.sensor) # NoItem
    <3>. PICK s \in Sensor : s = ask.sensor /\ item(s) # NoItem
      BY <1>2, <2>1
    <3>1. shown' = cache'[s]
      BY <1>1
    <3>2. now - item(s).asof < Timeout + Term(PeerTtl) /\ item(s).asof \in Time
      BY <1>4
    <3>3. Slack(s)' = Timeout + Term(PeerTtl)
      BY <1>1, <1>2 DEF Slack
    <3>4. cache'[s] \in Entry /\ cache'[s].of = s /\ cache'[s].asof = item(s).asof
      BY <1>5
    <3>5. now - item(s).asof < Ttl + Slack(s)'
      BY <1>3, <3>2, <3>3, Constants DEF Time
    <3>6. QED
      BY <1>1, <3>1, <3>4, <3>5 DEF ShownInTime
  <2>2. CASE item(ask.sensor) = NoItem
    BY <1>1, <2>2, SilentIsFine
  <2>3. QED
    BY <2>1, <2>2
<1>10. PowerOK'
  <2>1. CASE item(Power) # NoItem
    <3>1. /\ route'[Power] = "remote" /\ item(Power).asof \in Time /\ item(Power).asof <= now
          /\ cache'[Power].asof = item(Power).asof
      BY <1>1, <1>4, <1>5, <2>1, Constants
    <3>2. known' = item(Power).asof /\ powerReadAt' = now /\ failedAt' = failedAt
      BY <1>1, <2>1 DEF NotePower
    <3>3. QED
      BY <1>1, <1>3, <3>1, <3>2, Parts DEF PowerOK, ReadOrFailed, PowerNoted, Time
  <2>2. CASE item(Power) = NoItem
    BY <1>1, <1>6, <2>2, PowerStays, Constants
  <2>3. QED
    BY <2>1, <2>2
<1>11. Idle' /\ AskInTime'
  BY <1>1, Parts DEF Idle, AskInTime
<1>12. MeterOK'
  BY <1>1, MeterStays
<1>13. QED
  BY <1>1, <1>3, <1>7, <1>8, <1>9, <1>10, <1>11, <1>12, MeterOfIInv, AssembleNext

(***************************************************************************)
(* Ticks and time.                                                         *)
(***************************************************************************)

LEMMA OnTickKeeps ==
    ASSUME IInv, OnTick
    PROVE  IInv'
<1>1. UNCHANGED <<route, now, cache, link, pc, ask>> /\ Silent
  BY DEF OnTick
<1>2. MeterOK'
  BY <1>1, MeterOfIInv, SampleKeeps DEF OnTick
<1>3. PowerOK'
  <2>1. CASE SweepDue
    <3>1. /\ powerReadAt' = now
          /\ \/ known' = now /\ failedAt' = failedAt
             \/ known' = known /\ failedAt' = now
      BY <2>1, Zenon DEF OnTick
    <3>2. /\ now \in Time /\ now \in Nat /\ known \in Time \cup {Never} /\ known <= now
          /\ failedAt \in Time \cup {Never} /\ UNCHANGED <<now, cache>>
      BY <1>1, MeterOfIInv, Parts DEF PowerOK, ReadOrFailed
    <3>3. cache[Power] # NoEntry => cache[Power].asof <= known /\ cache[Power].asof \in Int
      BY MeterOfIInv, Parts, EntryFields, Constants DEF PowerOK, PowerNoted, Time
    <3>4. known \in Int
      BY <3>2 DEF Time, Never
    <3>5. cache[Power] # NoEntry => cache[Power].asof <= known'
      BY <3>1, <3>2, <3>3, <3>4
    <3>6. known' <= now /\ powerReadAt' <= now /\ (powerReadAt' <= known' \/ powerReadAt' <= failedAt')
      BY <3>1, <3>2
    <3>7. /\ known' \in Time \cup {Never} /\ powerReadAt' \in Time \cup {Never}
          /\ failedAt' \in Time \cup {Never}
      BY <3>1, <3>2
    <3>8. QED
      BY <3>2, <3>5, <3>6, <3>7 DEF PowerOK, ReadOrFailed, PowerNoted
  <2>2. CASE ~SweepDue
    BY <1>1, <2>2, PowerStays DEF OnTick
  <2>3. QED
    BY <2>1, <2>2
<1>4. cache' \in [Sensor -> Entry] /\ CacheInTime' /\ shown' \in Entry /\ ShownInTime'
  BY <1>1, CacheStays, SilentIsFine
<1>5. QED
  BY <1>1, <1>2, <1>3, <1>4, ReadingKeeps

LEMMA AdvanceKeeps ==
    ASSUME IInv, NEW drawn \in 0 .. MaxPower, Advance(drawn)
    PROVE  IInv'
<1>1. /\ now < End /\ now' = now + 1 /\ (pc = "asking" => now < ask.since + Timeout) /\ Silent
      /\ UNCHANGED <<route, cache, link, pc, ask, power>>
  BY DEF Advance
<1>2. now \in Time /\ now \in Nat /\ now' \in Time
  BY <1>1, MeterOfIInv, Constants DEF Time
<1>3. MeterOK'
  BY MeterOfIInv, AdvanceMeterKeeps
<1>4. Idle'
  BY <1>1, Parts DEF Idle
<1>5. AskInTime'
  <2>1. pc = "asking" => ask.since \in Nat /\ ask.since <= now' /\ now' <= ask.since + Timeout
    BY <1>1, <1>2, Parts, Constants DEF AskInTime, Time
  <2>2. QED
    BY <1>1, <2>1, Parts DEF AskInTime
<1>6. CacheInTime'
  <2>1. ASSUME NEW s \in Sensor, cache[s] # NoEntry
        PROVE  cache[s].at <= now'
    <3>1. cache[s].at \in Nat /\ cache[s].at <= now
      BY <2>1, MeterOfIInv, EntryFields, Parts DEF CacheInTime, Time
    <3>2. QED
      BY <1>1, <1>2, <3>1
  <2>2. QED
    BY <1>1, <2>1, Parts DEF CacheInTime, Slack
<1>7. cache' \in [Sensor -> Entry] /\ route' \in Registries
  BY <1>1, MeterOfIInv
<1>8. PowerOK' /\ shown' \in Entry /\ ShownInTime'
  BY <1>1, PowerStays, SilentIsFine
<1>9. QED
  BY <1>2, <1>3, <1>4, <1>5, <1>6, <1>7, <1>8, AssembleNext

LEMMA InitIInv == Init => IInv
<1> SUFFICES ASSUME Init PROVE IInv
  OBVIOUS
<1>1. /\ route \in Registries /\ now = 0 /\ cache = [s \in Sensor |-> NoEntry]
      /\ link = "none" /\ pc = "idle" /\ ask = NoAsk
      /\ previous = NoSample /\ uncredited = 0 /\ overran = FALSE
      /\ known = Never /\ powerReadAt = Never /\ failedAt = Never /\ shown = NoEntry
  BY DEF Init
<1>2. counter \in 0 .. Range - 1
  BY Constants DEF Init
<1>3. now \in Time /\ 0 * MaxPower = 0 /\ End * MaxPower \in Nat
  BY <1>1, Constants, BoundGrows DEF Time
<1>4. MeterOK
  <2>1. uncredited \in 0 .. End * MaxPower /\ uncredited <= now * MaxPower /\ uncredited < Range
    BY <1>1, <1>3, Constants
  <2>2. QED
    BY <1>1, <1>2, <2>1 DEF MeterOK, CounterAddsUp, EnergyBound
<1>5. cache \in [Sensor -> Entry] /\ shown \in Entry
  BY <1>1 DEF Entry
<1>6. Idle /\ PowerOK /\ AskInTime /\ CacheInTime /\ ShownInTime
  BY <1>1, Constants
     DEF Idle, PowerOK, ReadOrFailed, PowerNoted, AskInTime, CacheInTime, ShownInTime, Never
<1>7. QED
  BY <1>1, <1>3, <1>4, <1>5, <1>6, Assemble

LEMMA NextIInv == IInv /\ [Next]_vars => IInv'
<1> SUFFICES ASSUME IInv, [Next]_vars PROVE IInv'
  OBVIOUS
<1>1. ASSUME NEW s \in Sensor,
             \/ ReadCached(s) \/ ReadReal(s) \/ ReadRealFails(s)
             \/ ReadSimulator(s) \/ ReadNowhere(s) \/ ReadRemote(s)
      PROVE  IInv'
  BY <1>1, ReadCachedKeeps, ReadRealKeeps, ReadRealFailsKeeps, ReadSimulatorKeeps,
     ReadRemoteKeeps
<1>2. ASSUME NEW granted \in {"plain", "batch"}, Connect(granted)
      PROVE  IInv'
  BY <1>2, ConnectKeeps
<1>3. CASE ConnectFails \/ RequestFails
  BY <1>3, UnansweredKeeps DEF ConnectFails, RequestFails
<1>4. ASSUME NEW ages \in Ages, Answer(HandleBatch(ages)),
             \A k \in DOMAIN ages : ages[k] # Never => ages[k] \in PeerAnswer(ask.targets[k])
      PROVE  IInv'
  BY <1>4, AnswerKeeps
<1>5. CASE OnTick
  BY <1>5, OnTickKeeps
<1>6. ASSUME NEW drawn \in 0 .. (IF route[Power] = "rapl" THEN MaxPower ELSE 0), Advance(drawn)
      PROVE  IInv'
  <2>1. drawn \in 0 .. MaxPower
    BY <1>6, Constants
  <2>2. QED
    BY <1>6, <2>1, AdvanceKeeps
<1>7. CASE UNCHANGED vars
  <2>1. UNCHANGED <<route, now, cache, link, pc, ask, meter, power, shown>>
    BY <1>7 DEF vars
  <2>2. MeterOK' /\ PowerOK' /\ cache' \in [Sensor -> Entry] /\ CacheInTime'
    BY <2>1, MeterStays, PowerStays, CacheStays
  <2>3. shown' \in Entry /\ ShownInTime'
    BY <2>1, Parts DEF IInv, TypeOK, ShownInTime, Slack
  <2>4. QED
    BY <2>1, <2>2, <2>3, ReadingKeeps
<1>8. QED
  BY <1>1, <1>2, <1>3, <1>4, <1>5, <1>6, <1>7 DEF Next

LEMMA InvariantHolds == Spec => []IInv
BY InitIInv, NextIInv, PTL DEF Spec

(***************************************************************************)
(* Results.                                                                *)
(***************************************************************************)

\* The variables keep their types; in particular no more energy is reported
\* than was drawn.
THEOREM TypeCorrect == Spec => []TypeOK
<1>1. IInv => TypeOK
  BY DEF IInv
<1>2. QED
  BY <1>1, InvariantHolds, PTL

\* A rule is given the sensor it asked for, no older than the caches on the way
\* and the timeout allow (bus.rs:449-590, 876-990), over single requests and
\* batches.
THEOREM ReadingsAreFresh == Spec => []Fresh
<1>1. IInv => Fresh
  <2> SUFFICES ASSUME IInv PROVE Fresh
    OBVIOUS
  <2>1. \A s \in Sensor : cache[s] # NoEntry => cache[s].of = s
    BY DEF IInv, CacheInTime
  <2>2. shown # NoEntry =>
          now - shown.asof < Ttl + (IF route[shown.of] = "remote" THEN Timeout + Term(PeerTtl) ELSE 1)
    BY DEF IInv, ShownInTime, Slack
  <2>3. QED
    BY <2>1, <2>2 DEF Fresh
<1>2. QED
  BY <1>1, InvariantHolds, PTL

\* The windows of the RAPL driver tile time (drivers.rs:189-214): what is not
\* reported yet is what the counter shows since the last accepted sample, unless
\* a window held a whole range.
THEOREM EnergyAddsUp == Spec => []EnergyHonest
<1>1. ASSUME IInv, previous # NoSample
      PROVE  uncredited >= Window /\ (~overran => uncredited = Window)
  <2>1. /\ Window \in 0 .. Range - 1
        /\ \E j \in Nat : uncredited = Window + j * Range
        /\ ~overran => uncredited = Window
    BY <1>1, MeterOfIInv, WindowFits
  <2>2. PICK j \in Nat : uncredited = Window + j * Range
    BY <2>1
  <2>3. j * Range \in Nat /\ Window \in Nat
    BY <2>1, Constants, MoreRanges
  <2>4. QED
    BY <2>1, <2>2, <2>3
<1>2. IInv => EnergyHonest
  BY <1>1 DEF EnergyHonest
<1>3. QED
  BY <1>2, InvariantHolds, PTL

\* A rule is shown what is in the cache after the step, unless its sensor is
\* simulated.
LEMMA ShownIsCached ==
    ASSUME IInv, [Next]_vars, vars' # vars, shown' # NoEntry
    PROVE  \E s \in Sensor : shown' = cache'[s] \/ (route[s] = "simulator" /\ shown'.of = s)
<1>1. ~Silent
  BY DEF Silent
<1>2. ASSUME NEW s \in Sensor, ReadCached(s) \/ ReadReal(s)
      PROVE  shown' = cache'[s]
  BY <1>2 DEF ReadCached, ReadReal, Serve
<1>3. ASSUME NEW s \in Sensor, ReadSimulator(s)
      PROVE  route[s] = "simulator" /\ shown'.of = s
  BY <1>3 DEF ReadSimulator, Serve, Cached
<1>4. ASSUME NEW items, Answer(items)
      PROVE  ask.sensor \in Sensor /\ shown' = cache'[ask.sensor]
  <2>1. pc = "asking" /\ shown' = cache'[ask.sensor]
    BY <1>1, <1>4 DEF Answer, Serve
  <2>2. QED
    BY <2>1, Parts DEF AskInTime
<1>5. ASSUME NEW s \in Sensor
      PROVE  ~ReadRealFails(s) /\ ~ReadNowhere(s) /\ ~ReadRemote(s)
  BY <1>1 DEF ReadRealFails, ReadNowhere, ReadRemote
<1>6. /\ ~ConnectFails /\ ~RequestFails /\ ~OnTick
      /\ \A granted : ~Connect(granted)
      /\ \A drawn : ~Advance(drawn)
  BY <1>1 DEF ConnectFails, RequestFails, Unanswered, OnTick, Connect, Advance
<1>7. \/ \E s \in Sensor : ReadCached(s) \/ ReadReal(s) \/ ReadSimulator(s)
      \/ \E ages \in Ages : Answer(HandleBatch(ages))
  BY <1>5, <1>6 DEF Next
<1>8. QED
  BY <1>2, <1>3, <1>4, <1>7

\* What cpu_power() returns (bus.rs:1586) after a tick is younger than a cache
\* term unless the local driver failed within it, and never older than what a
\* rule was shown, over sweeps, single readings and batches.
THEOREM PowerIsUpToDate == Spec => PowerUpToDate
<1>1. ASSUME IInv, OnTick, route[Power] \in {"real", "rapl"}
      PROVE  Recent(known') \/ Recent(failedAt')
  <2>1. /\ now \in Nat /\ Term(Ttl) \in Nat /\ Term(Ttl) > 0 /\ Ttl <= Term(Ttl) /\ Ttl \in Nat
        /\ now # Never
    BY <1>1, MeterOfIInv, Constants DEF Never
  <2>2. CASE SweepDue
    <3>1. known' = now \/ failedAt' = now
      BY <1>1, <2>2, Zenon DEF OnTick
    <3>2. now - now < Term(Ttl)
      BY <2>1
    <3>3. QED
      BY <2>1, <3>1, <3>2 DEF Recent
  <2>3. CASE ~SweepDue
    <3>1. known' = known /\ failedAt' = failedAt
      BY <1>1, <2>3 DEF OnTick, power
    <3>2. powerReadAt # Never /\ ~(now - powerReadAt >= Ttl)
      BY <1>1, <2>3 DEF SweepDue
    <3>3. /\ known \in Time \cup {Never} /\ failedAt \in Time \cup {Never}
          /\ powerReadAt \in Time \cup {Never}
          /\ powerReadAt <= known \/ powerReadAt <= failedAt
      BY <1>1, Parts DEF PowerOK, ReadOrFailed
    <3>4. powerReadAt \in Nat /\ known \in Int /\ failedAt \in Int
      BY <3>2, <3>3 DEF Time, Never
    <3>5. ASSUME NEW at \in Int, powerReadAt <= at
          PROVE  Recent(at)
      BY <2>1, <3>2, <3>4, <3>5 DEF Recent, Never
    <3>6. QED
      BY <3>1, <3>3, <3>4, <3>5
  <2>4. QED
    BY <2>2, <2>3
<1>2. ASSUME IInv, IInv', [Next]_vars, vars' # vars, shown'.of = Power, route[Power] # "simulator"
      PROVE  shown'.asof <= known'
  <2>1. shown' # NoEntry
    BY <1>2, Constants DEF NoEntry
  <2>2. PICK s \in Sensor : shown' = cache'[s] \/ (route[s] = "simulator" /\ shown'.of = s)
    BY <1>2, <2>1, ShownIsCached
  <2>3. shown' = cache'[s]
    BY <1>2, <2>2
  <2>4. s = Power
    BY <1>2, <2>1, <2>3 DEF IInv, CacheInTime
  <2>5. QED
    BY <1>2, <2>1, <2>3, <2>4 DEF IInv, PowerNoted
<1>3. DEFINE A == /\ OnTick /\ route[Power] \in {"real", "rapl"} => Recent(known') \/ Recent(failedAt')
                  /\ shown'.of = Power /\ route[Power] # "simulator" => shown'.asof <= known'
<1>4. IInv /\ IInv' /\ [Next]_vars => [A]_vars
  BY <1>1, <1>2
<1>5. QED
  BY <1>4, InvariantHolds, PTL DEF Spec, PowerUpToDate
=============================================================================
