----------------------- MODULE ConnectionTimingProofs -----------------------
(***************************************************************************)
(* Proofs about ConnectionTiming, for every range of the event counter,    *)
(* number of channels, connection request and schedule of indications: the *)
(* Peripheral hops with its Central, and the Central's packet falls into   *)
(* the receive window.                                                     *)
(***************************************************************************)
EXTENDS ConnectionTiming, FiniteSetTheorems, TLAPS

-----------------------------------------------------------------------------
(***************************************************************************)
(* Remainders: the counters wrap.                                          *)
(***************************************************************************)
\* An integer is its quotient's multiple and its remainder.
LEMMA Division ==
  ASSUME NEW n \in Nat \ {0}, NEW a \in Int
  PROVE  /\ a \div n \in Int /\ a % n \in 0 .. n - 1
         /\ a = n * (a \div n) + (a % n)
  OBVIOUS

\* The remainder is unique.
LEMMA Remainder ==
  ASSUME NEW n \in Nat \ {0}, NEW q \in Int, NEW r \in 0 .. n - 1
  PROVE  (n * q + r) % n = r
  OBVIOUS

\* A multiple of the modulus does not count.
LEMMA Multiple ==
  ASSUME NEW n \in Nat \ {0}, NEW q \in Int, NEW a \in Int
  PROVE  (n * q + a) % n = a % n
<1> DEFINE p == a \div n
           r == a % n
<1>1. p \in Int /\ r \in 0 .. n - 1 /\ a = n * p + r
  BY Division
<1> HIDE DEF p, r
<1>2. n * q + a = n * (q + p) + r
  BY <1>1
<1>3. (n * (q + p) + r) % n = r
  BY <1>1, Remainder
<1> QED BY <1>2, <1>3 DEF r

\* A term may be reduced before it is added.
LEMMA Reduced ==
  ASSUME NEW n \in Nat \ {0}, NEW a \in Int, NEW b \in Int
  PROVE  ((a % n) + b) % n = (a + b) % n
<1> DEFINE q == a \div n
           r == a % n
<1>1. q \in Int /\ r \in 0 .. n - 1 /\ a = n * q + r
  BY Division
<1> HIDE DEF q, r
<1> DEFINE s == r + b
<1>2. s \in Int /\ a + b = n * q + s
  BY <1>1
<1> HIDE DEF s
<1>3. (n * q + s) % n = s % n
  BY <1>1, <1>2, Multiple
<1> QED BY <1>2, <1>3 DEF r, s

\* How far an instant is ahead of the counter it was computed from.
LEMMA Ahead ==
  ASSUME NEW n \in Nat \ {0}, NEW c \in 0 .. n - 1, NEW d \in Int
  PROVE  (((c + d) % n) - c) % n = d % n
<1> DEFINE s == c + d
           t == -c
<1>1. s \in Int /\ t \in Int /\ s + t = d
  OBVIOUS
<1>2. ((s % n) + t) % n = (s + t) % n
  <2> HIDE DEF s, t
  <2> QED BY <1>1, Reduced
<1>3. s % n \in Int
  BY <1>1
<1>4. (s % n) + t = (s % n) - c
  <2> HIDE DEF s
  <2> QED BY <1>3
<1> QED BY <1>1, <1>2, <1>4

\* The remainder of a number less than one modulus from zero.
LEMMA Near ==
  ASSUME NEW n \in Nat \ {0}, NEW d \in Int, -n < d, d < n
  PROVE  d % n = IF d >= 0 THEN d ELSE n + d
<1>1. CASE d >= 0
  <2>1. (n * 0 + d) % n = d
    BY <1>1, Remainder
  <2> QED BY <1>1, <2>1
<1>2. CASE d < 0
  <2>1. (n * (-1) + (n + d)) % n = n + d
    BY <1>2, Remainder
  <2>2. n * (-1) + (n + d) = d
    OBVIOUS
  <2> QED BY <1>2, <2>1, <2>2
<1> QED BY <1>1, <1>2
-----------------------------------------------------------------------------
(***************************************************************************)
(* Window widening and the channel table.                                  *)
(***************************************************************************)
\* A whole number of divisors can be taken out of a quotient, and rounding
\* up is no less than rounding down.
LEMMA Quotient ==
  ASSUME NEW x \in Nat, NEW y \in Nat
  PROVE  /\ (Million * x + y) \div Million = x + (y \div Million)
         /\ y \div Million \in Nat /\ DivCeil(y, Million) \in Nat
         /\ y \div Million <= DivCeil(y, Million)
  BY DEF Million, DivCeil

\* window_widening_us is no less than the drift it stands for: splitting the
\* span into seconds and a rest loses nothing.
LEMMA WideningCoversDrift ==
  ASSUME NEW span \in Nat, NEW sca \in 0 .. 7
  PROVE  /\ WindowWidening(span, sca) \in Nat
         /\ (span * TotalPpm(sca)) \div Million \in Nat
         /\ (span * TotalPpm(sca)) \div Million <= WindowWidening(span, sca)
<1> DEFINE ppm == TotalPpm(sca)
           q == span \div Million
           r == span % Million
<1>1. ppm \in Nat
  BY DEF TotalPpm, SleepClockAccuracyPpm, LOCAL_SLEEP_CLOCK_PPM
<1>2. q \in Nat /\ r \in Nat /\ span = Million * q + r
  BY DEF Million
<1>3. WindowWidening(span, sca) = q * ppm + DivCeil(r * ppm, Million)
  BY DEF WindowWidening
<1> HIDE DEF ppm, q, r
<1> DEFINE x == q * ppm
           y == r * ppm
<1>4. x \in Nat /\ y \in Nat /\ span * ppm = Million * x + y
  BY <1>1, <1>2 DEF Million
<1> HIDE DEF x, y
<1>5. /\ (Million * x + y) \div Million = x + (y \div Million)
      /\ y \div Million \in Nat /\ DivCeil(y, Million) \in Nat
      /\ y \div Million <= DivCeil(y, Million)
  BY <1>4, Quotient
<1>6. WindowWidening(span, sca) = x + DivCeil(y, Million)
  BY <1>3 DEF x, y
<1>7. (span * ppm) \div Million = x + (y \div Million)
  BY <1>4, <1>5
<1> QED BY <1>4, <1>5, <1>6, <1>7 DEF ppm

\* The channels of a map below a channel, and how many they are.
Below(map, ch) == {x \in map : x < ch}
Rank(map, ch) == Cardinality(Below(map, ch))

\* A channel map is finite, and a channel's rank grows with the channel.
LEMMA RankFacts ==
  ASSUME NEW map \in SUBSET ChannelSet
  PROVE  /\ IsFiniteSet(map) /\ Cardinality(map) \in Nat
         /\ \A ch \in map : IsFiniteSet(Below(map, ch))
         /\ \A ch \in map : Rank(map, ch) \in 0 .. Cardinality(map) - 1
         /\ \A a, b \in map : a < b => Rank(map, a) < Rank(map, b)
<1>1. IsFiniteSet(map) /\ Cardinality(map) \in Nat
  <2>1. IsFiniteSet(ChannelSet)
    BY TimingAssumption, FS_Interval DEF ChannelSet
  <2>2. IsFiniteSet(map)
    BY <2>1, FS_Subset
  <2> QED BY <2>2, FS_CardinalityType
<1>2. map \subseteq Int
  BY TimingAssumption DEF ChannelSet
<1>3. ASSUME NEW ch \in map
      PROVE  IsFiniteSet(Below(map, ch)) /\ Rank(map, ch) \in 0 .. Cardinality(map) - 1
  <2>1. Below(map, ch) \in SUBSET map /\ ch \notin Below(map, ch)
    BY <1>2 DEF Below
  <2>2. /\ IsFiniteSet(Below(map, ch))
        /\ Cardinality(Below(map, ch)) <= Cardinality(map)
        /\ Cardinality(map) = Cardinality(Below(map, ch)) => map = Below(map, ch)
    BY <1>1, <2>1, FS_Subset
  <2>3. Cardinality(Below(map, ch)) \in Nat
    BY <2>2, FS_CardinalityType
  <2>4. Cardinality(map) # Cardinality(Below(map, ch))
    BY <2>1, <2>2
  <2> QED BY <1>1, <2>2, <2>3, <2>4 DEF Rank
<1>4. ASSUME NEW a \in map, NEW b \in map, a < b
      PROVE  Rank(map, a) < Rank(map, b)
  <2>1. /\ Below(map, a) \in SUBSET Below(map, b)
        /\ a \in Below(map, b) /\ a \notin Below(map, a)
    <3>1. \A x \in map : x < a => x < b
      BY <1>2, <1>4
    <3>2. ~(a < a)
      BY <1>2
    <3> QED BY <1>4, <3>1, <3>2 DEF Below
  <2>2. IsFiniteSet(Below(map, b))
    BY <1>3
  <2>3. /\ Cardinality(Below(map, a)) <= Cardinality(Below(map, b))
        /\ Cardinality(Below(map, b)) = Cardinality(Below(map, a))
             => Below(map, b) = Below(map, a)
    BY <2>1, <2>2, FS_Subset
  <2>4. Rank(map, a) \in Nat /\ Rank(map, b) \in Nat
    BY <1>1, <1>3
  <2>5. Rank(map, a) # Rank(map, b)
    BY <2>1, <2>3 DEF Rank
  <2> QED BY <2>3, <2>4, <2>5 DEF Rank
<1> QED BY <1>1, <1>3, <1>4

\* The table of used channels exists: it is the inverse of the rank.
LEMMA TableExists ==
  ASSUME NEW map \in SUBSET ChannelSet
  PROVE  \E table \in [1 .. Cardinality(map) -> map] :
           \A i, j \in 1 .. Cardinality(map) : i < j => table[i] < table[j]
<1> DEFINE n == Cardinality(map)
           rank == [ch \in map |-> Rank(map, ch)]
<1>1. n \in Nat /\ IsFiniteSet(map) /\ map \subseteq Int
  BY RankFacts, TimingAssumption DEF ChannelSet
<1>2. \A a, b \in map : a # b => Rank(map, a) # Rank(map, b)
  <2>1. ASSUME NEW a \in map, NEW b \in map, a # b
        PROVE  Rank(map, a) # Rank(map, b)
    <3>1. a < b \/ b < a
      BY <1>1, <2>1
    <3>2. Rank(map, a) \in Int /\ Rank(map, b) \in Int
      BY <1>1, RankFacts
    <3> QED BY <3>1, <3>2, RankFacts
  <2> QED BY <2>1
<1>3. rank \in Injection(map, 0 .. n - 1)
  <2>1. rank \in [map -> 0 .. n - 1]
    BY RankFacts
  <2>2. IsInjective(rank)
    BY <1>2 DEF IsInjective
  <2> QED BY <2>1, <2>2 DEF Injection
<1>4. IsFiniteSet(0 .. n - 1) /\ Cardinality(0 .. n - 1) = n
  BY <1>1, FS_Interval
<1>5. rank \in Surjection(map, 0 .. n - 1)
  <2> HIDE DEF rank
  <2> QED BY <1>1, <1>3, <1>4, FS_Injection
<1>6. \A k \in 0 .. n - 1 : \E ch \in map : Rank(map, ch) = k
  BY <1>5 DEF Surjection
<1> DEFINE table == [i \in 1 .. n |-> CHOOSE ch \in map : Rank(map, ch) = i - 1]
<1>7. ASSUME NEW i \in 1 .. n
      PROVE  table[i] \in map /\ Rank(map, table[i]) = i - 1
  <2>1. i - 1 \in 0 .. n - 1
    BY <1>1
  <2>2. \E ch \in map : Rank(map, ch) = i - 1
    BY <1>6, <2>1
  <2> QED BY <2>2
<1>8. table \in [1 .. n -> map]
  BY <1>7
<1> HIDE DEF table
<1>9. ASSUME NEW i \in 1 .. n, NEW j \in 1 .. n, i < j
      PROVE  table[i] < table[j]
  <2>1. table[i] \in Int /\ table[j] \in Int
    BY <1>1, <1>7
  <2>2. ASSUME table[j] <= table[i] PROVE FALSE
    <3>1. CASE table[j] = table[i]
      <4>1. i - 1 = j - 1
        BY <1>7, <3>1
      <4> QED BY <1>1, <1>9, <4>1
    <3>2. CASE table[j] < table[i]
      <4>1. Rank(map, table[j]) < Rank(map, table[i])
        BY <1>7, <3>2, RankFacts
      <4>2. j - 1 < i - 1
        BY <1>7, <4>1
      <4> QED BY <1>1, <1>9, <4>2
    <3> QED BY <2>1, <2>2, <3>1, <3>2
  <2> QED BY <2>1, <2>2
<1> QED BY <1>8, <1>9

\* The table lists every used channel, in its place: the entry at i has i - 1
\* used channels below it.
LEMMA UsedFacts ==
  ASSUME NEW map \in SUBSET ChannelSet, NEW i \in 1 .. Cardinality(map)
  PROVE  Used(map)[i] \in map /\ Rank(map, Used(map)[i]) = i - 1
<1> DEFINE n == Cardinality(map)
           table == Used(map)
<1>1. n \in Nat /\ IsFiniteSet(map) /\ map \subseteq Int
  BY RankFacts, TimingAssumption DEF ChannelSet
<1>2. /\ table \in [1 .. n -> map]
      /\ \A k, j \in 1 .. n : k < j => table[k] < table[j]
  BY TableExists DEF Used
<1> HIDE DEF table
<1>3. \A k, j \in 1 .. n : k # j => table[k] # table[j]
  <2>1. ASSUME NEW k \in 1 .. n, NEW j \in 1 .. n, k # j
        PROVE  table[k] # table[j]
    <3>1. k < j \/ j < k
      BY <1>1, <2>1
    <3>2. table[k] \in Int /\ table[j] \in Int
      BY <1>1, <1>2
    <3> QED BY <1>2, <3>1, <3>2
  <2> QED BY <2>1
<1>4. \A ch \in map : \E k \in 1 .. n : table[k] = ch
  <2>1. table \in Injection(1 .. n, map)
    BY <1>2, <1>3 DEF Injection, IsInjective
  <2>2. IsFiniteSet(1 .. n) /\ Cardinality(1 .. n) = n
    BY <1>1, FS_Interval
  <2>3. table \in Surjection(1 .. n, map)
    BY <1>1, <2>1, <2>2, FS_Injection
  <2> QED BY <2>3 DEF Surjection
<1>5. \A k \in 1 .. n : table[k] < table[i] <=> k < i
  <2>1. ASSUME NEW k \in 1 .. n PROVE table[k] < table[i] <=> k < i
    <3>1. table[k] \in Int /\ table[i] \in Int
      BY <1>1, <1>2
    <3>2. CASE k < i
      BY <1>2, <3>2
    <3>3. CASE k = i
      BY <1>1, <3>1, <3>3
    <3>4. CASE i < k
      BY <1>1, <1>2, <3>1, <3>4
    <3> QED BY <1>1, <3>2, <3>3, <3>4
  <2> QED BY <2>1
<1> DEFINE first == [k \in 1 .. i - 1 |-> table[k]]
<1>6. \A k \in 1 .. i - 1 : k \in 1 .. n /\ k < i
  BY <1>1
<1>7. \A k \in 1 .. n : k < i => k \in 1 .. i - 1
  BY <1>1
<1>8. first \in Bijection(1 .. i - 1, Below(map, table[i]))
  <2>1. first \in [1 .. i - 1 -> Below(map, table[i])]
    <3>1. \A k \in 1 .. i - 1 : table[k] \in Below(map, table[i])
      BY <1>2, <1>5, <1>6 DEF Below
    <3> QED BY <3>1
  <2>2. IsInjective(first)
    BY <1>3, <1>6 DEF IsInjective
  <2>3. \A ch \in Below(map, table[i]) : \E k \in 1 .. i - 1 : first[k] = ch
    <3>1. ASSUME NEW ch \in Below(map, table[i])
          PROVE  \E k \in 1 .. i - 1 : first[k] = ch
      <4>1. ch \in map /\ ch < table[i]
        BY DEF Below
      <4>2. PICK k \in 1 .. n : table[k] = ch
        BY <1>4, <4>1
      <4>3. k \in 1 .. i - 1
        BY <1>5, <1>7, <4>1, <4>2
      <4> QED BY <4>2, <4>3
    <3> QED BY <3>1
  <2> HIDE DEF first
  <2>4. first \in Injection(1 .. i - 1, Below(map, table[i]))
    BY <2>1, <2>2 DEF Injection
  <2>5. first \in Surjection(1 .. i - 1, Below(map, table[i]))
    BY <2>1, <2>3 DEF Surjection
  <2> QED BY <2>4, <2>5 DEF Bijection
<1>9. ExistsBijection(1 .. i - 1, Below(map, table[i]))
  BY <1>8 DEF ExistsBijection
<1>10. i - 1 \in Nat
  BY <1>1
<1>11. Cardinality(Below(map, table[i])) = i - 1
  <2> DEFINE k == i - 1
  <2>1. k \in Nat /\ ExistsBijection(1 .. k, Below(map, table[i]))
    BY <1>9, <1>10
  <2> HIDE DEF k
  <2>2. Cardinality(Below(map, table[i])) = k
    BY <2>1, FS_CountingElements
  <2> QED BY <2>2 DEF k
<1> QED BY <1>2, <1>11 DEF Rank, table

\* The table read at an index and the closed form for that index agree.
LEMMA TableIsClosedForm ==
  ASSUME NEW map \in SUBSET ChannelSet, NEW k \in 0 .. Cardinality(map) - 1
  PROVE  Used(map)[k + 1] = CHOOSE ch \in map : Cardinality({x \in map : x < ch}) = k
<1>1. Cardinality(map) \in Nat /\ map \subseteq Int
  BY RankFacts, TimingAssumption DEF ChannelSet
<1>2. k + 1 \in 1 .. Cardinality(map) /\ (k + 1) - 1 = k
  BY <1>1
<1> DEFINE there == Used(map)[k + 1]
<1>3. there \in map /\ Rank(map, there) = k
  BY <1>2, UsedFacts
<1> HIDE DEF there
<1>4. ASSUME NEW ch \in map, Rank(map, ch) = k PROVE ch = there
  <2>1. ch \in Int /\ there \in Int /\ k \in Int
    BY <1>1, <1>3
  <2>2. CASE ch < there
    BY <1>3, <1>4, <2>1, <2>2, RankFacts
  <2>3. CASE there < ch
    BY <1>3, <1>4, <2>1, <2>3, RankFacts
  <2> QED BY <2>1, <2>2, <2>3
<1>5. there = CHOOSE ch \in map : Rank(map, ch) = k
  BY <1>3, <1>4
<1> QED BY <1>5 DEF there, Rank, Below
-----------------------------------------------------------------------------
(***************************************************************************)
(* The inductive invariant.                                                *)
(*                                                                         *)
(* While the link is up both sides count the same events.  A plan of the   *)
(* Central is left events ahead of the counter; once the Peripheral has    *)
(* been told of it, the plan is stored and no transmit window is open.     *)
(* Everything else that is stored is due at the current event.  A plan is  *)
(* late when its instant came before the Peripheral was told: only then do *)
(* the two sides differ, in the one value the plan changes, and the silence*)
(* since is at least as long as the intervals that have passed.            *)
(***************************************************************************)
Planned == central.plan # None
Told == Planned /\ central.told
Late(kind) ==
  Planned /\ ~central.told /\ central.left <= 0 /\ central.plan.kind = kind

PhaseInv ==
  /\ conn.event_counter = central.event % EventModulus
  /\ conn.last_unmapped = (request.hop * central.event) % Channels

ValidInv ==
  /\ conn.interval > 0
  /\ conn.timeout * 8 <= conn.interval * (EventModulus \div 2)
  /\ DataChannelMapIsValid(conn.map)
  /\ conn.update # None => ConnectionTimingIsValid(conn.update.timing)
  /\ conn.map_update # None => DataChannelMapIsValid(conn.map_update.map)

PlanInv ==
  /\ ~Planned => central.told /\ central.left = 0
  /\ Planned => /\ central.left < EventModulus
                /\ central.plan.instant = (conn.event_counter + central.left) % EventModulus
  /\ Told => central.left > 0 /\ conn.window = 0

StoredInv ==
  /\ Told /\ central.plan.kind = "update" => conn.update = central.plan
  /\ Told /\ central.plan.kind = "map" => conn.map_update = central.plan
  /\ conn.update # None =>
       IF Told THEN conn.update = central.plan
       ELSE conn.update.instant = conn.event_counter
  /\ conn.map_update # None =>
       IF Told THEN conn.map_update = central.plan
       ELSE conn.map_update.instant = conn.event_counter
  /\ Planned /\ ~central.told /\ central.left <= 0 =>
       /\ conn.update = None /\ conn.map_update = None
       /\ (-central.left) * conn.interval * Slot <= conn.silence

AgreeInv ==
  /\ IF Late("map") THEN central.map = central.plan.map
     ELSE Opened.map = central.map
  /\ IF Late("update") THEN central.interval = central.plan.timing.interval
     ELSE Opened.interval = central.interval

WindowInv ==
  Informed /\ ~missed => 0 <= offset /\ offset <= Opened.window

UpInv == PhaseInv /\ ValidInv /\ PlanInv /\ StoredInv /\ AgreeInv /\ WindowInv

IInv == TypeOK /\ (Up => UpInv)
-----------------------------------------------------------------------------
(***************************************************************************)
(* What the stages of an event do to the record.                           *)
(***************************************************************************)
\* The constants of the model.
LEMMA Constants ==
  /\ EventModulus \in Nat \ {0} /\ EventModulus >= 6 /\ Channels \in Nat \ {0}
  /\ EventModulus \div 2 \in Nat /\ 2 * (EventModulus \div 2) = EventModulus
  /\ 0 \in Counters /\ 0 \in ChannelSet
  /\ \A n \in InstantDeltas : n \in Int /\ 0 < n /\ n < EventModulus
  BY TimingAssumption DEF Counters, ChannelSet

\* The fields of an indication.
LEMMA IndicationFacts ==
  /\ \A u \in UpdateInds : /\ u.kind = "update" /\ u.timing \in Updates
                           /\ u.timing \in Timing /\ u.instant \in Counters
                           /\ u # None
  /\ \A m \in MapInds : /\ m.kind = "map" /\ m.map \in Maps
                        /\ m.map \in SUBSET ChannelSet /\ m.instant \in Counters
                        /\ m # None
  /\ \A instant \in Counters : /\ Updating(instant) \subseteq UpdateInds
                               /\ Mapping(instant) \subseteq MapInds
<1>1. Updates \subseteq Timing /\ Maps \subseteq SUBSET ChannelSet
  BY TimingAssumption
<1>2. ASSUME NEW u \in UpdateInds
      PROVE  /\ u.kind = "update" /\ u.timing \in Updates
             /\ u.timing \in Timing /\ u.instant \in Counters /\ u # None
  <2>1. PICK instant \in Counters : u \in Updating(instant)
    BY DEF UpdateInds
  <2>2. u \in [kind : {"update"}, timing : Updates, instant : {instant}]
    BY <2>1 DEF Updating
  <2> QED BY <1>1, <2>2, NoneAssumption
<1>3. ASSUME NEW m \in MapInds
      PROVE  /\ m.kind = "map" /\ m.map \in Maps
             /\ m.map \in SUBSET ChannelSet /\ m.instant \in Counters /\ m # None
  <2>1. PICK instant \in Counters : m \in Mapping(instant)
    BY DEF MapInds
  <2>2. m \in [kind : {"map"}, map : Maps, instant : {instant}]
    BY <2>1 DEF Mapping
  <2> QED BY <1>1, <2>2, NoneAssumption
<1>4. ASSUME NEW instant \in Counters
      PROVE  Updating(instant) \subseteq UpdateInds /\ Mapping(instant) \subseteq MapInds
  BY DEF UpdateInds, MapInds
<1> QED BY <1>2, <1>3, <1>4

\* The fields of an accepted request.
LEMMA RequestFacts ==
  ASSUME NEW r \in Acceptable
  PROVE  /\ r.hop \in Nat /\ r.sca \in 0 .. 7 /\ r.map \in SUBSET ChannelSet
         /\ DataChannelMapIsValid(r.map) /\ ConnectionTimingIsValid(r.timing)
         /\ r.timing \in Timing
         /\ r.timing.timeout * 8 <= r.timing.interval * (EventModulus \div 2)
<1>1. r \in Requests /\ ParseConnectInd(r)
  BY DEF Acceptable
<1>2. r \in [timing : Timing, map : SUBSET ChannelSet, hop : Nat,
             sca : 0 .. 7, access_address_valid : BOOLEAN]
  BY <1>1, TimingAssumption
<1>3. DataChannelMapIsValid(r.map) /\ ConnectionTimingIsValid(r.timing)
  BY <1>1 DEF ParseConnectInd
<1>4. r.timing \in Updates \cup {x.timing : x \in Requests}
  BY <1>1
<1> QED BY <1>2, <1>3, <1>4, SupervisionAssumption

\* The fields of the two records.
LEMMA ConnFacts ==
  ASSUME NEW c \in ActiveConnection
  PROVE  /\ c.event_counter \in Counters /\ c.last_unmapped \in ChannelSet
         /\ c.map \in SUBSET ChannelSet /\ c.interval \in Nat /\ c.timeout \in Nat
         /\ c.window \in Nat /\ c.elapsed \in Nat /\ c.silence \in Nat
         /\ c.update \in UpdateInds \cup {None}
         /\ c.map_update \in MapInds \cup {None}
         /\ c.reason \in {None, \h08, \h1e, \h28}
  BY DEF ActiveConnection

\* apply_instants: an update that is due replaces the timing, a map that is
\* due replaces the map; the counters, the hop and the anchors stay.
LEMMA AppliedFacts ==
  ASSUME NEW c \in ActiveConnection
  PROVE  LET o == ApplyInstants(c)
         IN  /\ o \in ActiveConnection
             /\ o.event_counter = c.event_counter /\ o.last_unmapped = c.last_unmapped
             /\ o.elapsed = c.elapsed /\ o.reason = c.reason
             /\ Applies(c, c.map_update) => o.map = c.map_update.map /\ o.map_update = None
             /\ ~Applies(c, c.map_update) => o.map = c.map /\ o.map_update = c.map_update
             /\ Applies(c, c.update) =>
                  /\ o.window = c.update.timing.window_size * Slot
                  /\ o.interval = c.update.timing.interval
                  /\ o.timeout = c.update.timing.timeout
                  /\ o.silence = 0 /\ o.update = None
             /\ ~Applies(c, c.update) =>
                  /\ o.window = c.window /\ o.interval = c.interval
                  /\ o.timeout = c.timeout /\ o.silence = c.silence
                  /\ o.update = c.update
<1> DEFINE mapped == IF Applies(c, c.map_update)
                     THEN [UpdateMap(c, c.map_update.map) EXCEPT !.map_update = None]
                     ELSE c
<1>1. /\ mapped \in ActiveConnection
      /\ mapped.event_counter = c.event_counter /\ mapped.last_unmapped = c.last_unmapped
      /\ mapped.elapsed = c.elapsed /\ mapped.reason = c.reason
      /\ mapped.window = c.window /\ mapped.interval = c.interval
      /\ mapped.timeout = c.timeout /\ mapped.silence = c.silence
      /\ mapped.update = c.update
      /\ Applies(c, c.map_update) => mapped.map = c.map_update.map /\ mapped.map_update = None
      /\ ~Applies(c, c.map_update) => mapped.map = c.map /\ mapped.map_update = c.map_update
  <2>1. CASE Applies(c, c.map_update)
    <3>1. c.map_update.map \in SUBSET ChannelSet
      BY <2>1, ConnFacts, IndicationFacts DEF Applies
    <3>2. mapped = [c EXCEPT !.map = c.map_update.map, !.map_update = None]
      BY <2>1 DEF UpdateMap
    <3> QED BY <2>1, <3>1, <3>2 DEF ActiveConnection
  <2>2. CASE ~Applies(c, c.map_update)
    BY <2>2
  <2> QED BY <2>1, <2>2
<1>2. ApplyInstants(c) =
        IF Applies(c, c.update)
        THEN [mapped EXCEPT !.window = c.update.timing.window_size * Slot,
                            !.interval = c.update.timing.interval,
                            !.timeout = c.update.timing.timeout,
                            !.silence = 0, !.update = None]
        ELSE mapped
  BY DEF ApplyInstants
<1> HIDE DEF mapped
<1>3. CASE Applies(c, c.update)
  <2>1. c.update.timing \in Timing
    BY <1>3, ConnFacts, IndicationFacts DEF Applies
  <2>2. /\ c.update.timing.window_size * Slot \in Nat
        /\ c.update.timing.interval \in Nat /\ c.update.timing.timeout \in Nat
    BY <2>1 DEF Timing, Slot
  <2> DEFINE o == ApplyInstants(c)
             w == c.update.timing.window_size * Slot
             i == c.update.timing.interval
             t == c.update.timing.timeout
  <2>3. o = [mapped EXCEPT !.window = w, !.interval = i, !.timeout = t,
                           !.silence = 0, !.update = None]
    BY <1>2, <1>3
  <2> HIDE DEF o, w, i, t
  <2>4. w \in Nat /\ i \in Nat /\ t \in Nat
    BY <2>2 DEF w, i, t
  <2>5. o \in ActiveConnection
    BY <1>1, <2>3, <2>4 DEF ActiveConnection
  <2>6. /\ o.event_counter = mapped.event_counter
        /\ o.last_unmapped = mapped.last_unmapped
        /\ o.elapsed = mapped.elapsed /\ o.reason = mapped.reason
        /\ o.map = mapped.map /\ o.map_update = mapped.map_update
        /\ o.window = w /\ o.interval = i /\ o.timeout = t
        /\ o.silence = 0 /\ o.update = None
    BY <1>1, <2>3 DEF ActiveConnection
  <2> QED BY <1>1, <1>3, <2>5, <2>6 DEF o, w, i, t
<1>4. CASE ~Applies(c, c.update)
  BY <1>1, <1>2, <1>4
<1> QED BY <1>3, <1>4
\* Where an instant d events from the counter is: classify_instant tells the
\* coming ones from the passed ones, across the wrap.
LEMMA InstantFacts ==
  ASSUME NEW c \in Counters, NEW d \in Int, d < EventModulus
  PROVE  LET x == (c + d) % EventModulus
         IN  /\ x \in Counters
             /\ d > 0 => x # c
             /\ d = 0 => x = c
             /\ d > 0 => (x = (c + 1) % EventModulus <=> d = 1)
             /\ x = (((c + 1) % EventModulus) + (d - 1)) % EventModulus
             /\ d < 0 /\ -d < EventModulus \div 2 => InstantPassed(c, x)
<1> DEFINE n == EventModulus
           x == (c + d) % n
           h == n \div 2
<1>0. n \in Nat \ {0} /\ n >= 6 /\ c \in 0 .. n - 1 /\ h \in Nat /\ 2 * h = n /\ Counters = 0 .. n - 1
  BY Constants DEF Counters
<1>1. x \in 0 .. n - 1
  <2>1. c + d \in Int
    BY <1>0
  <2> QED BY <1>0, <2>1, Division
<1>2. (x - c) % n = d % n
  BY <1>0, Ahead
<1>3. ASSUME d > 0 PROVE d % n = d
  <2>1. d < n /\ -n < d
    BY <1>0, <1>3
  <2> QED BY <1>0, <1>3, <2>1, Near
<1>4. d > 0 => x # c
  <2>1. ASSUME d > 0, x = c PROVE FALSE
    <3>1. x - c = 0
      BY <1>0, <2>1
    <3>2. 0 % n = 0
      BY <1>0, Near
    <3> QED BY <1>2, <1>3, <2>1, <3>1, <3>2
  <2> QED BY <2>1
<1>5. d = 0 => x = c
  <2>1. -n < c /\ c < n /\ c >= 0 /\ c \in Int
    BY <1>0
  <2>2. c % n = c
    BY <1>0, <2>1, Near
  <2>3. ASSUME d = 0 PROVE c + d = c
    BY <1>0, <2>3
  <2> QED BY <2>2, <2>3
<1>6. d > 0 => (x = (c + 1) % n <=> d = 1)
  <2>1. ASSUME d > 0, x = (c + 1) % n PROVE d = 1
    <3>1. (((c + 1) % n) - c) % n = 1 % n
      <4> DEFINE one == 1
      <4>1. one \in Int
        OBVIOUS
      <4>2. (((c + one) % n) - c) % n = one % n
        <5> HIDE DEF one, n
        <5> QED BY <1>0, <4>1, Ahead
      <4> QED BY <4>2
    <3>2. 1 % n = 1
      BY <1>0, Near
    <3> QED BY <1>2, <1>3, <2>1, <3>1, <3>2
  <2> QED BY <2>1
<1>7. x = (((c + 1) % n) + (d - 1)) % n
  <2> DEFINE a == c + 1
             b == d - 1
  <2>1. a \in Int /\ b \in Int /\ a + b = c + d
    BY <1>0
  <2>2. ((a % n) + b) % n = (a + b) % n
    <3> HIDE DEF a, b, n
    <3> QED BY <1>0, <2>1, Reduced
  <2> QED BY <2>1, <2>2
<1>8. ASSUME d < 0, -d < h PROVE InstantPassed(c, x)
  <2>1. -n < d /\ d < n /\ ~(d >= 0)
    BY <1>0, <1>8
  <2>2. d % n = n + d
    <3> HIDE DEF n
    <3> QED BY <1>0, <2>1, Near
  <2>3. n + d > h - 2
    BY <1>0, <1>8
  <2> QED BY <1>2, <2>2, <2>3 DEF InstantPassed
<1> QED BY <1>0, <1>1, <1>4, <1>5, <1>6, <1>7, <1>8

\* The Central's next event.
LEMMA CentralFacts ==
  ASSUME central \in CentralSide, NEW told \in BOOLEAN
  PROVE  LET m == CentralMoves(told)
             due == Planned /\ central.left = 1
         IN  /\ m \in CentralSide
             /\ m.event = (central.event + 1) % (EventModulus * Channels)
             /\ m.told = told
             /\ m.map = IF due /\ central.plan.kind = "map" THEN central.plan.map
                        ELSE central.map
             /\ m.interval = IF due /\ central.plan.kind = "update"
                             THEN central.plan.timing.interval ELSE central.interval
             /\ m.plan = IF told /\ central.left <= 1 THEN None ELSE central.plan
             /\ m.left = IF ~Planned \/ (told /\ central.left <= 1) THEN 0
                         ELSE central.left - 1
<1>1. /\ central.event \in Nat /\ central.left \in Int /\ central.map \in SUBSET ChannelSet
      /\ central.interval \in Nat /\ central.plan \in UpdateInds \cup MapInds \cup {None}
  BY DEF CentralSide
<1>2. (central.left - 1 = 0 <=> central.left = 1) /\ (central.left - 1 <= 0 <=> central.left <= 1)
  BY <1>1
<1>3. (central.event + 1) % (EventModulus * Channels) \in Nat
  <2> DEFINE n == EventModulus * Channels
             next == central.event + 1
  <2>1. n \in Nat \ {0} /\ next \in Int
    BY <1>1, Constants
  <2>2. next % n \in 0 .. n - 1
    <3> HIDE DEF n, next
    <3> QED BY <2>1, Division
  <2> QED BY <2>1, <2>2
<1> DEFINE m == CentralMoves(told)
           due == Planned /\ central.left = 1
           e == (central.event + 1) % (EventModulus * Channels)
           map == IF due /\ central.plan.kind = "map" THEN central.plan.map ELSE central.map
           i == IF due /\ central.plan.kind = "update"
                THEN central.plan.timing.interval ELSE central.interval
           plan == IF told /\ central.left <= 1 THEN None ELSE central.plan
           left == IF ~Planned \/ (told /\ central.left <= 1) THEN 0 ELSE central.left - 1
<1>4. m = [central EXCEPT !.event = e, !.map = map, !.interval = i, !.plan = plan,
                          !.left = left, !.told = told]
  BY <1>2 DEF CentralMoves, Planned
<1>5. map \in SUBSET ChannelSet /\ i \in Nat
  <2>1. Planned /\ central.plan.kind = "map" => central.plan.map \in SUBSET ChannelSet
    BY <1>1, IndicationFacts DEF Planned
  <2>2. Planned /\ central.plan.kind = "update" => central.plan.timing.interval \in Nat
    BY <1>1, IndicationFacts DEF Planned, Timing
  <2> QED BY <1>1, <2>1, <2>2
<1>6. plan \in UpdateInds \cup MapInds \cup {None} /\ left \in Int /\ e \in Nat
  BY <1>1, <1>3
<1> HIDE DEF m, e, map, i, plan, left
<1>7. m \in CentralSide
  BY <1>4, <1>5, <1>6 DEF CentralSide
<1>8. /\ m.event = e /\ m.map = map /\ m.interval = i /\ m.plan = plan
      /\ m.left = left /\ m.told = told
  BY <1>4 DEF CentralSide
<1> QED BY <1>7, <1>8 DEF m, e, map, i, plan, left
\* The parameters of a record are ones the parser accepts.
Sound(c) ==
  /\ c.interval > 0
  /\ c.timeout * 8 <= c.interval * (EventModulus \div 2)
  /\ DataChannelMapIsValid(c.map)

\* Timing and map of a stored indication are sound as well.
LEMMA StoredFacts ==
  ASSUME NEW u \in UpdateInds, ConnectionTimingIsValid(u.timing)
  PROVE  /\ u.timing.interval \in Nat /\ u.timing.interval > 0
         /\ u.timing.timeout * 8 <= u.timing.interval * (EventModulus \div 2)
<1>1. u.timing \in Updates /\ u.timing \in Timing
  BY IndicationFacts
<1> DEFINE i == u.timing.interval
<1>2. i \in 6 .. 3200
  BY DEF ConnectionTimingIsValid
<1>3. u.timing.timeout * 8 <= i * (EventModulus \div 2)
  BY <1>1, SupervisionAssumption
<1>4. i \in Nat /\ i > 0
  <2> HIDE DEF i
  <2> QED BY <1>2
<1> QED BY <1>3, <1>4

\* What connection_event opens: only a plan that is still to come is stored.
LEMMA OpenedFacts ==
  ASSUME IInv, Up
  PROVE  /\ Opened \in ActiveConnection /\ Opened.reason = None
         /\ Opened.event_counter = conn.event_counter
         /\ Opened.last_unmapped = conn.last_unmapped
         /\ Opened.elapsed = conn.elapsed
         /\ Opened.update = IF Told /\ central.plan.kind = "update" THEN central.plan ELSE None
         /\ Opened.map_update = IF Told /\ central.plan.kind = "map" THEN central.plan ELSE None
         /\ Told => /\ Opened.window = 0 /\ central.left > 0
                    /\ central.plan.kind = "update" => ConnectionTimingIsValid(central.plan.timing)
                    /\ central.plan.kind = "map" => DataChannelMapIsValid(central.plan.map)
         /\ Sound(Opened)
         /\ Planned /\ ~central.told /\ central.left <= 0 =>
              (-central.left) * Opened.interval * Slot <= Opened.silence
<1> DEFINE c == conn
           o == Opened
<1>1. /\ c \in ActiveConnection /\ central \in CentralSide
      /\ PhaseInv /\ ValidInv /\ PlanInv /\ StoredInv
      /\ c.reason = None
  BY DEF IInv, UpInv, TypeOK, Up
<1>2. /\ c.event_counter \in Counters
      /\ c.update \in UpdateInds \cup {None}
      /\ c.map_update \in MapInds \cup {None}
      /\ central.left \in Int /\ central.plan \in UpdateInds \cup MapInds \cup {None}
  BY <1>1, ConnFacts DEF CentralSide
<1>3. Told => central.left > 0 /\ c.window = 0 /\ central.plan.instant # c.event_counter
  <2>1. ASSUME Told
        PROVE  central.left > 0 /\ c.window = 0 /\ central.plan.instant # c.event_counter
    <3>1. /\ central.left > 0 /\ c.window = 0 /\ central.left < EventModulus
          /\ central.plan.instant = (c.event_counter + central.left) % EventModulus
      BY <1>1, <2>1 DEF PlanInv, Told
    <3> QED BY <1>2, <3>1, InstantFacts
  <2> QED BY <2>1
<1>4. Applies(c, c.update) <=> c.update # None /\ ~Told
  BY <1>1, <1>3 DEF StoredInv, Applies
<1>5. Applies(c, c.map_update) <=> c.map_update # None /\ ~Told
  BY <1>1, <1>3 DEF StoredInv, Applies
<1>6. /\ o \in ActiveConnection
      /\ o.event_counter = c.event_counter /\ o.last_unmapped = c.last_unmapped
      /\ o.elapsed = c.elapsed /\ o.reason = c.reason
      /\ Applies(c, c.map_update) => o.map = c.map_update.map /\ o.map_update = None
      /\ ~Applies(c, c.map_update) => o.map = c.map /\ o.map_update = c.map_update
      /\ Applies(c, c.update) =>
           /\ o.interval = c.update.timing.interval
           /\ o.timeout = c.update.timing.timeout
           /\ o.update = None
      /\ ~Applies(c, c.update) =>
           /\ o.window = c.window /\ o.interval = c.interval
           /\ o.timeout = c.timeout /\ o.silence = c.silence
           /\ o.update = c.update
  BY <1>1, AppliedFacts DEF Opened
<1> HIDE DEF o
<1>7. o.update = IF Told /\ central.plan.kind = "update" THEN central.plan ELSE None
  <2>1. CASE Told
    <3>1. o.update = c.update
      BY <1>4, <1>6, <2>1
    <3>2. central.plan.kind = "update" => c.update = central.plan
      BY <1>1, <2>1 DEF StoredInv
    <3>3. c.update # None => c.update = central.plan /\ c.update.kind = "update"
      BY <1>1, <1>2, <2>1, IndicationFacts DEF StoredInv
    <3> QED BY <2>1, <3>1, <3>2, <3>3
  <2>2. CASE ~Told
    BY <1>4, <1>6, <2>2
  <2> QED BY <2>1, <2>2
<1>8. o.map_update = IF Told /\ central.plan.kind = "map" THEN central.plan ELSE None
  <2>1. CASE Told
    <3>1. o.map_update = c.map_update
      BY <1>5, <1>6, <2>1
    <3>2. central.plan.kind = "map" => c.map_update = central.plan
      BY <1>1, <2>1 DEF StoredInv
    <3>3. c.map_update # None => c.map_update = central.plan /\ c.map_update.kind = "map"
      BY <1>1, <1>2, <2>1, IndicationFacts DEF StoredInv
    <3> QED BY <2>1, <3>1, <3>2, <3>3
  <2>2. CASE ~Told
    BY <1>5, <1>6, <2>2
  <2> QED BY <2>1, <2>2
<1>9. Told => /\ o.window = 0
              /\ central.plan.kind = "update" => ConnectionTimingIsValid(central.plan.timing)
              /\ central.plan.kind = "map" => DataChannelMapIsValid(central.plan.map)
  BY <1>1, <1>3, <1>4, <1>6 DEF StoredInv, ValidInv, Told, Planned
<1>10. Sound(o)
  <2>1. o.interval > 0 /\ o.timeout * 8 <= o.interval * (EventModulus \div 2)
    <3>1. CASE Applies(c, c.update)
      <4>1. c.update \in UpdateInds /\ ConnectionTimingIsValid(c.update.timing)
        BY <1>1, <1>2, <3>1 DEF Applies, ValidInv
      <4> QED BY <1>6, <3>1, <4>1, StoredFacts
    <3>2. CASE ~Applies(c, c.update)
      BY <1>1, <1>6, <3>2 DEF ValidInv
    <3> QED BY <3>1, <3>2
  <2>2. DataChannelMapIsValid(o.map)
    BY <1>1, <1>6 DEF ValidInv, Applies
  <2> QED BY <2>1, <2>2 DEF Sound
<1>11. ASSUME Planned, ~central.told, central.left <= 0
       PROVE  (-central.left) * o.interval * Slot <= o.silence
  <2>1. /\ c.update = None
        /\ (-central.left) * c.interval * Slot <= c.silence
    BY <1>1, <1>11 DEF StoredInv
  <2>2. o.interval = c.interval /\ o.silence = c.silence
    BY <1>6, <2>1 DEF Applies
  <2> QED BY <2>1, <2>2
<1> QED BY <1>1, <1>3, <1>6, <1>7, <1>8, <1>9, <1>10, <1>11 DEF o
-----------------------------------------------------------------------------
(***************************************************************************)
(* One event.                                                              *)
(***************************************************************************)
\* The record at the end of an event, told or not, before the next one is
\* scheduled.
Pending(told) == Planned /\ told /\ central.left > 0
Behind(told) == Planned /\ ~told /\ central.left <= 0

Settled(c, told) ==
  /\ c \in ActiveConnection /\ c.reason = None
  /\ c.event_counter = conn.event_counter
  /\ c.last_unmapped = (request.hop * (central.event + 1)) % Channels
  /\ told \in BOOLEAN /\ (~Planned => told)
  /\ Sound(c)
  /\ c.update = IF Pending(told) /\ central.plan.kind = "update" THEN central.plan ELSE None
  /\ c.map_update = IF Pending(told) /\ central.plan.kind = "map" THEN central.plan ELSE None
  /\ Pending(told) =>
       /\ c.window = 0
       /\ central.plan.kind = "update" => ConnectionTimingIsValid(central.plan.timing)
       /\ central.plan.kind = "map" => DataChannelMapIsValid(central.plan.map)
  /\ IF Behind(told) /\ central.plan.kind = "map" THEN central.map = central.plan.map
     ELSE c.map = central.map
  /\ IF Behind(told) /\ central.plan.kind = "update"
     THEN central.interval = central.plan.timing.interval
     ELSE c.interval = central.interval
  /\ Behind(told) => (-central.left) * c.interval * Slot <= c.silence

\* Both sides count on: the hop and the counter of the next event.
LEMMA PhaseStep ==
  ASSUME TypeOK, PhaseInv, NEW e,
         e = (central.event + 1) % (EventModulus * Channels)
  PROVE  /\ (conn.event_counter + 1) % EventModulus = e % EventModulus
         /\ (request.hop * (central.event + 1)) % Channels = (request.hop * e) % Channels
         /\ (conn.last_unmapped + request.hop) % Channels
              = (request.hop * (central.event + 1)) % Channels
<1> DEFINE n == EventModulus
           m == Channels
           h == request.hop
           v == central.event
           a == v + 1
<1>0. n \in Nat \ {0} /\ m \in Nat \ {0} /\ h \in Nat /\ v \in Nat /\ a \in Nat
  BY Constants, RequestFacts DEF TypeOK, CentralSide
<1>1. conn.event_counter = v % n /\ conn.last_unmapped = (h * v) % m
  BY DEF PhaseInv
<1>2. ((v % n) + 1) % n = a % n
  <2> DEFINE one == 1
  <2>1. one \in Int /\ v \in Int
    BY <1>0
  <2>2. ((v % n) + one) % n = (v + one) % n
    <3> HIDE DEF one, n, v
    <3> QED BY <1>0, <2>1, Reduced
  <2> QED BY <2>2
<1> DEFINE nm == n * m
           q == a \div nm
<1> HIDE DEF n, m, h, v, a
<1>q. q \in Int /\ e \in Int /\ a = (n * m) * q + e
  <2>1. nm \in Nat \ {0} /\ a \in Int /\ e = a % nm
    BY <1>0 DEF a, v, n, m
  <2>2. e \in 0 .. nm - 1
    <3> HIDE DEF nm
    <3> QED BY <2>1, Division
  <2>3. q \in Int /\ a = nm * q + e
    <3> HIDE DEF nm
    <3> QED BY <2>1, Division
  <2> QED BY <2>1, <2>2, <2>3
<1> HIDE DEF q
<1>3. e % n = a % n
  <2> DEFINE z == m * q
  <2>1. z \in Int /\ a = n * z + e
    BY <1>0, <1>q
  <2>2. (n * z + e) % n = e % n
    <3> HIDE DEF z
    <3> QED BY <1>0, <1>q, <2>1, Multiple
  <2> QED BY <2>1, <2>2
<1>4. (h * e) % m = (h * a) % m
  <2> DEFINE z == h * n * q
             x == h * e
  <2>1. z \in Int /\ x \in Int /\ h * a = m * z + x
    BY <1>0, <1>q
  <2>2. (m * z + x) % m = x % m
    <3> HIDE DEF z, x
    <3> QED BY <1>0, <2>1, Multiple
  <2> QED BY <2>1, <2>2
<1>5. (((h * v) % m) + h) % m = (h * a) % m
  <2> DEFINE x == h * v
  <2>1. x \in Int /\ h \in Int
    BY <1>0
  <2>2. x + h = h * a
    <3>1. h * (v + 1) = h * v + h
      BY <1>0
    <3> QED BY <3>1 DEF a
  <2>3. ((x % m) + h) % m = (x + h) % m
    <3> HIDE DEF x
    <3> QED BY <1>0, <2>1, Reduced
  <2> QED BY <2>2, <2>3
<1>6. /\ (conn.event_counter + 1) % n = e % n
      /\ (h * (v + 1)) % m = (h * e) % m
      /\ (conn.last_unmapped + h) % m = (h * (v + 1)) % m
  BY <1>1, <1>2, <1>3, <1>4, <1>5 DEF a
<1> QED BY <1>6 DEF n, m, h, v

\* schedule_following_event.
LEMMA ScheduledFacts ==
  ASSUME NEW c \in ActiveConnection
  PROVE  LET s == ScheduleFollowingEvent(c)
         IN  /\ s \in ActiveConnection /\ AnchorStep(c) \in Nat
             /\ s.event_counter = (c.event_counter + 1) % EventModulus
             /\ s.elapsed = c.elapsed + AnchorStep(c)
             /\ s.silence = c.silence + AnchorStep(c)
             /\ s.last_unmapped = c.last_unmapped /\ s.map = c.map
             /\ s.interval = c.interval /\ s.timeout = c.timeout
             /\ s.window = c.window /\ s.update = c.update
             /\ s.map_update = c.map_update /\ s.reason = c.reason
<1> DEFINE s == ScheduleFollowingEvent(c)
           step == AnchorStep(c)
           next == (c.event_counter + 1) % EventModulus
<1>1. /\ c.event_counter \in Counters /\ c.interval \in Nat
      /\ c.elapsed \in Nat /\ c.silence \in Nat
      /\ c.update \in UpdateInds \cup {None}
  BY ConnFacts
<1>2. next \in Counters
  <2>1. c.event_counter + 1 \in Int
    BY <1>1, Constants DEF Counters
  <2>2. next \in 0 .. EventModulus - 1
    BY <2>1, Constants, Division
  <2> QED BY <2>2 DEF Counters
<1>3. step \in Nat
  <2>1. CASE c.update # None
    <3>1. c.update.timing.window_offset \in Nat
      BY <1>1, <2>1, IndicationFacts DEF Timing
    <3> QED BY <1>1, <3>1 DEF AnchorStep, Slot
  <2>2. CASE c.update = None
    BY <1>1, <2>2 DEF AnchorStep, Slot
  <2> QED BY <2>1, <2>2
<1>4. s = [c EXCEPT !.event_counter = next, !.elapsed = c.elapsed + step,
                    !.silence = c.silence + step]
  BY DEF ScheduleFollowingEvent
<1> HIDE DEF s, step, next
<1>5. c.elapsed + step \in Nat /\ c.silence + step \in Nat
  BY <1>1, <1>3
<1>6. s \in ActiveConnection
  BY <1>2, <1>4, <1>5 DEF ActiveConnection
<1>7. /\ s.event_counter = next
      /\ s.elapsed = c.elapsed + step /\ s.silence = c.silence + step
      /\ s.last_unmapped = c.last_unmapped /\ s.map = c.map
      /\ s.interval = c.interval /\ s.timeout = c.timeout
      /\ s.window = c.window /\ s.update = c.update
      /\ s.map_update = c.map_update /\ s.reason = c.reason
  BY <1>4 DEF ActiveConnection
<1> QED BY <1>3, <1>6, <1>7 DEF s, step, next
\* Scheduling the following event keeps the invariant: a plan comes one event
\* nearer, takes effect on both sides at its instant, or becomes late.
LEMMA FollowKeeps ==
  ASSUME TypeOK, PhaseInv, PlanInv, NEW c, NEW start \in Int, NEW told,
         Settled(c, told), Follow(c, start, told), missed' \in BOOLEAN,
         (told \/ central.left > 1) /\ ~missed' => 0 <= start /\ start <= c.window
  PROVE  IInv'
<1> DEFINE s == ScheduleFollowingEvent(c)
           m == CentralMoves(told)
           o == ApplyInstants(s)
           due == Pending(told) /\ central.left = 1
<1>0. /\ c \in ActiveConnection /\ c.reason = None /\ told \in BOOLEAN
      /\ c.event_counter = conn.event_counter
      /\ central \in CentralSide /\ request \in Acceptable
      /\ central.left \in Int /\ central.interval \in Nat
      /\ central.plan \in UpdateInds \cup MapInds \cup {None}
      /\ conn' = s /\ central' = m /\ request' = request
      /\ ~Planned => told
  BY DEF Settled, Follow, TypeOK, CentralSide
<1>1. /\ s \in ActiveConnection /\ AnchorStep(c) \in Nat
      /\ s.event_counter = (c.event_counter + 1) % EventModulus
      /\ s.silence = c.silence + AnchorStep(c)
      /\ s.last_unmapped = c.last_unmapped /\ s.map = c.map
      /\ s.interval = c.interval /\ s.timeout = c.timeout
      /\ s.window = c.window /\ s.update = c.update
      /\ s.map_update = c.map_update /\ s.reason = None
  BY <1>0, ScheduledFacts
<1>2. /\ m \in CentralSide
      /\ m.event = (central.event + 1) % (EventModulus * Channels)
      /\ m.told = told
      /\ m.map = IF Planned /\ central.left = 1 /\ central.plan.kind = "map"
                 THEN central.plan.map ELSE central.map
      /\ m.interval = IF Planned /\ central.left = 1 /\ central.plan.kind = "update"
                      THEN central.plan.timing.interval ELSE central.interval
      /\ m.plan = IF told /\ central.left <= 1 THEN None ELSE central.plan
      /\ m.left = IF ~Planned \/ (told /\ central.left <= 1) THEN 0 ELSE central.left - 1
  BY <1>0, CentralFacts
<1>3. /\ c.interval \in Nat /\ c.silence \in Nat /\ c.window \in Nat
      /\ c.event_counter \in Counters
  BY <1>0, ConnFacts
<1>4. /\ Planned' <=> Planned /\ ~(told /\ central.left <= 1)
      /\ Told' <=> Planned /\ told /\ central.left > 1
      /\ Informed' <=> told \/ central.left > 1
  <2>1. Planned' <=> Planned /\ ~(told /\ central.left <= 1)
    BY <1>0, <1>2 DEF Planned
  <2>2. Told' <=> Planned /\ told /\ central.left > 1
    BY <1>0, <1>2, <2>1 DEF Told
  <2>3. Informed' <=> told \/ central.left > 1
    BY <1>0, <1>2 DEF Informed
  <2> QED BY <2>1, <2>2, <2>3
<1>5. Planned => LET x == central.plan.instant
                 IN  /\ central.left > 0 => (x = s.event_counter <=> central.left = 1)
                     /\ x = (s.event_counter + (central.left - 1)) % EventModulus
                     /\ central.left < EventModulus
  <2>1. ASSUME Planned
        PROVE  /\ central.left < EventModulus
               /\ central.plan.instant = (c.event_counter + central.left) % EventModulus
    BY <1>0, <2>1 DEF PlanInv
  <2> QED BY <1>0, <1>1, <1>3, <2>1, InstantFacts
<1>6. /\ Planned /\ central.plan.kind = "update" =>
           /\ central.plan \in UpdateInds /\ central.plan.timing.window_offset \in Nat
           /\ central.plan.timing.window_size \in Nat /\ central.plan.timing.interval \in Nat
      /\ Planned /\ central.plan.kind = "map" => central.plan \in MapInds
      /\ Planned => central.plan.kind \in {"update", "map"}
  <2>1. Planned => central.plan \in UpdateInds \cup MapInds
    BY <1>0 DEF Planned
  <2>2. "update" # "map"
    OBVIOUS
  <2>3. \A u \in UpdateInds : u.kind = "update" /\ u.timing \in Timing
    BY IndicationFacts
  <2>4. \A u \in MapInds : u.kind = "map"
    BY IndicationFacts
  <2>5. \A t \in Timing : t.window_offset \in Nat /\ t.window_size \in Nat /\ t.interval \in Nat
    BY DEF Timing
  <2> QED BY <2>1, <2>2, <2>3, <2>4, <2>5
<1>7. /\ Applies(s, s.update) <=> due /\ central.plan.kind = "update"
      /\ Applies(s, s.map_update) <=> due /\ central.plan.kind = "map"
      /\ Pending(told) => Planned /\ central.left > 0
  <2>1. /\ s.update = IF Pending(told) /\ central.plan.kind = "update" THEN central.plan ELSE None
        /\ s.map_update = IF Pending(told) /\ central.plan.kind = "map" THEN central.plan ELSE None
    BY <1>1 DEF Settled
  <2>2. Pending(told) => Planned /\ central.left > 0 /\ central.plan # None
    BY DEF Pending, Planned
  <2> HIDE DEF s
  <2> QED BY <1>5, <2>1, <2>2 DEF Applies
<1>8. /\ o \in ActiveConnection
      /\ Applies(s, s.map_update) => o.map = s.map_update.map
      /\ ~Applies(s, s.map_update) => o.map = s.map
      /\ Applies(s, s.update) => /\ o.window = s.update.timing.window_size * Slot
                                 /\ o.interval = s.update.timing.interval
      /\ ~Applies(s, s.update) => o.window = s.window /\ o.interval = s.interval
  <2> HIDE DEF s
  <2> QED BY <1>1, AppliedFacts
<1>9. Opened' = o
  BY <1>0 DEF Opened
<1>10. AnchorStep(c) = IF due /\ central.plan.kind = "update"
                       THEN (c.interval + central.plan.timing.window_offset) * Slot
                       ELSE c.interval * Slot
  <2>1. AnchorStep(c) = IF Applies(s, s.update)
                        THEN (c.interval + s.update.timing.window_offset) * Slot
                        ELSE c.interval * Slot
    BY <1>1 DEF AnchorStep, Applies
  <2>2. due /\ central.plan.kind = "update" => s.update = central.plan
    BY <1>1 DEF Settled
  <2> HIDE DEF s
  <2> QED BY <1>7, <2>1, <2>2
<1> HIDE DEF s, m, o
<1>11. PICK place \in Placements :
         offset' = start + central.interval * Slot + place - AnchorStep(c)
  BY DEF Follow
<1>12. TypeOK'
  <2>1. place \in Int
    <3>1. CASE Planned /\ central.left = 1 /\ central.plan.kind = "update"
      <4>1. PICK p \in 0 .. central.plan.timing.window_size :
              place = (central.plan.timing.window_offset + p) * Slot
        BY <1>11, <3>1 DEF Placements, Planned
      <4> QED BY <1>6, <3>1, <4>1 DEF Slot
    <3>2. CASE ~(Planned /\ central.left = 1 /\ central.plan.kind = "update")
      BY <1>11, <3>2 DEF Placements, Planned
    <3> QED BY <3>1, <3>2
  <2>2. offset' \in Int
    BY <1>0, <1>1, <1>11, <2>1 DEF Slot
  <2> QED BY <1>0, <1>1, <1>2, <2>2 DEF TypeOK
<1>13. PhaseInv'
  <2>1. c.last_unmapped = (request.hop * (central.event + 1)) % Channels
    BY DEF Settled
  <2> QED BY <1>0, <1>1, <1>2, <2>1, PhaseStep DEF PhaseInv
<1>14. ValidInv'
  <2>1. Sound(c)
    BY DEF Settled
  <2>2. c.update # None => ConnectionTimingIsValid(c.update.timing)
    BY DEF Settled
  <2>3. c.map_update # None => DataChannelMapIsValid(c.map_update.map)
    BY DEF Settled
  <2> QED BY <1>0, <1>1, <2>1, <2>2, <2>3 DEF ValidInv, Sound
<1>15. PlanInv'
  <2>1. ~Planned' => central'.told /\ central'.left = 0
    BY <1>0, <1>2, <1>4
  <2>2. Planned' =>
          /\ central'.left < EventModulus
          /\ central'.plan.instant = (conn'.event_counter + central'.left) % EventModulus
    <3>1. ASSUME Planned'
          PROVE  /\ Planned /\ m.plan = central.plan /\ m.left = central.left - 1
      BY <1>2, <1>4, <3>1
    <3> QED BY <1>0, <1>5, <3>1, Constants
  <2>3. Told' => central'.left > 0 /\ conn'.window = 0
    <3>1. ASSUME Told' PROVE m.left = central.left - 1 /\ Pending(told) /\ central.left > 1
      BY <1>0, <1>2, <1>4, <3>1 DEF Pending
    <3>2. Pending(told) => c.window = 0
      BY DEF Settled
    <3> QED BY <1>0, <1>1, <3>1, <3>2
  <2> QED BY <2>1, <2>2, <2>3 DEF PlanInv
<1>16. StoredInv'
  <2>1. /\ s.update = IF Pending(told) /\ central.plan.kind = "update" THEN central.plan ELSE None
        /\ s.map_update = IF Pending(told) /\ central.plan.kind = "map" THEN central.plan ELSE None
    BY <1>1 DEF Settled
  <2>2. Told' => Pending(told) /\ m.plan = central.plan
    BY <1>0, <1>2, <1>4 DEF Pending
  <2>3. Pending(told) /\ ~Told' => central.plan.instant = s.event_counter
    BY <1>0, <1>4, <1>5 DEF Pending
  <2>4. ASSUME Planned', ~central'.told, central'.left <= 0
        PROVE  /\ s.update = None /\ s.map_update = None
               /\ (-central'.left) * s.interval * Slot <= s.silence
    <3>1. Planned /\ ~told /\ m.left = central.left - 1 /\ central.left <= 1
      BY <1>0, <1>2, <1>4, <2>4
    <3>2. ~Pending(told)
      BY <3>1 DEF Pending
    <3>3. s.silence = c.silence + c.interval * Slot
      BY <1>1, <1>10, <3>2
    <3>4. CASE central.left = 1
      BY <1>0, <1>1, <1>3, <2>1, <3>1, <3>2, <3>3, <3>4 DEF Slot
    <3>5. CASE central.left <= 0
      <4>1. Behind(told)
        BY <3>1, <3>5 DEF Behind
      <4>2. (-central.left) * c.interval * Slot <= c.silence
        BY <4>1 DEF Settled
      <4> DEFINE l == central.left
                 i == c.interval
      <4>3. (-(l - 1)) * i * Slot = (-l) * i * Slot + i * Slot
        BY <1>0, <1>3 DEF Slot
      <4>4. (-l) * i * Slot \in Int /\ i * Slot \in Int
        BY <1>0, <1>3 DEF Slot
      <4>5. (-(l - 1)) * i * Slot <= c.silence + i * Slot
        BY <1>3, <4>2, <4>3, <4>4
      <4> QED BY <1>0, <1>1, <2>1, <3>1, <3>2, <3>3, <4>5
    <3> QED BY <1>0, <3>1, <3>4, <3>5
  <2>5. /\ Told' /\ central'.plan.kind = "update" => conn'.update = central'.plan
        /\ Told' /\ central'.plan.kind = "map" => conn'.map_update = central'.plan
    BY <1>0, <2>1, <2>2
  <2>6. /\ conn'.update # None =>
             IF Told' THEN conn'.update = central'.plan
             ELSE conn'.update.instant = conn'.event_counter
        /\ conn'.map_update # None =>
             IF Told' THEN conn'.map_update = central'.plan
             ELSE conn'.map_update.instant = conn'.event_counter
    BY <1>0, <2>1, <2>2, <2>3
  <2> QED BY <1>0, <2>4, <2>5, <2>6 DEF StoredInv
<1>17. AgreeInv'
  <2>0. /\ s.update = IF Pending(told) /\ central.plan.kind = "update" THEN central.plan ELSE None
        /\ s.map_update = IF Pending(told) /\ central.plan.kind = "map" THEN central.plan ELSE None
        /\ IF Behind(told) /\ central.plan.kind = "map" THEN central.map = central.plan.map
           ELSE c.map = central.map
        /\ IF Behind(told) /\ central.plan.kind = "update"
           THEN central.interval = central.plan.timing.interval
           ELSE c.interval = central.interval
    BY <1>1 DEF Settled
  <2>1. \A kind \in {"map", "update"} :
          Late(kind)' <=> Planned /\ ~told /\ central.left <= 1 /\ central.plan.kind = kind
    BY <1>0, <1>2, <1>4 DEF Late
  <2>2. ASSUME Planned PROVE Pending(told) <=> told /\ central.left > 0
    BY <2>2 DEF Pending
  <2>3. ASSUME Planned PROVE Behind(told) <=> ~told /\ central.left <= 0
    BY <2>3 DEF Behind
  <2>4. central.left <= 1 <=> central.left = 1 \/ central.left <= 0
    BY <1>0
  <2>5. central.left = 1 => ~(central.left <= 0) /\ central.left > 0
    OBVIOUS
  <2>6. IF Late("map")' THEN central'.map = central'.plan.map ELSE o.map = central'.map
    <3>1. CASE Planned /\ central.plan.kind = "map"
      <4>1. m.map = (IF central.left = 1 THEN central.plan.map ELSE central.map)
        BY <1>2, <3>1
      <4>2. o.map = (IF told /\ central.left = 1 THEN central.plan.map ELSE c.map)
        BY <1>1, <1>7, <1>8, <2>0, <2>2, <2>5, <3>1
      <4>3. CASE Late("map")'
        <5>1. ~told /\ central.left <= 1 /\ m.plan = central.plan
          BY <1>2, <2>1, <3>1, <4>3
        <5> QED BY <1>0, <2>0, <2>3, <2>4, <3>1, <4>1, <4>3, <5>1
      <4>4. CASE ~Late("map")'
        <5>1. told \/ ~(central.left <= 1)
          BY <2>1, <3>1, <4>4
        <5> QED BY <1>0, <2>0, <2>3, <2>4, <2>5, <3>1, <4>1, <4>2, <4>4, <5>1
      <4> QED BY <4>3, <4>4
    <3>2. CASE ~(Planned /\ central.plan.kind = "map")
      <4>1. ~Late("map")' /\ ~(Behind(told) /\ central.plan.kind = "map")
        BY <2>1, <3>2 DEF Behind
      <4>2. ~(due /\ central.plan.kind = "map")
        BY <1>7, <3>2
      <4> QED BY <1>0, <1>1, <1>2, <1>7, <1>8, <2>0, <3>2, <4>1, <4>2
    <3> QED BY <3>1, <3>2
  <2>7. IF Late("update")' THEN central'.interval = central'.plan.timing.interval
        ELSE o.interval = central'.interval
    <3>1. CASE Planned /\ central.plan.kind = "update"
      <4>1. m.interval = (IF central.left = 1 THEN central.plan.timing.interval
                          ELSE central.interval)
        BY <1>2, <3>1
      <4>2. o.interval = (IF told /\ central.left = 1 THEN central.plan.timing.interval
                          ELSE c.interval)
        BY <1>1, <1>7, <1>8, <2>0, <2>2, <2>5, <3>1
      <4>3. CASE Late("update")'
        <5>1. ~told /\ central.left <= 1 /\ m.plan = central.plan
          BY <1>2, <2>1, <3>1, <4>3
        <5> QED BY <1>0, <2>0, <2>3, <2>4, <3>1, <4>1, <4>3, <5>1
      <4>4. CASE ~Late("update")'
        <5>1. told \/ ~(central.left <= 1)
          BY <2>1, <3>1, <4>4
        <5> QED BY <1>0, <2>0, <2>3, <2>4, <2>5, <3>1, <4>1, <4>2, <4>4, <5>1
      <4> QED BY <4>3, <4>4
    <3>2. CASE ~(Planned /\ central.plan.kind = "update")
      <4>1. ~Late("update")' /\ ~(Behind(told) /\ central.plan.kind = "update")
        BY <2>1, <3>2 DEF Behind
      <4>2. ~(due /\ central.plan.kind = "update")
        BY <1>7, <3>2
      <4> QED BY <1>0, <1>1, <1>2, <1>7, <1>8, <2>0, <3>2, <4>1, <4>2
    <3> QED BY <3>1, <3>2
  <2> QED BY <1>9, <2>6, <2>7 DEF AgreeInv
<1>18. WindowInv'
  <2> SUFFICES ASSUME told \/ central.left > 1, ~missed'
               PROVE  0 <= offset' /\ offset' <= o.window
    BY <1>4, <1>9 DEF WindowInv
  <2>1. 0 <= start /\ start <= c.window
    OBVIOUS
  <2>2. ~Behind(told) /\ c.interval = central.interval
    <3>1. ~Behind(told)
      BY <1>0 DEF Behind
    <3> QED BY <3>1 DEF Settled
  <2>3. CASE due /\ central.plan.kind = "update"
    <3>1. Planned /\ central.left = 1 /\ c.window = 0 /\ s.update = central.plan
      BY <1>1, <1>7, <2>3 DEF Settled
    <3>2. PICK p \in 0 .. central.plan.timing.window_size :
            place = (central.plan.timing.window_offset + p) * Slot
      BY <1>11, <2>3, <3>1 DEF Placements, Planned
    <3>3. o.window = central.plan.timing.window_size * Slot
      BY <1>7, <1>8, <2>3, <3>1
    <3>4. AnchorStep(c) = (c.interval + central.plan.timing.window_offset) * Slot
      BY <1>10, <2>3
    <3> QED BY <1>0, <1>3, <1>6, <1>11, <2>1, <2>2, <2>3, <3>1, <3>2, <3>3, <3>4 DEF Slot
  <2>4. CASE ~(due /\ central.plan.kind = "update")
    <3>1. ~(Planned /\ central.left = 1 /\ central.plan.kind = "update")
      BY <2>4 DEF Pending
    <3>2. place = 0
      BY <1>11, <3>1 DEF Placements, Planned
    <3>3. o.window = c.window
      BY <1>1, <1>7, <1>8, <2>4
    <3>4. AnchorStep(c) = c.interval * Slot
      BY <1>10, <2>4
    <3> QED BY <1>0, <1>3, <1>11, <2>1, <2>2, <3>2, <3>3, <3>4 DEF Slot
  <2> QED BY <2>3, <2>4
<1> QED BY <1>12, <1>13, <1>14, <1>15, <1>16, <1>17, <1>18 DEF IInv, UpInv
\* A common factor can be cancelled.
LEMMA Cancelled ==
  ASSUME NEW a \in Nat, NEW i \in Nat, NEW h \in Nat, NEW x, NEW y,
         x = a * i, y = i * h, x < y
  PROVE  a < h
<1>1. ASSUME h <= a PROVE FALSE
  <2>1. PICK d \in Nat : a = h + d
    <3>1. a - h \in Nat /\ a = h + (a - h)
      BY <1>1
    <3> QED BY <3>1
  <2>2. x = y + d * i /\ d * i \in Nat /\ y \in Nat
    BY <2>1
  <2> QED BY <2>2
<1> QED BY <1>1

\* next_channel, take_receive_timeout and synchronize, field by field.
LEMMA HeardFacts ==
  ASSUME IInv, Up
  PROVE  LET c == NextChannel(Opened)
         IN  /\ c = [Opened EXCEPT !.last_unmapped =
                       (request.hop * (central.event + 1)) % Channels]
             /\ c \in ActiveConnection
             /\ c.last_unmapped = (request.hop * (central.event + 1)) % Channels
<1> DEFINE u == (request.hop * (central.event + 1)) % Channels
<1>1. NextUnmapped(Opened) = u
  <2>1. TypeOK /\ PhaseInv
    BY DEF IInv, UpInv
  <2>2. Opened.last_unmapped = conn.last_unmapped
    BY OpenedFacts
  <2> QED BY <2>1, <2>2, PhaseStep DEF NextUnmapped
<1>2. u \in ChannelSet
  <2> DEFINE a == request.hop * (central.event + 1)
  <2>1. a \in Int
    <3>1. request.hop \in Nat /\ central.event \in Nat
      BY RequestFacts DEF IInv, TypeOK, CentralSide
    <3> QED BY <3>1
  <2>2. a % Channels \in 0 .. Channels - 1
    <3> HIDE DEF a
    <3> QED BY <2>1, Constants, Division
  <2> QED BY <2>2 DEF ChannelSet
<1>3. Opened \in ActiveConnection
  BY OpenedFacts
<1>4. NextChannel(Opened) = [Opened EXCEPT !.last_unmapped = u]
  BY <1>1 DEF NextChannel
<1> HIDE DEF u
<1> QED BY <1>2, <1>3, <1>4 DEF ActiveConnection, u

\* The record of an event in which nothing new is learnt.
LEMMA OpenedSettles ==
  ASSUME IInv, Up, NEW c,
         c \in ActiveConnection,
         c.last_unmapped = (request.hop * (central.event + 1)) % Channels,
         c.event_counter = conn.event_counter, c.reason = None,
         c.map = Opened.map, c.interval = Opened.interval, c.timeout = Opened.timeout,
         c.update = Opened.update, c.map_update = Opened.map_update,
         c.window \in {Opened.window, 0},
         c.silence = Opened.silence \/ central.told \/ central.left > 0
  PROVE  Settled(c, central.told)
<1>1. /\ Pending(central.told) <=> Told
      /\ \A kind \in {"map", "update"} :
           Late(kind) <=> Behind(central.told) /\ central.plan.kind = kind
      /\ central.told \in BOOLEAN /\ central.left \in Int
      /\ ~Planned => central.told
  <2>1. PlanInv /\ central.told \in BOOLEAN /\ central.left \in Int
    BY DEF IInv, UpInv, TypeOK, CentralSide
  <2>2. Told => central.left > 0
    BY <2>1 DEF PlanInv
  <2> QED BY <2>1, <2>2 DEF Pending, Told, Late, Behind, PlanInv
<1>2. AgreeInv
  BY DEF IInv, UpInv
<1>3. Behind(central.told) => c.silence = Opened.silence
  BY <1>1 DEF Behind
<1>4. Sound(c)
  BY OpenedFacts DEF Sound
<1>5. /\ c.update = IF Told /\ central.plan.kind = "update" THEN central.plan ELSE None
      /\ c.map_update = IF Told /\ central.plan.kind = "map" THEN central.plan ELSE None
      /\ Told => /\ c.window = 0
                 /\ central.plan.kind = "update" => ConnectionTimingIsValid(central.plan.timing)
                 /\ central.plan.kind = "map" => DataChannelMapIsValid(central.plan.map)
  BY OpenedFacts
<1>6. Behind(central.told) => (-central.left) * c.interval * Slot <= c.silence
  BY <1>3, OpenedFacts DEF Behind
<1>7. /\ IF Behind(central.told) /\ central.plan.kind = "map"
         THEN central.map = central.plan.map ELSE c.map = central.map
      /\ IF Behind(central.told) /\ central.plan.kind = "update"
         THEN central.interval = central.plan.timing.interval
         ELSE c.interval = central.interval
  BY <1>1, <1>2 DEF AgreeInv
<1> QED BY <1>1, <1>4, <1>5, <1>6, <1>7 DEF Settled

\* An event without a good packet, and one that is skipped.
LEMMA SilentEventKeeps ==
  ASSUME IInv, MissEvent \/ SkipEvent
  PROVE  IInv'
<1>1. Up /\ TypeOK /\ PhaseInv /\ PlanInv /\ WindowInv
  BY DEF MissEvent, SkipEvent, IInv, UpInv
<1> DEFINE c == NextChannel(Opened)
           t == TakeReceiveTimeout(c)
<1>2. /\ Opened \in ActiveConnection /\ Opened.reason = None
      /\ Opened.event_counter = conn.event_counter
      /\ Opened.window \in Nat
  BY <1>1, OpenedFacts, ConnFacts
<1>3. /\ c \in ActiveConnection
      /\ c.last_unmapped = (request.hop * (central.event + 1)) % Channels
      /\ c.event_counter = conn.event_counter /\ c.reason = None
      /\ c.map = Opened.map /\ c.interval = Opened.interval /\ c.timeout = Opened.timeout
      /\ c.update = Opened.update /\ c.map_update = Opened.map_update
      /\ c.window = Opened.window /\ c.silence = Opened.silence
  BY <1>1, <1>2, HeardFacts DEF ActiveConnection
<1> HIDE DEF c
<1>4. t = [c EXCEPT !.window = 0]
  BY DEF TakeReceiveTimeout
<1>5. /\ t \in ActiveConnection
      /\ t.last_unmapped = c.last_unmapped
      /\ t.event_counter = c.event_counter /\ t.reason = None
      /\ t.map = c.map /\ t.interval = c.interval /\ t.timeout = c.timeout
      /\ t.update = c.update /\ t.map_update = c.map_update
      /\ t.window = 0 /\ t.silence = c.silence
  BY <1>3, <1>4 DEF ActiveConnection
<1> HIDE DEF t
<1>6. Settled(c, central.told)
  BY <1>1, <1>3, OpenedSettles
<1>7. Settled(t, central.told)
  BY <1>1, <1>3, <1>5, OpenedSettles
<1>8. offset \in Int /\ missed \in BOOLEAN /\ central.left \in Int
  BY <1>1 DEF TypeOK, CentralSide
<1>9. (central.told \/ central.left > 1) /\ ~missed => 0 <= offset /\ offset <= Opened.window
  BY <1>1, <1>8 DEF WindowInv, Informed
<1>10. CASE MissEvent
  <2>1. missed' = (missed \/ Opened.window > 0) /\ Follow(t, offset, central.told)
    BY <1>10 DEF MissEvent, t, c
  <2>2. missed' \in BOOLEAN
    BY <2>1
  <2>3. (central.told \/ central.left > 1) /\ ~missed' => 0 <= offset /\ offset <= t.window
    <3>1. ~missed' => ~missed /\ ~(Opened.window > 0)
      BY <2>1
    <3>2. ~(Opened.window > 0) => Opened.window = t.window
      BY <1>2, <1>5
    <3> QED BY <1>9, <3>1, <3>2
  <2> QED BY <1>1, <1>7, <1>8, <2>1, <2>2, <2>3, FollowKeeps
<1>11. CASE SkipEvent
  <2>1. missed' = missed /\ Follow(c, offset, central.told)
    BY <1>11 DEF SkipEvent, c
  <2>2. (central.told \/ central.left > 1) /\ ~missed' => 0 <= offset /\ offset <= c.window
    BY <1>3, <1>9, <2>1
  <2> QED BY <1>1, <1>6, <1>8, <2>1, <2>2, FollowKeeps
<1> QED BY <1>10, <1>11
\* The record after a good packet, before the indication it may carry.
Heard == [TakeReceiveTimeout(NextChannel(Opened)) EXCEPT !.silence = 0]

\* It is the opened one but for the hop, the window and the silence.
LEMMA HeardIs ==
  ASSUME IInv, Up
  PROVE  /\ Heard \in ActiveConnection /\ Heard.reason = None
         /\ Heard.last_unmapped = (request.hop * (central.event + 1)) % Channels
         /\ Heard.event_counter = conn.event_counter
         /\ Heard.map = Opened.map /\ Heard.interval = Opened.interval
         /\ Heard.timeout = Opened.timeout
         /\ Heard.update = Opened.update /\ Heard.map_update = Opened.map_update
         /\ Heard.window = 0 /\ Heard.silence = 0
<1> DEFINE c == NextChannel(Opened)
<1>1. /\ Opened \in ActiveConnection /\ Opened.reason = None
      /\ Opened.event_counter = conn.event_counter
  BY OpenedFacts
<1>2. /\ c \in ActiveConnection
      /\ c.last_unmapped = (request.hop * (central.event + 1)) % Channels
      /\ c.event_counter = conn.event_counter /\ c.reason = None
      /\ c.map = Opened.map /\ c.interval = Opened.interval /\ c.timeout = Opened.timeout
      /\ c.update = Opened.update /\ c.map_update = Opened.map_update
  BY <1>1, HeardFacts DEF ActiveConnection
<1> HIDE DEF c
<1>3. Heard = [c EXCEPT !.window = 0, !.silence = 0]
  BY <1>2 DEF Heard, TakeReceiveTimeout, c, ActiveConnection
<1> QED BY <1>2, <1>3 DEF ActiveConnection

\* Nothing that is stored is due after the event has been opened.
LEMMA NothingDue ==
  ASSUME IInv, Up
  PROVE  /\ ~Applies(Heard, Opened.update) /\ ~Applies(Heard, Opened.map_update)
         /\ Planned /\ central.left > 0 => central.plan.instant # conn.event_counter
         /\ Planned /\ central.left = 0 => central.plan.instant = conn.event_counter
<1>1. /\ conn.event_counter \in Counters /\ central.left \in Int
      /\ Planned => /\ central.left < EventModulus
                    /\ central.plan.instant = (conn.event_counter + central.left) % EventModulus
  BY ConnFacts DEF IInv, TypeOK, UpInv, PlanInv, CentralSide
<1>2. /\ Planned /\ central.left > 0 => central.plan.instant # conn.event_counter
      /\ Planned /\ central.left = 0 => central.plan.instant = conn.event_counter
  BY <1>1, InstantFacts
<1>3. Told => Planned /\ central.left > 0
  BY OpenedFacts DEF Told
<1>4. /\ Opened.update = IF Told /\ central.plan.kind = "update" THEN central.plan ELSE None
      /\ Opened.map_update = IF Told /\ central.plan.kind = "map" THEN central.plan ELSE None
      /\ Heard.event_counter = conn.event_counter
  BY OpenedFacts, HeardIs
<1> QED BY <1>2, <1>3, <1>4 DEF Applies

\* synchronize, field by field.
LEMMA SynchronizedFacts ==
  ASSUME NEW c \in ActiveConnection
  PROVE  LET s == Synchronize(c)
         IN  /\ s \in ActiveConnection /\ s.reason = c.reason
             /\ s.last_unmapped = c.last_unmapped /\ s.event_counter = c.event_counter
             /\ s.map = c.map /\ s.interval = c.interval /\ s.timeout = c.timeout
             /\ s.update = c.update /\ s.map_update = c.map_update
             /\ s.window = 0 /\ s.silence = c.silence
  BY DEF Synchronize, ActiveConnection

\* handle_ll_control on the indication the Central repeats.  If it is
\* accepted, it is stored and was not late; late by less than half the
\* counter's range it is refused.
LEMMA HandledFacts ==
  ASSUME IInv, Up, Supervised, Planned, ~central.told
  PROVE  LET h == HandleIndication(Heard, central.plan)
         IN  /\ h \in ActiveConnection
             /\ h.reason = None =>
                  /\ central.left >= 0
                  /\ central.plan.kind = "update" =>
                       /\ h = [Heard EXCEPT !.update = central.plan]
                       /\ ConnectionTimingIsValid(central.plan.timing)
                  /\ central.plan.kind = "map" =>
                       /\ h = [Heard EXCEPT !.map_update = central.plan]
                       /\ DataChannelMapIsValid(central.plan.map)
<1> DEFINE plan == central.plan
           error == IF plan.kind = "update" THEN UpdateError(Heard, plan)
                    ELSE MapError(Heard, plan)
           h == HandleIndication(Heard, plan)
<1>0. /\ Heard \in ActiveConnection /\ Heard.reason = None
      /\ Heard.event_counter = conn.event_counter
      /\ Heard.update = None /\ Heard.map_update = None
  BY HeardIs, OpenedFacts DEF Told
<1>1. /\ plan \in UpdateInds \cup MapInds /\ plan # None
      /\ plan.kind = "update" => plan \in UpdateInds
      /\ plan.kind = "map" => plan \in MapInds
      /\ plan.kind \in {"update", "map"}
  <2>1. plan \in UpdateInds \cup MapInds
    BY DEF IInv, TypeOK, CentralSide, Planned
  <2>2. "update" # "map"
    OBVIOUS
  <2>3. \A u \in UpdateInds : u.kind = "update" /\ u # None
    BY IndicationFacts
  <2>4. \A u \in MapInds : u.kind = "map" /\ u # None
    BY IndicationFacts
  <2> QED BY <2>1, <2>2, <2>3, <2>4
<1>2. error \in {None, \h1e, \h28}
  BY DEF UpdateError, MapError
<1>3. h = IF error # None THEN [Heard EXCEPT !.reason = error]
          ELSE IF plan.kind = "update" THEN [Heard EXCEPT !.update = plan]
          ELSE [Heard EXCEPT !.map_update = plan]
  BY <1>0 DEF HandleIndication
<1>4. error = None =>
        /\ ~InstantPassed(conn.event_counter, plan.instant)
        /\ plan.kind = "update" => ConnectionTimingIsValid(plan.timing)
        /\ plan.kind = "map" => DataChannelMapIsValid(plan.map)
  <2>1. None # \h1e /\ None # \h28
    BY NoneAssumption
  <2> QED BY <1>0, <1>1, <2>1 DEF UpdateError, MapError
<1>5. ASSUME central.left < 0 PROVE InstantPassed(conn.event_counter, plan.instant)
  <2> DEFINE a == -central.left
             half == EventModulus \div 2
  <2>1. /\ conn.event_counter \in Counters /\ central.left \in Int
        /\ conn.interval \in Nat /\ conn.timeout \in Nat /\ conn.silence \in Nat
        /\ plan.instant = (conn.event_counter + central.left) % EventModulus
        /\ central.left < EventModulus
    BY ConnFacts DEF IInv, TypeOK, UpInv, PlanInv, CentralSide
  <2>2. a \in Nat /\ half \in Nat /\ central.left <= 0
    BY <1>5, <2>1, Constants
  <2>3. /\ a * conn.interval * Slot <= conn.silence
        /\ conn.interval > 0 /\ conn.timeout * 8 <= conn.interval * half
    BY <2>2 DEF IInv, UpInv, StoredInv, ValidInv
  <2>4. conn.silence < conn.timeout * 10000
    BY DEF Supervised
  <2>5. a < half
    <3> DEFINE i == conn.interval
               t == conn.timeout
               z == conn.silence
               x == a * i
               y == i * half
    <3>1. /\ a \in Nat /\ half \in Nat /\ i \in Nat /\ t \in Nat /\ z \in Nat
          /\ a * i * Slot <= z /\ i > 0 /\ t * 8 <= i * half /\ z < t * 10000
      BY <2>1, <2>2, <2>3, <2>4
    <3> HIDE DEF a, half, i, t, z
    <3>2. x \in Nat /\ y \in Nat
      BY <3>1
    <3>3. x * 1250 <= z /\ t * 8 <= y
      BY <3>1 DEF Slot
    <3>4. x = a * i /\ y = i * half
      OBVIOUS
    <3> HIDE DEF x, y
    <3>5. x < y
      BY <3>1, <3>2, <3>3
    <3> QED BY <3>1, <3>4, <3>5, Cancelled
  <2> QED BY <1>5, <2>1, <2>5, InstantFacts
<1> HIDE DEF error, plan
<1>6. CASE error # None
  <2>1. h \in ActiveConnection /\ h.reason = error
    BY <1>0, <1>2, <1>3, <1>6 DEF ActiveConnection
  <2> QED BY <1>6, <2>1 DEF plan
<1>7. CASE error = None
  <2>1. central.left >= 0
    <3>1. central.left \in Int
      BY DEF IInv, TypeOK, CentralSide
    <3> QED BY <1>4, <1>5, <1>7, <3>1
  <2>2. CASE plan.kind = "update"
    <3>1. h = [Heard EXCEPT !.update = plan]
      BY <1>3, <1>7, <2>2
    <3>2. h \in ActiveConnection
      BY <1>0, <1>1, <2>2, <3>1 DEF ActiveConnection
    <3>3. plan.kind # "map"
      BY <2>2
    <3> QED BY <1>4, <1>7, <2>1, <2>2, <3>1, <3>2, <3>3 DEF plan
  <2>3. CASE plan.kind = "map"
    <3>1. h = [Heard EXCEPT !.map_update = plan] /\ plan.kind # "update"
      BY <1>3, <1>7, <2>3
    <3>2. h \in ActiveConnection
      BY <1>0, <1>1, <2>3, <3>1 DEF ActiveConnection
    <3> QED BY <1>4, <1>7, <2>1, <2>3, <3>1, <3>2 DEF plan
  <2> QED BY <1>1, <2>2, <2>3
<1> QED BY <1>6, <1>7
\* A good event: with the indication or without, the link goes on in step or
\* ends.
LEMMA HearEventKeeps ==
  ASSUME IInv, NEW carries \in BOOLEAN, HearEvent(carries)
  PROVE  IInv'
<1> DEFINE h == IF carries THEN HandleIndication(Heard, central.plan) ELSE Heard
           a == ApplyInstants(h)
           c == Synchronize(a)
           told == central.told \/ carries
<1>0. /\ Up /\ Supervised /\ TypeOK /\ PhaseInv /\ PlanInv /\ AgreeInv
      /\ carries = ~central.told \/ (central.left > 0 /\ ~carries)
      /\ missed' = FALSE
      /\ IF c.reason = None THEN Follow(c, 0, told)
         ELSE conn' = c /\ UNCHANGED <<request, central, offset>>
      /\ central.told \in BOOLEAN /\ central.left \in Int
  BY DEF HearEvent, IInv, UpInv, Heard, TypeOK, CentralSide
<1>1. /\ carries => Planned /\ ~central.told
      /\ ~carries => central.told \/ central.left > 0
  BY <1>0 DEF PlanInv
<1>2. /\ Heard \in ActiveConnection /\ Heard.reason = None
      /\ Heard.last_unmapped = (request.hop * (central.event + 1)) % Channels
      /\ Heard.event_counter = conn.event_counter
      /\ Heard.map = Opened.map /\ Heard.interval = Opened.interval
      /\ Heard.timeout = Opened.timeout
      /\ Heard.update = Opened.update /\ Heard.map_update = Opened.map_update
      /\ Heard.window = 0 /\ Heard.silence = 0
  BY <1>0, HeardIs
<1>3. h \in ActiveConnection
  BY <1>0, <1>1, <1>2, HandledFacts
<1>4. /\ a \in ActiveConnection /\ a.reason = h.reason
      /\ a.event_counter = h.event_counter /\ a.last_unmapped = h.last_unmapped
      /\ Applies(h, h.map_update) => a.map = h.map_update.map /\ a.map_update = None
      /\ ~Applies(h, h.map_update) => a.map = h.map /\ a.map_update = h.map_update
      /\ Applies(h, h.update) => /\ a.interval = h.update.timing.interval
                                 /\ a.timeout = h.update.timing.timeout
                                 /\ a.silence = 0 /\ a.update = None
      /\ ~Applies(h, h.update) => /\ a.interval = h.interval /\ a.timeout = h.timeout
                                  /\ a.silence = h.silence /\ a.update = h.update
  <2> HIDE DEF h
  <2> QED BY <1>3, AppliedFacts
<1>5. /\ c \in ActiveConnection /\ c.reason = h.reason
      /\ c.last_unmapped = h.last_unmapped /\ c.event_counter = h.event_counter
      /\ c.map = a.map /\ c.interval = a.interval /\ c.timeout = a.timeout
      /\ c.update = a.update /\ c.map_update = a.map_update
      /\ c.window = 0 /\ c.silence = a.silence
  <2> HIDE DEF a
  <2> QED BY <1>4, SynchronizedFacts
<1> HIDE DEF h, a, c
<1>6. CASE c.reason # None
  <2>1. conn' = c /\ UNCHANGED <<request, central, offset>>
    BY <1>0, <1>6
  <2>2. TypeOK'
    BY <1>0, <1>5, <2>1 DEF TypeOK
  <2>3. ~Up'
    BY <1>6, <2>1 DEF Up
  <2> QED BY <2>2, <2>3 DEF IInv
<1>7. CASE c.reason = None
  <2>0. Follow(c, 0, told) /\ h.reason = None
    BY <1>0, <1>5, <1>7
  <2>k. ASSUME Settled(c, told) PROVE IInv'
    <3> DEFINE start == 0
    <3>1. c.window = 0 /\ missed' \in BOOLEAN
      BY <1>0, <1>5
    <3>2. start \in Int /\ 0 <= start /\ start <= c.window /\ Follow(c, start, told)
      BY <2>0, <3>1
    <3> HIDE DEF start, told
    <3> QED BY <1>0, <2>k, <3>1, <3>2, FollowKeeps
  <2>1. CASE ~carries
    <3>1. h = Heard /\ told = central.told
      BY <1>0, <2>1 DEF h
    <3>2. /\ ~Applies(h, h.update) /\ ~Applies(h, h.map_update)
      BY <1>0, <1>2, <3>1, NothingDue
    <3>3. /\ c.map = Opened.map /\ c.interval = Opened.interval
          /\ c.timeout = Opened.timeout
          /\ c.update = Opened.update /\ c.map_update = Opened.map_update
          /\ c.last_unmapped = (request.hop * (central.event + 1)) % Channels
          /\ c.event_counter = conn.event_counter
      BY <1>2, <1>4, <1>5, <3>1, <3>2
    <3>4. Settled(c, told)
      BY <1>0, <1>1, <1>5, <1>7, <2>1, <3>1, <3>3, OpenedSettles
    <3> QED BY <2>k, <3>4
  <2>2. CASE carries
    <3>0. /\ Planned /\ ~central.told /\ told /\ central.left >= 0
          /\ central.plan.kind = "update" =>
               /\ h = [Heard EXCEPT !.update = central.plan]
               /\ ConnectionTimingIsValid(central.plan.timing)
          /\ central.plan.kind = "map" =>
               /\ h = [Heard EXCEPT !.map_update = central.plan]
               /\ DataChannelMapIsValid(central.plan.map)
      BY <1>0, <1>1, <2>0, <2>2, HandledFacts DEF h
    <3>1. /\ Pending(told) <=> central.left > 0
          /\ ~Behind(told) /\ told \in BOOLEAN
          /\ central.left = 0 \/ central.left > 0
          /\ ~(central.left = 0 /\ central.left > 0)
      BY <1>0, <3>0 DEF Pending, Behind
    <3>2. /\ Heard.update = None /\ Heard.map_update = None /\ Sound(Heard)
      BY <1>0, <1>2, <3>0, OpenedFacts DEF Told, Sound
    <3>3. /\ central.left > 0 => central.plan.instant # conn.event_counter
          /\ central.left = 0 => central.plan.instant = conn.event_counter
          /\ central.plan # None
      BY <1>0, <3>0, NothingDue DEF Planned
    <3>4. /\ IF central.plan.kind = "map" /\ central.left <= 0
             THEN central.map = central.plan.map ELSE Heard.map = central.map
          /\ IF central.plan.kind = "update" /\ central.left <= 0
             THEN central.interval = central.plan.timing.interval
             ELSE Heard.interval = central.interval
      BY <1>0, <1>2, <3>0 DEF AgreeInv, Late
    <3>5. central.left <= 0 <=> central.left = 0
      BY <1>0, <3>0
    <3>6. CASE central.plan.kind = "update"
      <4>1. h = [Heard EXCEPT !.update = central.plan] /\ central.plan.kind # "map"
        BY <3>0, <3>6
      <4>2. /\ h.update = central.plan /\ h.map_update = None
            /\ h.event_counter = conn.event_counter /\ h.interval = Heard.interval
            /\ h.timeout = Heard.timeout /\ h.map = Heard.map
            /\ h.last_unmapped = Heard.last_unmapped
        BY <1>2, <3>2, <4>1 DEF ActiveConnection
      <4>3. ~Applies(h, h.map_update) /\ (Applies(h, h.update) <=> central.left = 0)
        BY <3>1, <3>3, <4>2 DEF Applies
      <4>4. /\ c.map = central.map /\ c.interval = central.interval
            /\ c.update = (IF central.left > 0 THEN central.plan ELSE None)
            /\ c.map_update = None
        BY <1>4, <1>5, <3>1, <3>4, <3>5, <3>6, <4>1, <4>2, <4>3
      <4>5. Sound(c)
        <5>1. central.plan \in UpdateInds
          <6>1. h.update \in UpdateInds \cup {None}
            BY <1>3, ConnFacts
          <6> QED BY <3>3, <4>2, <6>1
        <5>2. /\ central.plan.timing.interval > 0
              /\ central.plan.timing.timeout * 8
                   <= central.plan.timing.interval * (EventModulus \div 2)
          BY <3>0, <3>6, <5>1, StoredFacts
        <5> QED BY <1>4, <1>5, <3>2, <4>2, <4>3, <5>2 DEF Sound
      <4>6. Settled(c, told)
        BY <1>2, <1>4, <1>5, <1>7, <3>0, <3>1, <3>6, <4>1, <4>2, <4>4, <4>5 DEF Settled
      <4> QED BY <2>k, <4>6
    <3>7. CASE central.plan.kind = "map"
      <4>1. h = [Heard EXCEPT !.map_update = central.plan] /\ central.plan.kind # "update"
        BY <3>0, <3>7
      <4>2. /\ h.map_update = central.plan /\ h.update = None
            /\ h.event_counter = conn.event_counter /\ h.interval = Heard.interval
            /\ h.timeout = Heard.timeout /\ h.map = Heard.map
            /\ h.last_unmapped = Heard.last_unmapped
        BY <1>2, <3>2, <4>1 DEF ActiveConnection
      <4>3. ~Applies(h, h.update) /\ (Applies(h, h.map_update) <=> central.left = 0)
        BY <3>1, <3>3, <4>2 DEF Applies
      <4>4. /\ c.map = central.map /\ c.interval = central.interval
            /\ c.map_update = (IF central.left > 0 THEN central.plan ELSE None)
            /\ c.update = None
        BY <1>4, <1>5, <3>1, <3>4, <3>5, <3>7, <4>1, <4>2, <4>3
      <4>5. Sound(c)
        BY <1>4, <1>5, <3>0, <3>2, <3>7, <4>2, <4>3 DEF Sound
      <4>6. Settled(c, told)
        BY <1>2, <1>4, <1>5, <1>7, <3>0, <3>1, <3>7, <4>1, <4>2, <4>4, <4>5 DEF Settled
      <4> QED BY <2>k, <4>6
    <3>8. central.plan.kind \in {"update", "map"}
      <4>1. central.plan \in UpdateInds \cup MapInds
        BY <1>0, <3>0 DEF TypeOK, CentralSide, Planned
      <4> QED BY <4>1, IndicationFacts
    <3> QED BY <3>6, <3>7, <3>8
  <2> QED BY <2>1, <2>2
<1> QED BY <1>6, <1>7
-----------------------------------------------------------------------------
(***************************************************************************)
(* The other actions, and the theorems.                                    *)
(***************************************************************************)
\* A new connection: nothing is planned, and the first packet comes in the
\* transmit window of the request.
LEMMA InitKeeps ==
  Init => IInv
<1> SUFFICES ASSUME Init PROVE IInv
  OBVIOUS
<1> DEFINE r == request
           t == request.timing
<1>1. /\ r \in Acceptable /\ conn = NewFor(r) /\ central = NewCentral(r)
      /\ missed = FALSE
  BY DEF Init
<1>2. /\ r.hop \in Nat /\ r.map \in SUBSET ChannelSet
      /\ DataChannelMapIsValid(r.map) /\ ConnectionTimingIsValid(t)
      /\ t.timeout * 8 <= t.interval * (EventModulus \div 2)
      /\ t.window_size \in Nat /\ t.window_offset \in Nat
      /\ t.interval \in Nat /\ t.timeout \in Nat
  BY <1>1, RequestFacts DEF Timing
<1>3. t.interval > 0
  <2>1. t.interval \in 6 .. 3200
    BY <1>2 DEF ConnectionTimingIsValid
  <2> DEFINE i == t.interval
  <2>2. i \in 6 .. 3200
    BY <2>1
  <2>3. i > 0
    <3> HIDE DEF i
    <3> QED BY <2>2
  <2> QED BY <2>3
<1>4. PICK place \in 0 .. t.window_size : offset = place * Slot
  BY DEF Init
<1>5. /\ conn.event_counter = 0 /\ conn.last_unmapped = 0 /\ conn.map = r.map
      /\ conn.interval = t.interval /\ conn.timeout = t.timeout
      /\ conn.window = t.window_size * Slot
      /\ conn.update = None /\ conn.map_update = None /\ conn.reason = None
      /\ central.event = 0 /\ central.map = r.map /\ central.interval = t.interval
      /\ central.plan = None /\ central.left = 0 /\ central.told = TRUE
  BY <1>1 DEF NewFor, NewCentral
<1>6. conn \in ActiveConnection
  <2> DEFINE w == t.window_size * Slot
             e == (t.window_offset + 1) * Slot
  <2>1. w \in Nat /\ e \in Nat
    BY <1>2 DEF Slot
  <2>2. conn = [event_counter |-> 0, last_unmapped |-> 0, map |-> r.map,
                interval |-> t.interval, timeout |-> t.timeout, window |-> w,
                elapsed |-> e, silence |-> e,
                update |-> None, map_update |-> None, reason |-> None]
    BY <1>1 DEF NewFor
  <2> HIDE DEF w, e
  <2> QED BY <1>2, <2>1, <2>2, Constants DEF ActiveConnection
<1>7. central \in CentralSide
  <2>1. TRUE \in BOOLEAN
    OBVIOUS
  <2> QED BY <1>1, <1>2, <2>1 DEF NewCentral, CentralSide
<1>8. TypeOK
  <2>1. offset \in Int
    BY <1>2, <1>4 DEF Slot
  <2>2. missed \in BOOLEAN
    BY <1>1
  <2> QED BY <1>1, <1>6, <1>7, <2>1, <2>2 DEF TypeOK
<1>9. PhaseInv
  <2>1. 0 % EventModulus = 0 /\ 0 % Channels = 0
    BY Constants, Near
  <2>2. r.hop * 0 = 0
    BY <1>2
  <2> QED BY <1>5, <2>1, <2>2 DEF PhaseInv
<1>10. ValidInv
  BY <1>2, <1>3, <1>5 DEF ValidInv
<1>11. ~Planned /\ ~Told /\ ~Late("map") /\ ~Late("update")
  BY <1>5 DEF Planned, Told, Late
<1>12. PlanInv /\ StoredInv
  BY <1>5, <1>11 DEF PlanInv, StoredInv
<1>13. /\ Opened.map = conn.map /\ Opened.interval = conn.interval
       /\ Opened.window = conn.window
  <2>1. ~Applies(conn, conn.update) /\ ~Applies(conn, conn.map_update)
    BY <1>5 DEF Applies
  <2> QED BY <1>6, <2>1, AppliedFacts DEF Opened
<1>14. AgreeInv
  BY <1>5, <1>11, <1>13 DEF AgreeInv
<1>15. WindowInv
  BY <1>2, <1>4, <1>5, <1>13 DEF WindowInv, Slot
<1> QED BY <1>8, <1>9, <1>10, <1>12, <1>14, <1>15 DEF IInv, UpInv

\* The next connection starts like the first.
LEMMA ConnectsKeeps ==
  ASSUME NEW r \in Acceptable, Connects(r)
  PROVE  IInv'
<1>1. Init'
  BY DEF Connects, Init
<1>2. Init' => IInv'
  BY InitKeeps, PTL
<1> QED BY <1>1, <1>2

\* A new plan lies ahead, and the Peripheral has not been told.
LEMMA CentralPlansKeeps ==
  ASSUME IInv, NEW delta \in InstantDeltas, NEW ind \in Indications(delta),
         CentralPlans(ind, delta)
  PROVE  IInv'
<1> DEFINE instant == (central.event + delta) % EventModulus
<1>0. /\ Up /\ TypeOK /\ UpInv /\ ~Planned
      /\ central' = [central EXCEPT !.plan = ind, !.left = delta, !.told = FALSE]
      /\ UNCHANGED <<request, conn, offset, missed>>
      /\ central \in CentralSide
  BY DEF CentralPlans, IInv, Up, Planned, TypeOK
<1>1. delta \in Int /\ 0 < delta /\ delta < EventModulus /\ central.event \in Nat
  BY <1>0, Constants DEF CentralSide
<1>2. /\ instant = (conn.event_counter + delta) % EventModulus
      /\ instant \in Counters
  <2>1. conn.event_counter = central.event % EventModulus
    BY <1>0 DEF UpInv, PhaseInv
  <2>2. ((central.event % EventModulus) + delta) % EventModulus = instant
    <3> DEFINE e == central.event
    <3>1. e \in Int
      BY <1>1
    <3> HIDE DEF e
    <3>2. ((e % EventModulus) + delta) % EventModulus = (e + delta) % EventModulus
      BY <1>1, <3>1, Constants, Reduced
    <3> QED BY <3>2 DEF e
  <2>3. conn.event_counter \in Counters
    BY <1>0, ConnFacts DEF TypeOK
  <2> QED BY <1>1, <2>1, <2>2, <2>3, InstantFacts
<1>3. /\ ind \in UpdateInds \cup MapInds /\ ind.instant = instant /\ ind # None
  <2>1. ind \in Updating(instant) \cup Mapping(instant)
    BY DEF Indications
  <2>2. ind.instant = instant
    BY <2>1 DEF Updating, Mapping
  <2>3. ind \in UpdateInds \cup MapInds
    BY <1>2, <2>1, IndicationFacts
  <2> HIDE DEF instant
  <2> QED BY <2>2, <2>3, IndicationFacts
<1> HIDE DEF instant
<1>4. /\ central'.plan = ind /\ central'.left = delta /\ central'.told = FALSE
      /\ central'.event = central.event /\ central'.map = central.map
      /\ central'.interval = central.interval
  BY <1>0 DEF CentralSide
<1>5. central' \in CentralSide
  <2>1. FALSE \in BOOLEAN
    OBVIOUS
  <2> QED BY <1>0, <1>1, <1>3, <2>1 DEF CentralSide
<1>6. TypeOK' /\ (Opened' = Opened)
  BY <1>0, <1>5 DEF TypeOK, Opened
<1>7. Planned' /\ ~Told' /\ ~Late("map")' /\ ~Late("update")'
  BY <1>1, <1>3, <1>4 DEF Planned, Told, Late
<1>8. ~Told /\ ~Late("map") /\ ~Late("update") /\ Informed
  BY <1>0 DEF Told, Late, Informed, UpInv, PlanInv
<1>9. PhaseInv' /\ ValidInv'
  BY <1>0, <1>4 DEF PhaseInv, ValidInv, UpInv
<1>10. PlanInv'
  BY <1>0, <1>1, <1>2, <1>3, <1>4, <1>7 DEF PlanInv
<1>11. StoredInv'
  BY <1>0, <1>1, <1>4, <1>7, <1>8 DEF StoredInv, UpInv
<1>12. AgreeInv' /\ WindowInv'
  BY <1>0, <1>4, <1>6, <1>7, <1>8 DEF AgreeInv, WindowInv, UpInv
<1> QED BY <1>6, <1>9, <1>10, <1>11, <1>12 DEF IInv, UpInv

\* Every step keeps the invariant.
LEMMA StepKeeps ==
  IInv /\ [Next]_vars => IInv'
<1> SUFFICES ASSUME IInv, [Next]_vars PROVE IInv'
  OBVIOUS
<1>1. CASE \E delta \in InstantDeltas : \E ind \in Indications(delta) : CentralPlans(ind, delta)
  BY <1>1, CentralPlansKeeps
<1>2. CASE \E r \in Acceptable : Connects(r)
  BY <1>2, ConnectsKeeps
<1>3. CASE SupervisionTimeout
  <2>1. /\ conn \in ActiveConnection /\ conn' = [conn EXCEPT !.reason = \h08]
        /\ UNCHANGED <<request, central, offset, missed>>
    BY <1>3 DEF SupervisionTimeout, IInv, TypeOK
  <2>2. conn' \in ActiveConnection /\ conn'.reason = \h08
    BY <2>1 DEF ActiveConnection
  <2>3. TypeOK'
    BY <2>1, <2>2 DEF IInv, TypeOK
  <2>4. ~Up'
    BY <2>2, NoneAssumption DEF Up
  <2> QED BY <2>3, <2>4 DEF IInv
<1>4. CASE \E carries \in BOOLEAN : HearEvent(carries)
  BY <1>4, HearEventKeeps
<1>5. CASE MissEvent \/ SkipEvent
  BY <1>5, SilentEventKeeps
<1>6. CASE UNCHANGED vars
  BY <1>6 DEF vars, IInv, TypeOK, UpInv, PhaseInv, ValidInv, PlanInv, StoredInv, AgreeInv,
              WindowInv, Up, Planned, Told, Late, Informed, Opened
<1> QED BY <1>1, <1>2, <1>3, <1>4, <1>5, <1>6 DEF Next

\* The inductive invariant: both sides count, hop and change together.
THEOREM TimingInvariant == Spec => []IInv
<1>1. Init => IInv
  BY InitKeeps
<1>2. IInv /\ [Next]_vars => IInv'
  BY StepKeeps
<1> QED BY <1>1, <1>2, PTL DEF Spec

\* Every variable keeps its type.
THEOREM TimingTypes == Spec => []TypeOK
<1>1. IInv => TypeOK
  BY DEF IInv
<1> QED BY <1>1, TimingInvariant, PTL

\* The Peripheral listens on the channel on which the Central transmits.
THEOREM TimingHop == Spec => []HopInStep
<1>1. IInv => HopInStep
  <2> SUFFICES ASSUME IInv, Up, Informed PROVE ChannelOf(Opened) = CentralChannel
    BY DEF HopInStep
  <2> DEFINE map == central.map
             u == (request.hop * (central.event + 1)) % Channels
             k == u % Cardinality(map)
  <2>1. Opened.map = map /\ map \in SUBSET ChannelSet /\ DataChannelMapIsValid(map)
    <3>1. ~Late("map")
      <4>1. central.left \in Int
        BY DEF IInv, TypeOK, CentralSide
      <4> QED BY <4>1 DEF Late, Informed
    <3> QED BY <3>1, OpenedFacts DEF IInv, UpInv, AgreeInv, TypeOK, CentralSide, Sound
  <2>2. NextUnmapped(Opened) = u
    <3>1. TypeOK /\ PhaseInv /\ Opened.last_unmapped = conn.last_unmapped
      BY OpenedFacts DEF IInv, UpInv
    <3> QED BY <3>1, PhaseStep DEF NextUnmapped
  <2>3. u \in Int /\ Cardinality(map) \in Nat \ {0}
    <3>1. Cardinality(map) \in Nat /\ Cardinality(map) >= 2
      BY <2>1, RankFacts DEF DataChannelMapIsValid
    <3>2. u \in ChannelSet
      BY HeardFacts, ConnFacts
    <3> QED BY <3>1, <3>2, Constants DEF ChannelSet
  <2>4. k \in 0 .. Cardinality(map) - 1
    <3> HIDE DEF u, map
    <3> QED BY <2>3, Division
  <2>5. Used(map)[k + 1] = CHOOSE ch \in map : Cardinality({x \in map : x < ch}) = k
    <3> HIDE DEF k, map
    <3> QED BY <2>1, <2>4, TableIsClosedForm
  <2> QED BY <2>1, <2>2, <2>5 DEF ChannelOf, CentralChannel
<1> QED BY <1>1, TimingInvariant, PTL

\* The parts of the window, for what connection_event opens.
LEMMA CoverFacts ==
  ASSUME IInv, Up, Informed, ~missed, NEW drift \in Drifts(conn)
  PROVE  LET w == WindowWidening(conn.elapsed, request.sca)
         IN  /\ w \in Nat /\ drift \in Int /\ -w <= drift /\ drift <= w
             /\ 0 <= offset /\ offset <= Opened.window
             /\ Opened.window \in Nat /\ offset \in Int
<1> DEFINE w == WindowWidening(conn.elapsed, request.sca)
           b == (conn.elapsed * TotalPpm(request.sca)) \div Million
<1>1. conn.elapsed \in Nat /\ request.sca \in 0 .. 7 /\ offset \in Int
  BY ConnFacts, RequestFacts DEF IInv, TypeOK
<1>2. w \in Nat /\ b \in Nat /\ b <= w
  BY <1>1, WideningCoversDrift
<1>3. drift \in {-b, 0, b}
  BY DEF Drifts
<1> HIDE DEF w, b
<1>4. drift \in Int /\ -w <= drift /\ drift <= w
  BY <1>2, <1>3
<1>5. 0 <= offset /\ offset <= Opened.window
  BY DEF IInv, UpInv, WindowInv
<1>6. Opened.window \in Nat
  BY OpenedFacts, ConnFacts
<1> QED BY <1>1, <1>2, <1>4, <1>5, <1>6 DEF w

\* The Central's packet falls into the receive window, whole, unless the event
\* that used the transmit window up heard nothing (`missed`).
THEOREM TimingWindow == Spec => []WindowCoversCentral
<1>1. IInv => WindowCoversCentral
  <2> SUFFICES ASSUME IInv, Up, Informed, ~missed, NEW drift \in Drifts(conn)
               PROVE  Covered(Opened, drift)
    BY DEF WindowCoversCentral
  <2> DEFINE w == WindowWidening(conn.elapsed, request.sca)
             o == Opened.window
  <2>1. /\ w \in Nat /\ drift \in Int /\ -w <= drift /\ drift <= w
        /\ 0 <= offset /\ offset <= o /\ o \in Nat /\ offset \in Int
    BY CoverFacts
  <2>2. Widening(Opened) = w
    BY OpenedFacts DEF Widening
  <2>3. ~Applies(Opened, Opened.update)
    <3>1. Opened.event_counter = Heard.event_counter
      BY OpenedFacts, HeardIs
    <3> QED BY <3>1, NothingDue DEF Applies
  <2> HIDE DEF w
  <2>4. /\ ReceiveOpen(Opened) = -(1000 + w)
        /\ ReceiveClose(Opened) = w + o + 296
        /\ ReceiveTimeout(Opened) = 1000 + 2 * w + o + 296
    BY <2>2, <2>3 DEF ReceiveOpen, ReceiveClose, ReceiveTimeout, RX_SETUP_LEAD_US,
                      MAX_DATA_PACKET_AIRTIME_US
  <2> HIDE DEF o
  <2> QED BY <2>1, <2>4 DEF Covered, RX_SETUP_LEAD_US, MAX_DATA_PACKET_AIRTIME_US
<1> QED BY <1>1, TimingInvariant, PTL

\* No event is skipped whose packet may still come.
THEOREM TimingSkips == Spec => []SkipsOnlyPastEvents
<1>1. IInv => SkipsOnlyPastEvents
  <2> SUFFICES ASSUME IInv, Up, Informed, ~missed, NEW drift \in Drifts(conn)
               PROVE  offset + drift + MAX_DATA_PACKET_AIRTIME_US <= ReceiveClose(conn)
    BY DEF SkipsOnlyPastEvents
  <2> DEFINE w == WindowWidening(conn.elapsed, request.sca)
             o == Opened.window
  <2>1. /\ w \in Nat /\ drift \in Int /\ drift <= w
        /\ offset <= o /\ o \in Nat /\ offset \in Int
    BY CoverFacts
  <2>2. ReceiveClose(conn) = w + o + 296
    <3>1. conn \in ActiveConnection
      BY DEF IInv, TypeOK
    <3>2. o = IF Applies(conn, conn.update) THEN conn.update.timing.window_size * Slot
              ELSE conn.window
      BY <3>1, AppliedFacts DEF Opened
    <3> HIDE DEF o
    <3> QED BY <3>2 DEF ReceiveClose, Widening, MAX_DATA_PACKET_AIRTIME_US
  <2> HIDE DEF o, w
  <2> QED BY <2>1, <2>2 DEF MAX_DATA_PACKET_AIRTIME_US
<1> QED BY <1>1, TimingInvariant, PTL
=============================================================================
