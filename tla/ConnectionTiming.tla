-------------------------- MODULE ConnectionTiming --------------------------
(***************************************************************************)
(* How a Peripheral stays with its Central: the anchors and receive        *)
(* windows of ActiveConnection, Channel Selection Algorithm #1 and the     *)
(* instants at which LL_CONNECTION_UPDATE_IND and LL_CHANNEL_MAP_IND take  *)
(* effect.                                                                 *)
(*                                                                         *)
(* One step is one connection event of the Central.  The Peripheral hears  *)
(* it, opens its window and hears nothing, or skips the event because the  *)
(* executor was held past its window.  Times are in microseconds of the    *)
(* Peripheral's clock and relative: `elapsed` is next_anchor -             *)
(* last_sync_anchor, `silence` the time since supervision_deadline was     *)
(* armed and `offset` how far after next_anchor the Central will transmit, *)
(* clock drift aside.                                                      *)
(*                                                                         *)
(* The Central's side is external: it keeps the event count itself, takes  *)
(* its channel from the closed form of the algorithm, places its first     *)
(* packet after a new window offset anywhere in the transmit window and    *)
(* repeats an indication until it is heard.  It is one drift away from its *)
(* nominal time, bounded by the two sleep-clock accuracies; the drift over *)
(* the transmit window itself (a few microseconds) is left out, and so is  *)
(* the reception of an event with another number after the two sides have  *)
(* lost each other.  The procedure owners are in module Connection.        *)
(***************************************************************************)
EXTENDS Integers, FiniteSets

CONSTANTS
  EventModulus,    \* 65536: event counters and instants are u16 and wrap
  Channels,        \* 37 data channels
  Requests,        \* the CONNECT_INDs received (bounds the model)
  Updates,         \* the timings of the Central's update indications (bounds the model)
  Maps,            \* the maps of its channel-map indications (bounds the model)
  InstantDeltas,   \* how far ahead it places an instant (bounds the model)
  None             \* no indication, no disconnect reason

Slot == 1250                          \* the unit of windows and intervals
Million == 1000000
RX_SETUP_LEAD_US == 1000
LOCAL_SLEEP_CLOCK_PPM == 50
MAX_DATA_PACKET_AIRTIME_US == 296     \* (1 + 4 + 2 + 27 + 3) * 8

Counters == 0 .. EventModulus - 1
ChannelSet == 0 .. Channels - 1
Timing == [window_size : Nat, window_offset : Nat, interval : Nat,
           latency : Nat, timeout : Nat]

ASSUME TimingAssumption ==
  /\ EventModulus \in Nat /\ EventModulus >= 6 /\ EventModulus % 2 = 0
  /\ Channels \in Nat /\ Channels >= 2
  /\ Updates \subseteq Timing
  /\ Requests \subseteq [timing : Timing, map : SUBSET ChannelSet, hop : Nat,
                         sca : 0 .. 7, access_address_valid : BOOLEAN]
  /\ Maps \subseteq SUBSET ChannelSet
  /\ InstantDeltas \subseteq 1 .. EventModulus - 1

Updating(instant) == [kind : {"update"}, timing : Updates, instant : {instant}]
Mapping(instant) == [kind : {"map"}, map : Maps, instant : {instant}]
UpdateInds == UNION {Updating(instant) : instant \in Counters}
MapInds == UNION {Mapping(instant) : instant \in Counters}

\* The timing fields of ActiveConnection, and what the Central keeps.
ActiveConnection ==
  [event_counter : Counters, last_unmapped : ChannelSet,
   map : SUBSET ChannelSet, interval : Nat, timeout : Nat,
   window : Nat, elapsed : Nat, silence : Nat,
   update : UpdateInds \cup {None}, map_update : MapInds \cup {None},
   reason : {None, \h08, \h1e, \h28}]
CentralSide ==
  [event : Nat, map : SUBSET ChannelSet, interval : Nat,
   plan : UpdateInds \cup MapInds \cup {None}, left : Int, told : BOOLEAN]

ASSUME NoneAssumption ==
  None \notin Int /\ None \notin UpdateInds /\ None \notin MapInds

VARIABLES
  request,    \* the CONNECT_IND: only its hop and sca are still read
  conn,       \* the timing fields of the ActiveConnection
  central,    \* the Central: [event, map, interval, plan, left, told]
  offset,     \* the Central's next packet, relative to next_anchor
  missed      \* an event with an open transmit window was heard by nobody

vars == <<request, conn, central, offset, missed>>
-----------------------------------------------------------------------------
(***************************************************************************)
(* Parameters and instants.                                                *)
(***************************************************************************)
ConnectionTimingIsValid(t) ==
  /\ t.window_size \in 1 .. 8
  /\ t.interval \in 6 .. 3200
  /\ t.window_offset <= t.interval
  /\ t.window_size < t.interval
  /\ t.latency <= 499
  /\ t.timeout \in 10 .. 3200
  /\ t.timeout * 8 > 2 * (t.latency + 1) * t.interval

DataChannelMapIsValid(map) == Cardinality(map) >= 2

\* A link on which nothing is heard is given up before an instant the
\* Peripheral was not told of, passed by half the counter's range, looks like
\* a future one.  The code's limits imply it: 3200 * 8 <= 6 * 32768.
ASSUME SupervisionAssumption ==
  \A t \in Updates \cup {r.timing : r \in Requests} :
    ConnectionTimingIsValid(t) => t.timeout * 8 <= t.interval * (EventModulus \div 2)

\* parse_connect_ind_detailed, for a request that names this advertiser.
ParseConnectInd(r) ==
  /\ r.access_address_valid
  /\ r.hop \in 5 .. 16
  /\ ConnectionTimingIsValid(r.timing)
  /\ DataChannelMapIsValid(r.map)

\* classify_instant.
InstantPassed(counter, instant) ==
  (instant - counter) % EventModulus > EventModulus \div 2 - 2

SleepClockAccuracyPpm == <<500, 250, 150, 100, 75, 50, 30, 20>>
TotalPpm(sca) == SleepClockAccuracyPpm[sca + 1] + LOCAL_SLEEP_CLOCK_PPM

DivCeil(a, b) == (a + b - 1) \div b

\* window_widening_us: the drift since the last synchronisation, rounded up.
WindowWidening(span, sca) ==
  (span \div Million) * TotalPpm(sca)
    + DivCeil((span % Million) * TotalPpm(sca), Million)
-----------------------------------------------------------------------------
(***************************************************************************)
(* ChannelSelection1.                                                      *)
(***************************************************************************)
\* The table of used channels, ascending.
Used(map) ==
  CHOOSE table \in [1 .. Cardinality(map) -> map] :
    \A i, j \in 1 .. Cardinality(map) : i < j => table[i] < table[j]

NextUnmapped(c) == (c.last_unmapped + request.hop) % Channels

\* The channel next_channel returns.
ChannelOf(c) ==
  LET unmapped == NextUnmapped(c)
  IN  IF unmapped \in c.map THEN unmapped
      ELSE Used(c.map)[(unmapped % Cardinality(c.map)) + 1]

NextChannel(c) == [c EXCEPT !.last_unmapped = NextUnmapped(c)]

\* Mutant of UpdateMap: the selector is rebuilt, its phase with it.
UpdateMapRebuilds(c, map) == [c EXCEPT !.map = map, !.last_unmapped = 0]

UpdateMap(c, map) == [c EXCEPT !.map = map]
-----------------------------------------------------------------------------
(***************************************************************************)
(* The receive window, relative to next_anchor.                            *)
(***************************************************************************)
Widening(c) == WindowWidening(c.elapsed, request.sca)

ReceiveOpen(c) == -(RX_SETUP_LEAD_US + Widening(c))

Applies(c, update) == update # None /\ update.instant = c.event_counter

\* Mutant of ReceiveClose: the window of an update that is due is ignored.
ReceiveCloseIgnoresUpdate(c) ==
  Widening(c) + c.window + MAX_DATA_PACKET_AIRTIME_US

ReceiveClose(c) ==
  Widening(c)
    + (IF Applies(c, c.update) THEN c.update.timing.window_size * Slot ELSE c.window)
    + MAX_DATA_PACKET_AIRTIME_US

\* The time take_receive_timeout allows; it uses up the transmit window.
ReceiveTimeout(c) ==
  RX_SETUP_LEAD_US + 2 * Widening(c) + c.window + MAX_DATA_PACKET_AIRTIME_US

TakeReceiveTimeout(c) == [c EXCEPT !.window = 0]
-----------------------------------------------------------------------------
(***************************************************************************)
(* Instants and anchors.                                                   *)
(***************************************************************************)
ApplyInstants(c) ==
  LET mapped == IF Applies(c, c.map_update)
                THEN [UpdateMap(c, c.map_update.map) EXCEPT !.map_update = None]
                ELSE c
      timing == c.update.timing
  IN  IF Applies(c, c.update)
      THEN [mapped EXCEPT !.window = timing.window_size * Slot,
                          !.interval = timing.interval,
                          !.timeout = timing.timeout,
                          !.silence = 0,
                          !.update = None]
      ELSE mapped

Synchronize(c) == [c EXCEPT !.elapsed = 0, !.window = 0]

\* Mutant of AnchorStep: the window offset is not added.
AnchorStepWithoutOffset(c) == c.interval * Slot

\* How far schedule_following_event moves next_anchor: the interval, and the
\* window offset of an update whose instant is the next event.
AnchorStep(c) ==
  LET next == (c.event_counter + 1) % EventModulus
  IN  IF c.update # None /\ c.update.instant = next
      THEN (c.interval + c.update.timing.window_offset) * Slot
      ELSE c.interval * Slot

ScheduleFollowingEvent(c) ==
  [c EXCEPT !.event_counter = (@ + 1) % EventModulus,
            !.elapsed = @ + AnchorStep(c),
            !.silence = @ + AnchorStep(c)]

\* ConnectionUpdateInd::parse: the reason its error ends the link with.
UpdateError(c, ind) ==
  IF ~ConnectionTimingIsValid(ind.timing) THEN \h1e
  ELSE IF InstantPassed(c.event_counter, ind.instant) THEN \h28
  ELSE None

\* ChannelMapInd::parse.
MapError(c, ind) ==
  IF ~DataChannelMapIsValid(ind.map) THEN \h1e
  ELSE IF InstantPassed(c.event_counter, ind.instant) THEN \h28
  ELSE None

\* handle_ll_control, opcodes 0x00 and 0x01: an indication that parses must
\* not find one of its kind pending.
HandleIndication(c, ind) ==
  LET update == ind.kind = "update"
      error == IF update THEN UpdateError(c, ind) ELSE MapError(c, ind)
      pending == IF update THEN c.update ELSE c.map_update
  IN  IF error # None THEN [c EXCEPT !.reason = error]
      ELSE IF pending # None THEN [c EXCEPT !.reason = \h1e]
      ELSE IF update THEN [c EXCEPT !.update = ind]
      ELSE [c EXCEPT !.map_update = ind]
-----------------------------------------------------------------------------
(***************************************************************************)
(* The Central.                                                            *)
(***************************************************************************)
\* The closed form of the algorithm for the Central's current event.
CentralChannel ==
  LET unmapped == (request.hop * (central.event + 1)) % Channels
      index == unmapped % Cardinality(central.map)
  IN  IF unmapped \in central.map THEN unmapped
      ELSE CHOOSE ch \in central.map :
             Cardinality({x \in central.map : x < ch}) = index

\* How far the two clocks may be apart, in whole microseconds.
Drifts(c) ==
  LET bound == (c.elapsed * TotalPpm(request.sca)) \div Million
  IN  {-bound, 0, bound}

CentralPlans(ind, delta) ==
  /\ conn.reason = None /\ central.plan = None
  /\ central' = [central EXCEPT
                   !.plan = ind, !.left = delta, !.told = FALSE]
  /\ UNCHANGED <<request, conn, offset, missed>>

\* The Central's next event: it follows its own indication at the instant,
\* whether or not the Peripheral has been told.
CentralMoves(told) ==
  LET left == central.left - 1
      due == central.plan # None /\ left = 0
  IN  [central EXCEPT
         !.event = (@ + 1) % (EventModulus * Channels),
         !.map = IF due /\ central.plan.kind = "map" THEN central.plan.map ELSE @,
         !.interval = IF due /\ central.plan.kind = "update"
                      THEN central.plan.timing.interval ELSE @,
         !.plan = IF told /\ left <= 0 THEN None ELSE @,
         !.left = IF central.plan = None \/ (told /\ left <= 0) THEN 0 ELSE left,
         !.told = told]

\* Where the Central's next transmit window lets it place its packet, beyond
\* its interval.
Placements ==
  IF central.plan # None /\ central.left = 1 /\ central.plan.kind = "update"
  THEN {(central.plan.timing.window_offset + place) * Slot :
          place \in 0 .. central.plan.timing.window_size}
  ELSE {0}
-----------------------------------------------------------------------------
(***************************************************************************)
(* run_connection: one action per way an event can go.                     *)
(***************************************************************************)
Up == conn.reason = None
Supervised == conn.silence < conn.timeout * 10000

NewFor(r) ==
  [event_counter |-> 0, last_unmapped |-> 0, map |-> r.map,
   interval |-> r.timing.interval, timeout |-> r.timing.timeout,
   window |-> r.timing.window_size * Slot,
   elapsed |-> (r.timing.window_offset + 1) * Slot,
   silence |-> (r.timing.window_offset + 1) * Slot,
   update |-> None, map_update |-> None, reason |-> None]

NewCentral(r) ==
  [event |-> 0, map |-> r.map, interval |-> r.timing.interval,
   plan |-> None, left |-> 0, told |-> TRUE]

Acceptable == {r \in Requests : ParseConnectInd(r)}

Init ==
  /\ request \in Acceptable
  /\ conn = NewFor(request)
  /\ central = NewCentral(request)
  /\ offset \in {place * Slot : place \in 0 .. request.timing.window_size}
  /\ missed = FALSE

\* The next CONNECT_IND, once the link is gone.
Connects(r) ==
  /\ ~Up
  /\ request' = r
  /\ conn' = NewFor(r)
  /\ central' = NewCentral(r)
  /\ offset' \in {place * Slot : place \in 0 .. r.timing.window_size}
  /\ missed' = FALSE

SupervisionTimeout ==
  /\ Up /\ ~Supervised
  /\ conn' = [conn EXCEPT !.reason = \h08]
  /\ UNCHANGED <<request, central, offset, missed>>

\* schedule_following_event after an event in which the Central was `start`
\* after the anchor, and the Central's way to its next event.
Follow(c, start, told) ==
  /\ conn' = ScheduleFollowingEvent(c)
  /\ central' = CentralMoves(told)
  /\ \E place \in Placements :
       offset' = start + central.interval * Slot + place - AnchorStep(c)
  /\ UNCHANGED request

\* What connection_event opens: the instants are applied first.
Opened == ApplyInstants(conn)

\* The Central's packet, sent `drift` off its nominal time, is received whole.
Covered(c, drift) ==
  LET at == offset + drift
  IN  /\ ReceiveOpen(c) + RX_SETUP_LEAD_US <= at
      /\ at + MAX_DATA_PACKET_AIRTIME_US <= ReceiveClose(c)
      /\ at + MAX_DATA_PACKET_AIRTIME_US <= ReceiveOpen(c) + ReceiveTimeout(c)

\* A good packet, perhaps with the indication the Central repeats: it is
\* handled, the instants are checked again and the anchor is taken from it.
HearEvent(carries) ==
  LET heard == [TakeReceiveTimeout(NextChannel(Opened)) EXCEPT !.silence = 0]
      handled == IF carries THEN HandleIndication(heard, central.plan) ELSE heard
      c == Synchronize(ApplyInstants(handled))
  IN  /\ Up /\ Supervised
      /\ ChannelOf(Opened) = CentralChannel
      /\ \E drift \in Drifts(Opened) : Covered(Opened, drift)
      /\ carries = ~central.told \/ (central.left > 0 /\ ~carries)
      /\ missed' = FALSE
      /\ IF c.reason = None THEN Follow(c, 0, central.told \/ carries)
         ELSE conn' = c /\ UNCHANGED <<request, central, offset>>

\* The window is opened and nothing good is received.
MissEvent ==
  /\ Up /\ Supervised
  /\ missed' = (missed \/ Opened.window > 0)
  /\ Follow(TakeReceiveTimeout(NextChannel(Opened)), offset, central.told)

\* skip_expired_events, one turn of its loop: the executor was held until
\* after ReceiveClose.
SkipEvent ==
  /\ Up /\ Supervised
  /\ Follow(NextChannel(Opened), offset, central.told)
  /\ UNCHANGED missed

\* What the Central may indicate for the event `delta` after its current one.
Indications(delta) ==
  LET instant == (central.event + delta) % EventModulus
  IN  Updating(instant) \cup Mapping(instant)

Next ==
  \/ \E delta \in InstantDeltas : \E ind \in Indications(delta) : CentralPlans(ind, delta)
  \/ \E r \in Acceptable : Connects(r)
  \/ SupervisionTimeout
  \/ \E carries \in BOOLEAN : HearEvent(carries)
  \/ MissEvent
  \/ SkipEvent

Spec == Init /\ [][Next]_vars
-----------------------------------------------------------------------------
\* Type invariant.
TypeOK ==
  /\ request \in Acceptable
  /\ conn \in ActiveConnection /\ central \in CentralSide
  /\ offset \in Int
  /\ missed \in BOOLEAN

\* The Peripheral has every indication the Central has begun to follow.
Informed == central.told \/ central.left > 0

\* Whatever events are missed or skipped and whenever the map changes, the
\* Peripheral listens on the channel on which the Central transmits: a
\* skipped event moves the selector, a new map does not reset it, and both
\* sides change the map at the same event although the counter wraps.
HopInStep ==
  Up /\ Informed => ChannelOf(Opened) = CentralChannel

\* The Central's packet falls into the receive window, whole, for every
\* drift the two clock accuracies allow: after any number of missed or
\* skipped events, at the first event after CONNECT_IND and at the instant
\* of an update.  `missed` is the exception: take_receive_timeout uses the
\* transmit window up when its event is opened, so if that one packet is
\* lost the Central is outside the window until the widening reaches it.
WindowCoversCentral ==
  Up /\ Informed /\ ~missed => \A drift \in Drifts(conn) : Covered(Opened, drift)

\* skip_expired_events gives up no event whose packet may still come: its
\* test, before the instants are applied, already counts the transmit window
\* of an update that is due.
SkipsOnlyPastEvents ==
  Up /\ Informed /\ ~missed =>
    \A drift \in Drifts(conn) :
      offset + drift + MAX_DATA_PACKET_AIRTIME_US <= ReceiveClose(conn)
=============================================================================
