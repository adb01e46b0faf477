# TLA+ models of ch58x-hal

Specifications, model-checking configurations and proofs for the state machines
of this workspace: the Bluetooth LE controller (`crates/ble-controller`,
`crates/ch58x-ble`), the DataFlash driver (`src/dataflash.rs`) and the UART driver
(`src/uart.rs`). Paths below are relative to the repository root; `PROJECT.json` gives the lines of every
definition.

## The system

A CH585 runs a Bluetooth LE Peripheral controller without a vendor library.

| Component | State | Operations | Hard part |
| --- | --- | --- | --- |
| Transmit plan of a connection event (`ConnectionEventTxState`, `DataSequenceState` in `crates/ble-controller/src/link_layer.rs`) | two payload slots with generations, the unacknowledged owner, the planned decision, SN/NESN | `new_with_owner_tokens`, `with_empty_retry`, `select`, `complete_transmit`, `abort_transmit`, `observe` | lost packets, aborted and late TX completions |
| Procedure owner (`ProcedureManager` in `llcp.rs`) | a local and a remote `ProcedureContext` | start, planned, done, acknowledged, response, instant, timeout, fail | two initiators, collisions, deadlines |
| Connection control plane (`crates/ch58x-ble/src/link_layer.rs`) | `ActiveConnection`: event counter, control queue of two, pending instants, request of the Host, deadlines | `run_connection`, `connection_event`, `handle_ll_control`, connected HCI commands | instants while events are skipped, a full queue, crossing procedures |
| Connection timing (same file; `ChannelSelection1`, `window_widening_us`, `classify_instant` and the validators in `ble-controller/src/link_layer.rs`) | `next_anchor`, `last_sync_anchor`, the transmit window, `last_unmapped`, pending indications | `new_for`, `receive_open`, `receive_close`, `take_receive_timeout`, `apply_instants`, `synchronize`, `schedule_following_event`, `skip_expired_events` | staying on the Central's channel and in its window over missed and skipped events |
| Connection data plane (same file) | ACL queue, transmit frame and owner, SN/NESN | `queue_acl`, `build_transmit_frame`, the acknowledgement and receive halves of `connection_event` | exactly-once over a lossy radio, credits |
| HCI (`controller.rs`, `link_layer/hci.rs`, `ble-controller/src/hci.rs`) | two bounded channels, event masks, `LINK_CONNECTED`, the advertiser | `HciTransport::read/write`, `handle_command`, `handle_connected_command`, `emit_*` | back-pressure in both directions, stale views of the link |
| Radio (`radio.rs`, `radio_rx_status.rs`, `radio_dma_policy.rs`) | status registers, `CAPTURE_SEEN`, `RX_CAPTURE_COUNTDOWN`, DMA buffer | `advertising_exchange`, `exchange`, `receive_blocking`, `transmit_blocking`, interrupt `BLEB` | an interrupt and the baseband between any two register reads |
| DataFlash (`src/dataflash.rs`) | cells, chip select, `GLOBAL_CONFIG` | `read`, `erase`, `write` | a timeout at every wait |
| UART (`src/uart.rs`) | two FIFOs, shift register, line status | `new`, `try_read`, `blocking_read`, `try_write`, `blocking_write_all`, `blocking_flush`, `Drop` | the line moves between two register accesses; read-to-clear errors |
| CRC, whitening, access-address rule, advertising PDUs, RTC, GPIO, ADC, clock, RF bring-up | see `PROJECT.json` | | mostly register sequences or arithmetic |

How they meet: the Host task writes commands and ACL packets into
`HOST_TO_CONTROLLER` (capacity 1) and reads `CONTROLLER_TO_HOST` (capacity 2). The
runner, one Embassy task, takes packets between connection events, sends events
with `.await`, and runs each connection event through `Radio::exchange`. The
interrupt shares the status registers and two atomics with the polling loops. The
procedure owner and the transmit plan are values the runner owns. Nothing is
persisted, so there is no crash recovery; DataFlash is the only durable state, and
its calls may fail part of the way. The UART stands alone.

`PROJECT.json` lists the hazards, line by line, with the properties aimed at each.

## Modules

| Module | Models | Correspondence |
| --- | --- | --- |
| `EventTx` | transmit plan of a multi-PDU event | variables are the fields of `ConnectionEventTxState` and `DataSequenceState`; `Select`, `CompleteTransmit`, `AbortTransmit` are the methods. `late` holds decisions whose TX_DONE interrupt is delayed beyond an abort. The burst backend that calls the plan is not in the repository: `ReceivePacket`, `RadioSends`, `TxDone` and `LateTxDone` are written from what the methods require of it. |
| `EventTxProofs` | | theorems about `EventTx` |
| `Llcp` | `ProcedureManager` | operators from manager to manager, one per method, with the error conditions as `...Ready`/`...Error` operators |
| `Connection` | control plane, composing `Llcp` with the control queue, instants, deadlines and the Host's requests | `conn` is `ActiveConnection`; a stage of a handler is an operator on that record, an action is one pass of the loop of `run_connection` |
| `ConnectionProofs` | | theorems about `Connection` and `Llcp` |
| `AclChannel` | what the data plane promises: a FIFO channel with credits | abstract specification |
| `LinkArq` | data plane | refines `AclChannel` (`ChannelSpec`): the abstract delivery is the step in which the Central accepts a frame |
| `LinkArqProofs` | | theorems about `LinkArq`, among them the refinement |
| `ConnectionTiming`, `MCConnectionTiming` | timing of a link against an independent Central | `conn` has the timing fields of `ActiveConnection`; a step is one event of the Central, heard, missed or skipped. The Central counts its own events and uses the closed form of the channel algorithm, so agreement is not built in. The table of used channels is the increasing enumeration of the map (`Used`) |
| `ConnectionTimingProofs` | | theorems about `ConnectionTiming` |
| `HostInterface` | HCI queues, modes of the runner, commands, masks, successive links | an event that waits for a full channel is in `out`, and the runner is blocked until it is sent; `Outgoing`, the channel followed by `out`, is everything on its way to the Host |
| `HostInterfaceProofs` | | theorems about `HostInterface` |
| `RadioExchange` | four radio operations, the interrupt, the hardware they rely on | `pc` is the place in a polling loop; each register read that can race is a step |
| `RadioExchangeProofs` | | theorems about `RadioExchange` |
| `DataFlash`, `MCDataFlash` | the driver byte by byte, and the chip | `pc` is the place in a transaction; every `ram_wait_*` may time out |
| `DataFlashProofs` | | theorems about `DataFlash` |
| `ByteStream` | what a serial direction promises: in order, at most once, and nothing from behind a loss before the reader was told | abstract specification; the bytes on their way are a set of which the oldest are delivered first |
| `Uart` | the driver and the hardware it polls | each register access is a step; both directions refine `ByteStream` (`ReadsInOrder`, `WritesInOrder`), what a running read has taken counting as still on its way and the shift register as the front of the transmit queue |
| `UartProofs` | | theorems about `Uart`, among them both refinements |

Operators named as mutants in a comment ("Mutant of ...") are plausible wrong
versions of the definition below them. They are never used by a specification;
`PROJECT.json` pairs each with the property that rejects it.

### Abstractions

* Payloads and packets are numbers; PDUs are their opcode class. Formatting and
  parsing are left out, except that a packet may be too long, malformed or broken.
* `Connection` replaces the sequence bits by "the Central has accepted the current
  frame"; `LinkArq` has the bits and leaves out what control PDUs say. Time in
  `Connection` is counted in connection intervals.
* `ConnectionTiming` works in microseconds relative to `next_anchor`. The clocks are
  apart by nothing or by the largest drift of either sign that the two sleep-clock
  accuracies allow since the last synchronisation; the drift across the transmit
  window itself is left out. The supervision timeout is looked at when the next
  anchor is reached, not when the loop comes round. Procedure owners and collisions are in `Connection`.
  Whether an access address is valid is a field of the request.
* `Uart`: a byte is its number in the session, an error has no kind, and pins, remap
  and baud rate are left out. A byte that meets a full receive FIFO is lost and sets
  OVER_ERR; a byte written to a full transmit FIFO is lost silently.
* Tokens: `Connection` reuses the smallest free token; the source's counter repeats
  only after 2^31 control PDUs of one link.
* `priority_control` is never filled by the source and is omitted.
* `Connection` looks at the deadlines after a skipped event, the source before the
  first one it skips. An expired deadline ends the link either way; no property tells
  apart whether the instants of that event were applied first.
* `Llcp` leaves out `expected_response`, which the backend never calls.
* `HostInterface` leaves command parameters out: a command is accepted or refused
  by the state the source tests. Commands that only read or store parameters are
  one class. At most one command is outstanding, as HCI's command credit requires.
  The parameter checks inside a command (such as an Enable byte above 1) are left
  out with the parameters. So is the early return for a command whose length does not
  match its header, which is dropped without an answer: the typed transport cannot
  produce one.
* `RadioExchange` takes from the source that status bits are sticky and cleared by
  writing ones, that bit 17 marks both ends of a capture, and that the end of a
  packet raises RX_COMPLETE, bit 17 or both. The end of a scan request computed
  from its header is assumed not to precede the packet's end: this is the timing
  the source computes.
* `DataFlash` has small erase blocks, pages and scratch, and a small address width.

## Runs

| Run | States | Bounds | What it shows |
| --- | --- | --- | --- |
| `EventTx` | 10.5 k | 4 payloads (two slots are refilled twice), 2 Central PDUs, 1 late completion | payloads delivered and released exactly once in order, both directions; `select` never fails under the owner gate; the more-data flag is exact; all payloads are released eventually |
| `EventTxLate` | | 3 payloads | expected violation, finding 1 |
| `Connection` | 40 k | counter modulo 8 (it wraps), instants now, two events ahead (a map and an update can be pending together) or already passed, response and supervision timeouts of 2, all nine control PDU classes | no procedure without its PDU; no instant missed over wrap and skipped events; no overlapping instants; every update asked for is answered; deadlines not restarted; Disconnect and Update end |
| `ConnectionCollision`, `ConnectionTerminate` | | one Central PDU class each | expected violations, findings 2 and 3 |
| `LinkArq` | 34 k | 3 credits with 2 queue slots (the source's relation of credits to slots), 4 ACL packets, 3 control PDUs (one more than the queue), 2 Central PDUs | implements the FIFO channel; nothing dropped; control PDUs exactly once; a frame is never replaced under its SN; all credits come back |
| `ConnectionTiming` | 679 k | counter modulo 12, 5 channels, real intervals and a supervision timeout of three events, window offsets 0, 2 and 3, instants 1 or 3 ahead, each set with a member the parser refuses | same channel as the Central after any mix of heard, missed and skipped events, map changes and wraps; the Central's packet inside the receive window for every drift; only events that are over are skipped |
| `HostInterface` | 282 k | channel capacities 1 and 2 as in the source, two successive links, one credit, masks that hide everything maskable, a Host that may enable advertising twice | exactly one answer per command, every command answered, refusals explained by what the Host knows or will be told, credits conserved, no ACL packet on another link |
| `DataFlash` | 115 k | two pages between two blocks that must not change, a scratch shorter than a page, offsets on both sides of every boundary | meaning of Ok and of Timeout, neighbours untouched, configuration restored, calls return |
| `RadioExchange` | 35 k | no bound on operations; one packet per operation | a returned packet is complete, its CRC verdict is right, a confirmed packet was sent, every end of an operation leaves the radio, the interrupt and its countdown as the next one needs them, operations end |
| `RadioScanResponse` | | | expected violation, finding 4 |
| `Uart` | 108 k | FIFOs of 2, 4 bytes a session and direction (a FIFO overflows twice), buffers up to 3 (longer than a FIFO), any number of sessions | both directions are byte streams with reported losses; a flush means sent; calls return; errors in the FIFO come to an end |

`NoStaleAcl` is about a Host that has not enabled advertising again while it
believed it was on (`~reenabled`). With one that has, a packet written for a link the
Host has not yet heard the end of can be queued on the next one, since every link
has handle 1.

`UpdateAnswered` compares the stored request with the answer the Host is owed, so it
excludes a forgotten answer and a request that outlives its answer. It does not count
the events the Host receives: an update that was stored before its request failed by
a collision is still applied at its instant and, when it changes the parameters,
reported after the failure.

`QuietBetweenOperations` accepts a radio that is off or tuned: an abandoned settle
wait returns without `shut_down_operation`. What it excludes is a packet on air, a
masked interrupt or an armed countdown.

`WindowCoversCentral` excludes one case (`missed`): `take_receive_timeout` uses the
transmit window up when its event is opened. When nothing is received in that event
the next window is opened at the start of the transmit window and without its size,
so a Central that transmits late in it stays out of reach until the widening covers
the difference or supervision ends the link. The comment there says that later
events rely on accumulated widening, so this is the intended behaviour and not a
finding.

Each module states its type invariant. All of them are theorems, so the runs are
kept for the other properties; `TypeOK` holds on the bounds above when it is added to
a configuration, and so does every inductive invariant of the next section when its
module is the root.

### Fairness

* `EventTx`: the Central keeps sending, the radio neither loses every response nor
  fails every completion.
* `Connection`: connection events keep coming while the link is up (a timer drives
  them); as long as the Central is there some events succeed in both directions.
  A Central that is gone is the supervision timeout's business, which needs no
  fairness beyond events.
* `LinkArq`: weak fairness of the tasks, strong fairness of a good exchange.
* `HostInterface`: the runner and the Host's reader run; a blocked writer is not
  passed over for ever (the channel's waiters are woken in turn). `docs/ble-integration.md` requires
  the Host to keep reading.
* `RadioExchange`: the loop runs and the clock advances; the hardware may stop.
* `DataFlash`: the driver runs; every wait has a poll limit.
* `Uart`: the polling loop runs and the transmitter shifts. `ErrorsEnd` assumes in
  its own statement a caller that keeps reading and a line that goes quiet.
* `ConnectionTiming` has safety properties only.

No run relies on a state constraint. Deadlock is checked in every run.

## Findings

1. `complete_transmit` accepts a late TX_DONE of an aborted event when the next
   event has planned an equal decision; the comment on `abort_transmit` says it
   cannot. The delivery properties still hold, as the proofs show.
2. A channel-map indication that collides with a local parameter request fails the
   request's context while its PDU is unacknowledged; the link is dropped with 0x1f
   when that PDU is next planned, sent or acknowledged.
   `docs/ble-peer-contract.md` asks that an unacknowledged owner is retained.
3. A local termination closes the link at transmission; the tests of `llcp.rs`
   describe it as complete on acknowledgement.
4. `advertising_exchange` can return a scan request whose response was not sent;
   the comment in `advertising_event` says it was.

## Proofs

The eight `...Proofs` modules are checked by TLAPS. Each proves `Spec => []IInv` for
an inductive invariant `IInv` (one lemma per action or stage) and derives from it the
type invariant and every safety property, action property and refinement that the
runs check, for every value of the constants that satisfies the named assumptions.

| Module | For every | From | Proved |
| --- | --- | --- | --- |
| `EventTxProofs` | number of payloads, late completions, Central PDUs | `CountAssumption` | `PayloadsExactlyOnce`, `CentralDataExactlyOnce`, `SelectNeverFails`, `MoreDataPromiseExact`; also `OwnerKeptUntilAcked`, `RefillsOnlyFreeSlot` |
| `LinkArqProofs` | queue of at least one slot, up to `QueueCapacity + 1` credits | `CreditsAssumption`: the relation of `ACL_CREDITS` to `ACL_QUEUE_CAPACITY` | `NoAclDropped`, `ControlExactlyOnce`, `FrameKeepsSequenceNumber`, `ChannelSpec`; also `CentralDataOnce` |
| `ConnectionProofs` | even range of the counter from 6, response and supervision timeout, choice of Central PDUs and instants | `LlcpAssumption`, `ConnectionAssumption` | `NoOrphanProcedure`, `InstantNeverMissed`, `NoInstantOverlap`, `UpdateAnswered`, `DeadlineNeverRestarted` |
| `ConnectionTimingProofs` | range of the counter, number of channels, requests, updates and maps | `TimingAssumption`, `SupervisionAssumption` | `HopInStep`, `WindowCoversCentral`, `SkipsOnlyPastEvents` |
| `HostInterfaceProofs` | capacity of both channels, number of credits and links, masks | `CapacityAssumption`, `HostAssumption` | `NoStaleAcl`, `AnsweredExactlyOnce`, `RefusalExplained`, `CreditsConserved` |
| `RadioExchangeProofs` | order of interrupt, baseband and loop | | `QuietBetweenOperations`, `ReturnedPacketComplete`, `CrcVerdictKept`, `TransmittedWasSent` |
| `DataFlashProofs` | geometry, window, request and pattern | `GeometryAssumption`, `CallerAssumption`, `ConfigAssumption` | `InterfaceReleased`, `OkMeansDone`, `FailureLeavesPrefix`, `NeighboursUntouched` |
| `UartProofs` | FIFO capacity, buffer and session length | `UartAssumption` | `FlushMeansSent`, `WritesInOrder`, `ReadsInOrder` |

The remaining assumptions only say that the absent value `None` is none of the values
it stands beside.

`EventTx`. No stated property is inductive: that payloads are delivered once depends
on which payload is in which slot. The invariant says: the slots hold exactly the
payloads from the first unreleased one to the last staged one (`SlotsInv`); the owner
is the first unreleased payload in its slot (`OwnerInv`); the planned decision is
what `preview_select` would still choose (`PlanInv`, which is why an accepted late
completion is harmless to delivery); an open event has an owner (`EventInv`); and the
Central is ahead by the current PDU exactly when the sequence bits differ
(`DeliveryInv`, `ReceptionInv`).

`LinkArq`. `IInv` ties the Host's count of credits to what is in the transport, the
queue and the frame (`HostInv`, `QueueInv`), the frame to its owner (`FrameInv`), and
the two delivery histories to the sequence bits (`AclInv`, `ControlInv`, `RxInv`).
`CreditsFitQueue` follows because at most `Credits` packets are between the Host and
the acknowledgement, and one of them is `pending`. `ImplementsChannel` is the
refinement of `AclChannel`: a delivery is the step in which the Central first accepts
the frame, a release the step in which its acknowledgement is processed.

`Connection`. The handlers are stages from record to record, so the invariant is a
predicate `Sound` of a record, and one lemma per stage says that it is kept; the
actions compose the stages. A context holds its PDU while it waits for transmission
or acknowledgement, and at the head of the queue once it is on air (`HoldsItsPdu`);
tokens of the two contexts differ (`TokensApart`: five tokens suffice for two PDUs and
two contexts, so reusing them is sound); a context that waits for an instant has its
indication (`HasIndication`), no stored instant is passed (`NotPassed`: the event
counter only advances over one that is not due), and at most one context bears an
instant; the Host's request is stored exactly while its procedure is active
(`RequestTracked`). `DeadlineNeverRestarted` needs more than an invariant: every stage
is also shown to keep running timers and to start none on a context that has one
(`Sustained`, `Inherited`).

`ConnectionTiming`. Both sides count the same events (`PhaseInv`: the counter and the
unmapped channel are those of the Central's event number). The two differ only while
a plan of the Central is late, that is while its instant has come and the Peripheral
was not told (`Late`), and only in the value that plan changes (`AgreeInv`). The silence
since is at least the time that has passed (`StoredInv`), so supervision ends the link
before such an instant is half the range of the counter behind and looks like a future one:
this needs `SupervisionAssumption`, which the limits of the validators imply
(3200 * 8 <= 6 * 32768). `WindowCoversCentral` rests on `WideningCoversDrift`
(`window_widening_us`, which splits the span into seconds and a rest, is never less
than the drift), `HopInStep` on `TableIsClosedForm` (the table of used channels and the
Central's closed form give the same channel).

`HostInterface`. What is on its way to the Host is one sequence: a handler appends to
it only when its last send is complete, and the Host takes the first element. The
invariant is about the order in it. An answer that turns advertising off, or refuses
to turn it on, has no Connection Complete behind it (`OrderInv`); a Host that reads up
to a refusal, or up to the end while the link lasts, knows of the link (`ToldInv`,
`KnowsAfter`); a Host that does not enable twice knows of the last link or of none,
and while advertising may be on it has none still to learn of (`HostInv`); there is no ACL packet anywhere
before the Host has read of the link (`AclInv`), and nothing it is still to read about
the current link belongs to an older one (`LinkedInv`). The counting in
`AnsweredExactlyOnce` and `CreditsConserved` uses a small set of lemmas about `Count`.

`RadioExchange`. The invariant says what each leg of the hardware means for the
loop's flags (`LegInv`), who owns the interrupt (`OwnerInv`), how far the packet is in
the buffer (`BufferInv`), that no status bit which ends a packet is raised before its
end (`EndInv`), that the CRC verdict stays in its register until it is read (`CrcInv`),
and that bit 17 stands for the end of the packet once its start was serviced
(`CaptureInv`). `SentInv` says that a completion the loop waits for is not an older one.

`DataFlash`. Bytes before the cursor are done, bytes behind it are untouched but for
those of a transaction that failed (`CellInv`); the cursor of an erase is a multiple of
the block (`LoopInv`), so with lemmas on quotients and remainders for an arbitrary
block and page size a transaction stays inside the request. `ReleaseInv` follows
`GLOBAL_CONFIG` and the chip select through every exit.

`Uart`. The bytes written are on the wire, in the shift register and in the FIFO in
order and without a gap (`TxInv`), and a write that is due finds room because the FIFO
only drains between the look at its count and the write (`RoomInv`). For the receive
direction the loss to be told is still visible in the status (`HoleInv`) and whatever a
read has in hand is older. From these every step maps to a step of `ByteStream` or
leaves it alone.

Only model-checked: the liveness properties `AllPayloadsReleased`, `DisconnectEnds`,
`UpdateEnds`, `AllCreditsReturned`, `CommandAnswered`, `OperationEnds`, `CallReturns` (of
`DataFlash` and of `Uart`) and `ErrorsEnd`. They depend on fairness and ENABLED, for which the
prover has no usable rules.

## Plan

Every safety property of the passing runs is proved. What is left are the step facts behind the
liveness properties, as action theorems of the modules above: what each fair action
brings closer and that no other action undoes it (a credit on its way, an answer in
`out`, the polls left of a wait), so that only the fairness argument itself rests on
TLC.

## Not modelled

* RF calibration and frontend bring-up, GPIO, ADC and clock setup: straight-line
  register sequences whose effect is the hardware's.
* Peripheral tokens and the critical section: the type system's and two CSR
  instructions.
* CRC-24, whitening, the access-address rule, `select_baud`: pure functions of short
  inputs, with test vectors in the repository; nothing interleaves with them.
* The byte layouts of advertising and HCI packets; of the advertising parser only
  the checks of `parse_connect_ind_detailed` matter to a state machine.
* RTC: three register reads and a subtraction.
* What the flash chip does with a command that arrives while a timed-out erase is
  still running: the source does not say.

## Running

    tlc -config EventTx.cfg EventTx
    tlapm EventTxProofs.tla

A run's module and configuration are in `PROJECT.json`; `DataFlash.cfg` belongs to
module `MCDataFlash` and `ConnectionTiming.cfg` to `MCConnectionTiming`.
