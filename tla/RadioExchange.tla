--------------------------- MODULE RadioExchange ---------------------------
(***************************************************************************)
(* The CH585 radio operations: advertising_exchange, exchange,             *)
(* receive_blocking and transmit_blocking, the BLEB interrupt they share   *)
(* with the baseband, and the status registers, flags and DMA buffer that  *)
(* outlive an operation.                                                   *)
(*                                                                         *)
(* The operations poll.  Every register that a loop reads at its own time  *)
(* is a step of its own, so that the hardware and the interrupt, which     *)
(* preempts the loop, act between two reads.  The hardware is external and *)
(* modelled from what the code relies on: status bits are sticky and       *)
(* cleared by writing ones; bit 17 of the LLE status marks both the start  *)
(* and the end of a capture; the end of a packet raises RX_COMPLETE or bit *)
(* 17 or both, together with the CRC verdict; the capture countdown covers *)
(* the longest packet of the operation.                                    *)
(***************************************************************************)
EXTENDS Naturals

CONSTANT None

LleBits == {"RxComplete", "TxComplete", "RxToTx", "TxToRx", "Timing"}
BbBits == {"Capture", "CrcError"}
Operations == {"Advertise", "Exchange", "Scan", "Transmit"}
PacketKinds == {"ScanReq", "Other", "Long"}
Packet == [kind : PacketKinds, good : BOOLEAN]
Result == [packet : Packet \cup {None}, complete : BOOLEAN, crc_ok : BOOLEAN,
           transmitted : BOOLEAN, sent : BOOLEAN]

ASSUME NoneAssumption == None \notin Packet \cup Result \cup Operations

VARIABLES
  lle,                \* lle_status
  bb,                 \* bb_interrupt_status, of which the CRC and capture bits
  countdown,          \* lle_operation_countdown, by what it was written for
  leg,                \* what the hardware is doing
  packet,             \* the packet on air in this operation
  dma,                \* RX_BUFFER: blank, its header written, or complete
  irq,                \* the BLEB interrupt is enabled
  capture_seen,       \* CAPTURE_SEEN
  capture_countdown,  \* RX_CAPTURE_COUNTDOWN is not zero
  op,                 \* the operation in progress
  pc,                 \* where its loop is
  status,             \* the loop's copy of lle_status
  seen,               \* the loop's copy of CAPTURE_SEEN
  armed,              \* armed, or capture_started
  buffered,           \* buffered_end is set
  responding,         \* responding, or turnaround
  taken,              \* the packet the loop has taken
  over,               \* the receive window is over
  late,               \* the loop's deadline has passed
  result              \* what the last operation returned, None for an error

hardwareVars == <<lle, bb, countdown, leg, packet, dma>>
irqVars == <<irq, capture_seen, capture_countdown>>
loopVars == <<status, seen, armed, buffered, responding, taken>>
timeVars == <<over, late>>
vars == <<hardwareVars, irqVars, op, pc, loopVars, timeVars, result>>

Init ==
  /\ lle = {} /\ bb = {} /\ countdown = "Expired" /\ leg = "Off"
  /\ packet = None /\ dma = "Blank"
  /\ irq = TRUE /\ capture_seen = FALSE /\ capture_countdown = FALSE
  /\ op = None /\ pc = "Idle"
  /\ status = {} /\ seen = FALSE /\ armed = FALSE /\ buffered = FALSE
  /\ responding = FALSE /\ taken = None
  /\ over = FALSE /\ late = FALSE /\ result = None
-----------------------------------------------------------------------------
(***************************************************************************)
(* The hardware.                                                           *)
(***************************************************************************)
NonEmpty(bits) == SUBSET bits \ {{}}

HwAdvertSent ==
  /\ leg = "Advert"
  /\ \E bits \in NonEmpty({"TxToRx", "TxComplete"}) : lle' = lle \cup bits
  /\ leg' = "Turn"
  /\ UNCHANGED <<bb, countdown, packet, dma, irqVars, op, pc, loopVars, timeVars, result>>

HwPacketStarts ==
  /\ leg = "Listen"
  /\ packet' \in Packet
  /\ leg' = "Receive"
  /\ bb' = bb \cup {"Capture"}
  /\ lle' = lle \cup {"Timing"}
  /\ UNCHANGED <<countdown, dma, irqVars, op, pc, loopVars, timeVars, result>>

HwHeaderWritten ==
  /\ leg = "Receive" /\ dma = "Blank"
  /\ dma' = "Header"
  /\ UNCHANGED <<lle, bb, countdown, leg, packet, irqVars, op, pc, loopVars, timeVars, result>>

HwPacketEnds ==
  /\ leg = "Receive" /\ dma = "Header"
  /\ dma' = "Full"
  /\ leg' = "Received"
  /\ bb' = IF packet.good THEN bb ELSE bb \cup {"CrcError"}
  /\ \E bits \in NonEmpty({"RxComplete", "Timing"}) :
       lle' = lle \cup bits \cup (IF op = "Scan" THEN {} ELSE {"RxToTx"})
  /\ UNCHANGED <<countdown, packet, irqVars, op, pc, loopVars, timeVars, result>>

HwResponseSent ==
  /\ leg = "Respond"
  /\ leg' = "Sent"
  /\ \E bits \in NonEmpty({"RxComplete", "TxComplete"}) : lle' = lle \cup bits
  /\ UNCHANGED <<bb, countdown, packet, dma, irqVars, op, pc, loopVars, timeVars, result>>

HwTransmitSent ==
  /\ leg = "Transmit"
  /\ leg' = "Sent"
  /\ lle' = lle \cup {"TxComplete"}
  /\ UNCHANGED <<bb, countdown, packet, dma, irqVars, op, pc, loopVars, timeVars, result>>

HwCountdownExpires ==
  /\ countdown # "Expired" /\ leg \notin {"Off", "Tuned"}
  /\ countdown = "Capture" => leg # "Receive" \/ packet.kind = "Long"
  /\ countdown' = "Expired"
  /\ UNCHANGED <<lle, bb, leg, packet, dma, irqVars, op, pc, loopVars, timeVars, result>>

Hardware ==
  \/ HwAdvertSent
  \/ HwPacketStarts
  \/ HwHeaderWritten
  \/ HwPacketEnds
  \/ HwResponseSent
  \/ HwTransmitSent
  \/ HwCountdownExpires

\* The receive window closes, and some time later the loop's own deadline.
TimePasses ==
  /\ op # None /\ ~late
  /\ over' = TRUE /\ late' = over
  /\ UNCHANGED <<hardwareVars, irqVars, op, pc, loopVars, result>>
-----------------------------------------------------------------------------
(***************************************************************************)
(* The BLEB interrupt.                                                     *)
(***************************************************************************)
\* Mutant of CaptureAck: the CRC verdict is acknowledged with the capture.
CaptureAckClearsCrc(bits) == bits \ {"Capture", "CrcError"}

\* The handler owns the capture bit and leaves the CRC verdict alone.
CaptureAck(bits) == bits \ {"Capture"}

BLEB ==
  /\ irq /\ "Capture" \in bb
  /\ bb' = CaptureAck(bb)
  /\ IF capture_countdown
     THEN lle' = lle \ {"Timing"} /\ countdown' = "Capture" /\ capture_seen' = TRUE
     ELSE UNCHANGED <<lle, countdown, capture_seen>>
  /\ UNCHANGED <<leg, packet, dma, irq, capture_countdown, op, pc, loopVars, timeVars, result>>
-----------------------------------------------------------------------------
(***************************************************************************)
(* Starting and ending an operation.                                       *)
(***************************************************************************)
\* Every operation that receives starts with a blank buffer.
BlanksBuffer == dma' = "Blank" /\ packet' = None

\* What every operation does first: the statuses are cleared.
Begins(operation, first_leg) ==
  /\ op = None
  /\ op' = operation /\ pc' = "ReadStatus"
  /\ lle' = {} /\ bb' = {}
  /\ leg' = first_leg
  /\ status' = {} /\ seen' = FALSE /\ armed' = FALSE /\ buffered' = FALSE
  /\ responding' = FALSE /\ taken' = None
  /\ over' = FALSE /\ late' = FALSE /\ result' = None

StartsAdvertising ==
  /\ Begins("Advertise", "Advert") /\ BlanksBuffer
  /\ countdown' = "Transmit"
  /\ capture_countdown' = TRUE /\ capture_seen' = FALSE
  /\ UNCHANGED irq

\* The RF settle countdown of advertising_exchange or transmit_blocking does
\* not expire: the operation is given up before anything is launched, without
\* shut_down_operation, so the radio stays tuned.
SettleTimesOut ==
  /\ op = None
  /\ lle' = {} /\ bb' = {} /\ result' = None
  /\ BlanksBuffer \/ UNCHANGED <<dma, packet>>
  /\ leg' = "Tuned"
  /\ UNCHANGED <<countdown, irqVars, op, pc, loopVars, timeVars>>

StartsExchange ==
  /\ Begins("Exchange", "Listen") /\ BlanksBuffer
  /\ countdown' = "Window"
  /\ capture_countdown' = TRUE
  /\ UNCHANGED <<irq, capture_seen>>

\* The polled receiver owns the capture bit: it takes the interrupt away.
StartsScan ==
  /\ Begins("Scan", "Listen") /\ BlanksBuffer
  /\ countdown' = "Window"
  /\ irq' = FALSE
  /\ UNCHANGED <<capture_seen, capture_countdown>>

StartsTransmit ==
  /\ Begins("Transmit", "Transmit")
  /\ countdown' = "Transmit"
  /\ UNCHANGED <<dma, packet, irqVars>>

\* classify_received_length: a blank or too long packet has no copy.
Copied == dma # "Blank" /\ packet.kind # "Long"

CrcOk == "CrcError" \notin bb

Taken(crc_ok, transmitted) ==
  [packet |-> packet, complete |-> dma = "Full", crc_ok |-> crc_ok,
   transmitted |-> transmitted, sent |-> leg = "Sent"]

\* Mutant of ShutsDown: the interrupt stays disabled after a timeout.
ShutsDownOnSuccessOnly(outcome) ==
  /\ op' = None /\ pc' = "Idle"
  /\ leg' = "Off"
  /\ capture_countdown' = FALSE
  /\ irq' = (irq \/ outcome # None)
  /\ result' = outcome
  /\ UNCHANGED <<bb, countdown, packet, dma, capture_seen, loopVars, timeVars>>

\* shut_down_operation, with the end of receive_blocking, which gives the
\* interrupt back whatever the outcome.
ShutsDown(outcome) ==
  /\ op' = None /\ pc' = "Idle"
  /\ leg' = "Off"
  /\ capture_countdown' = FALSE
  /\ irq' = TRUE
  /\ result' = outcome
  /\ UNCHANGED <<bb, countdown, packet, dma, capture_seen, loopVars, timeVars>>
-----------------------------------------------------------------------------
(***************************************************************************)
(* advertising_exchange.                                                   *)
(***************************************************************************)
\* The result of an advertising exchange: the packet taken, if any.
AdvertisingResult == IF taken = None THEN None ELSE [taken EXCEPT !.sent = leg = "Sent"]

\* continue_tx_to_rx_1m.  TX_COMPLETE of the advertisement stays set.
ContinueTxToRx ==
  /\ lle' = lle \ {"TxToRx", "Timing"}
  /\ countdown' = "Window"
  /\ leg' = "Listen"

\* Once the advertisement is on air the receiver is armed.
AdvertisingReadsStatus ==
  /\ op = "Advertise" /\ pc = "ReadStatus"
  /\ IF late THEN ShutsDown(AdvertisingResult) /\ UNCHANGED lle
     ELSE /\ status' = lle
          /\ pc' = "ReadCapture"
          /\ IF ~armed /\ lle \cap {"TxToRx", "TxComplete"} # {}
             THEN /\ armed' = TRUE
                  /\ ContinueTxToRx
                  /\ over' = FALSE /\ late' = FALSE
             ELSE UNCHANGED <<armed, lle, countdown, leg, timeVars>>
          /\ UNCHANGED <<bb, packet, dma, irqVars, op, seen, buffered, responding,
                         taken, result>>

\* The header in the buffer, then the interrupt's flag.
AdvertisingReadsCapture ==
  /\ op = "Advertise" /\ pc = "ReadCapture"
  /\ buffered' = (buffered \/ (armed /\ Copied))
  /\ seen' = capture_seen
  /\ pc' = "Decide"
  /\ UNCHANGED <<hardwareVars, irqVars, op, status, armed, responding, taken, timeVars, result>>

\* Mutant of Captured: the status word read before the flag is used.
CapturedByOldStatus ==
  seen /\ (status \cap {"RxComplete", "Timing"} # {} \/ countdown = "Expired")

\* The flag was read before this status word.
Captured == seen /\ (lle \cap {"RxComplete", "Timing"} # {} \/ countdown = "Expired")

\* The end of a scan request is also computed from its header: by then the
\* packet is complete.
BufferedScanDue == buffered /\ packet.kind = "ScanReq" /\ dma = "Full"

AdvertisingTakes ==
  /\ op = "Advertise" /\ pc = "Decide"
  /\ armed /\ ~responding
  /\ "RxToTx" \in status \/ Captured \/ BufferedScanDue
  /\ pc' = "Classify"
  /\ UNCHANGED <<hardwareVars, irqVars, op, loopVars, timeVars, result>>

AdvertisingLoops ==
  /\ op = "Advertise" /\ pc = "Decide"
  /\ ~(armed /\ ~responding /\ ("RxToTx" \in status \/ Captured))
  /\ IF responding /\ status \cap {"RxComplete", "TxComplete"} # {}
     THEN ShutsDown(AdvertisingResult) /\ UNCHANGED lle
     ELSE /\ pc' = "ReadStatus"
          /\ UNCHANGED <<hardwareVars, irqVars, op, loopVars, timeVars, result>>

\* release_receive_to_transmit_1m.  Unlike exchange it leaves RX_COMPLETE set.
ReleaseReceiveToTransmit ==
  /\ lle' = lle \ {"RxToTx", "Timing"}
  /\ countdown' = "Transmit"
  /\ leg' = "Respond"

\* Only a scan request with a good CRC is answered.
AdvertisingClassifies ==
  /\ op = "Advertise" /\ pc = "Classify"
  /\ IF ~Copied
     THEN pc' = "ReadStatus" /\ UNCHANGED <<hardwareVars, irqVars, op, loopVars, timeVars, result>>
     ELSE IF CrcOk /\ packet.kind = "ScanReq"
     THEN /\ taken' = Taken(TRUE, FALSE)
          /\ ReleaseReceiveToTransmit
          /\ responding' = TRUE
          /\ over' = FALSE /\ late' = FALSE
          /\ pc' = "ReadStatus"
          /\ UNCHANGED <<bb, packet, dma, irqVars, op, status, seen, armed, buffered, result>>
     ELSE ShutsDown(Taken(CrcOk, FALSE)) /\ UNCHANGED lle
-----------------------------------------------------------------------------
(***************************************************************************)
(* exchange.                                                               *)
(***************************************************************************)
\* The result: an error unless the packet was seen to end and has a length.
ExchangeResult(ended, transmitted) ==
  IF ended /\ Copied THEN Taken(CrcOk, transmitted) ELSE None

\* Mutant of ExchangeReadsStatus: only the hardware bounds the loop.
ExchangeReadsStatusForever ==
  /\ op = "Exchange" /\ pc = "ReadStatus"
  /\ status' = lle
  /\ pc' = "Decide"
  /\ UNCHANGED <<hardwareVars, irqVars, op, seen, armed, buffered, responding, taken,
                 timeVars, result>>

ExchangeReadsStatus ==
  /\ op = "Exchange" /\ pc = "ReadStatus"
  /\ IF late THEN ShutsDown(ExchangeResult(responding, FALSE)) /\ UNCHANGED lle
     ELSE /\ status' = lle
          /\ pc' = "Decide"
          /\ UNCHANGED <<hardwareVars, irqVars, op, seen, armed, buffered, responding, taken,
                         timeVars, result>>

\* Mutant of Released: RX_COMPLETE of the received packet is left set.
ReleasedKeepsRxComplete == lle \ {"RxToTx", "Timing"}

\* The status after the release of the response.
Released == lle \ {"RxComplete", "RxToTx", "Timing"}

\* The packet has ended: the staged response is released unless the packet
\* is broken or too long.
ExchangeResponds ==
  /\ op = "Exchange" /\ pc = "Decide"
  /\ "RxToTx" \in status /\ ~responding
  /\ IF ~CrcOk \/ packet.kind = "Long"
     THEN ShutsDown(ExchangeResult(TRUE, FALSE)) /\ UNCHANGED lle
     ELSE /\ lle' = Released
          /\ countdown' = "Transmit"
          /\ leg' = "Respond"
          /\ responding' = TRUE
          /\ pc' = "ReadStatus"
          /\ UNCHANGED <<bb, packet, dma, irqVars, op, status, seen, armed, buffered, taken,
                         timeVars, result>>

\* The response was confirmed, or the countdown or the window is over.
ExchangeLoops ==
  /\ op = "Exchange" /\ pc = "Decide"
  /\ ~("RxToTx" \in status /\ ~responding)
  /\ IF responding /\ "RxComplete" \in status
     THEN ShutsDown(ExchangeResult(TRUE, TRUE)) /\ lle' = lle \ {"RxComplete"}
     ELSE IF countdown = "Expired" \/ (~responding /\ over)
     THEN ShutsDown(ExchangeResult(responding, FALSE)) /\ UNCHANGED lle
     ELSE /\ pc' = "ReadStatus"
          /\ UNCHANGED <<hardwareVars, irqVars, op, loopVars, timeVars, result>>
-----------------------------------------------------------------------------
(***************************************************************************)
(* receive_blocking.                                                       *)
(***************************************************************************)
\* The loop services the capture point itself.
ScanPolls ==
  /\ op = "Scan" /\ pc = "ReadStatus"
  /\ IF "Capture" \in bb
     THEN /\ bb' = CaptureAck(bb) /\ lle' = lle \ {"Timing"}
          /\ countdown' = "Capture" /\ armed' = TRUE
     ELSE UNCHANGED <<bb, lle, countdown, armed>>
  /\ pc' = "Decide"
  /\ UNCHANGED <<leg, packet, dma, irqVars, op, status, seen, buffered, responding, taken,
                 timeVars, result>>

ScanDecides ==
  /\ op = "Scan" /\ pc = "Decide"
  /\ IF armed /\ lle \cap {"RxComplete", "Timing"} # {}
     THEN ShutsDown(IF Copied THEN Taken(CrcOk, FALSE) ELSE None) /\ UNCHANGED lle
     ELSE IF countdown = "Expired" \/ (~armed /\ over) \/ late
     THEN ShutsDown(None) /\ UNCHANGED lle
     ELSE /\ pc' = "ReadStatus"
          /\ UNCHANGED <<hardwareVars, irqVars, op, loopVars, timeVars, result>>

-----------------------------------------------------------------------------
(***************************************************************************)
(* transmit_blocking with wait_for_operation.                              *)
(***************************************************************************)
Transmitted ==
  [packet |-> None, complete |-> FALSE, crc_ok |-> FALSE, transmitted |-> TRUE,
   sent |-> leg = "Sent"]

TransmitReadsStatus ==
  /\ op = "Transmit" /\ pc = "ReadStatus"
  /\ IF "TxComplete" \in lle
     THEN ShutsDown(Transmitted) /\ UNCHANGED lle
     ELSE /\ pc' = "Decide"
          /\ UNCHANGED <<hardwareVars, irqVars, op, loopVars, timeVars, result>>

TransmitDecides ==
  /\ op = "Transmit" /\ pc = "Decide"
  /\ IF countdown = "Expired" \/ late
     THEN ShutsDown(None) /\ UNCHANGED lle
     ELSE /\ pc' = "ReadStatus"
          /\ UNCHANGED <<hardwareVars, irqVars, op, loopVars, timeVars, result>>
-----------------------------------------------------------------------------
Loop ==
  \/ AdvertisingReadsStatus
  \/ AdvertisingReadsCapture
  \/ AdvertisingTakes
  \/ AdvertisingLoops
  \/ AdvertisingClassifies
  \/ ExchangeReadsStatus
  \/ ExchangeResponds
  \/ ExchangeLoops
  \/ ScanPolls
  \/ ScanDecides
  \/ TransmitReadsStatus
  \/ TransmitDecides

Next ==
  \/ Hardware
  \/ TimePasses
  \/ BLEB
  \/ StartsAdvertising
  \/ SettleTimesOut
  \/ StartsExchange
  \/ StartsScan
  \/ StartsTransmit
  \/ Loop

Spec == Init /\ [][Next]_vars

\* The loop runs and time passes; the hardware may stop at any point.
FairSpec == Spec /\ WF_vars(Loop) /\ WF_vars(TimePasses)
-----------------------------------------------------------------------------
\* Type invariant.
TypeOK ==
  /\ lle \subseteq LleBits /\ bb \subseteq BbBits /\ status \subseteq LleBits
  /\ countdown \in {"Window", "Capture", "Transmit", "Expired"}
  /\ leg \in {"Off", "Tuned", "Advert", "Turn", "Listen", "Receive", "Received",
            "Respond", "Transmit", "Sent"}
  /\ packet \in Packet \cup {None} /\ dma \in {"Blank", "Header", "Full"}
  /\ <<irq, capture_seen, capture_countdown>> \in BOOLEAN \X BOOLEAN \X BOOLEAN
  /\ op \in Operations \cup {None}
  /\ pc \in {"Idle", "ReadStatus", "ReadCapture", "Decide", "Classify"}
  /\ (pc = "Idle") = (op = None)
  /\ <<seen, armed, buffered, responding>> \in BOOLEAN \X BOOLEAN \X BOOLEAN \X BOOLEAN
  /\ taken \in Result \cup {None} /\ result \in Result \cup {None}

\* What an operation leaves to the next one however it ends, by an answer, an
\* early return, a deadline or a lost packet: nothing on air, the interrupt
\* enabled, and no countdown for the interrupt to re-arm.
QuietBetweenOperations ==
  op = None => leg \in {"Off", "Tuned"} /\ irq /\ ~capture_countdown

\* A packet handed to the link layer is complete in the buffer, whatever the
\* interrupt and the baseband did between two polls: no header of a packet
\* that is still arriving, and nothing left from an earlier operation.
ReturnedPacketComplete ==
  result # None /\ result.packet # None => result.complete

\* A packet with a broken CRC is never reported as good: neither the
\* interrupt nor the loop loses the verdict.
CrcVerdictKept == result # None /\ result.crc_ok => result.packet.good

\* A confirmed packet has been on air: `transmitted`, on which the link
\* layer's acknowledgement logic rests, is never the receive leg's status,
\* nor is the Ok of transmit_blocking the status of an earlier operation.
TransmittedWasSent == result # None /\ result.transmitted => result.sent

\* Every operation ends, even when the hardware stops half-way.
OperationEnds == (op # None) ~> (op = None)

\* Comment in advertising_event: the scan response was sent by the hardware
\* before the request is returned to software.
ScanResponseSent ==
  result # None /\ result.crc_ok /\ result.packet.kind = "ScanReq"
    /\ taken # None => result.sent
=============================================================================
