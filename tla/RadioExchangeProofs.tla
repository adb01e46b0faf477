------------------------- MODULE RadioExchangeProofs -------------------------
(***************************************************************************)
(* Proofs about the radio operations of module RadioExchange.  The         *)
(* invariant says what each leg of the hardware means for the DMA buffer,  *)
(* the status registers and the flags of the loop and of the interrupt.    *)
(***************************************************************************)
EXTENDS RadioExchange, TLAPS

-----------------------------------------------------------------------------
(***************************************************************************)
(* The inductive invariant.                                                *)
(***************************************************************************)
Receives == op \in {"Advertise", "Exchange", "Scan"}

\* Before, during and after the packet of an operation that receives.
BeforePacket == leg \in {"Advert", "Turn", "Listen"}
PacketEnded == leg \in {"Received", "Respond", "Sent"}

\* What the hardware does for an operation, and what its loop knows of it.
LegInv ==
  /\ op = None => leg \in {"Off", "Tuned"}
  /\ op = "Transmit" => leg \in {"Transmit", "Sent"}
  /\ Receives => BeforePacket \/ leg = "Receive" \/ PacketEnded
  /\ op = "Advertise" => (armed <=> leg \notin {"Advert", "Turn"})
  /\ op \in {"Exchange", "Scan"} => leg \notin {"Advert", "Turn"}
  /\ op = "Scan" => leg \notin {"Respond", "Sent"}
  /\ op \in {"Advertise", "Exchange"} => (responding <=> leg \in {"Respond", "Sent"})

\* The interrupt is the scanner's while it polls, BLEB's otherwise.
OwnerInv ==
  /\ irq <=> op # "Scan"
  /\ capture_countdown <=> op \in {"Advertise", "Exchange"}

\* The buffer follows the packet.
BufferInv ==
  Receives =>
    /\ BeforePacket => dma = "Blank" /\ packet = None
    /\ leg = "Receive" => dma # "Full" /\ packet # None
    /\ PacketEnded => dma = "Full" /\ packet # None

\* RX_COMPLETE and RX_TO_TX are not raised before the packet has ended.
EndInv ==
  Receives =>
    /\ lle \cap {"RxComplete", "RxToTx"} # {} => PacketEnded
    /\ "RxToTx" \in status => PacketEnded

\* The CRC verdict of a packet that has ended stays in its register.
CrcInv ==
  Receives /\ PacketEnded /\ ~packet.good => "CrcError" \in bb

\* Bit 17 and the countdown once the start of the capture was serviced:
\* they stand for the end of the packet.
Serviced ==
  /\ ~BeforePacket
  /\ "Capture" \notin bb
  /\ leg = "Receive" => /\ "Timing" \notin lle
                        /\ countdown = "Capture" \/ packet.kind = "Long"

CaptureInv ==
  /\ Receives /\ BeforePacket => "Capture" \notin bb
  /\ op = "Advertise" => (capture_seen => Serviced) /\ (seen => capture_seen)
  /\ op = "Scan" => (armed => Serviced)
  /\ op = "Advertise" /\ pc = "Classify" =>
       armed /\ ~responding /\ (PacketEnded \/ (packet # None /\ packet.kind = "Long"))

\* The completion an operation waits for is not an older one.
SentInv ==
  /\ op = "Transmit" /\ "TxComplete" \in lle => leg = "Sent"
  /\ op = "Exchange" /\ responding =>
       /\ "RxComplete" \in lle => leg = "Sent"
       /\ pc = "Decide" /\ "RxComplete" \in status => leg = "Sent"

\* What the advertising loop has taken, and what the last operation returned.
TakenInv ==
  taken # None => /\ taken.packet # None /\ taken.complete /\ taken.packet.good
                  /\ ~taken.transmitted

IInv ==
  /\ TypeOK /\ LegInv /\ OwnerInv /\ BufferInv /\ EndInv /\ CrcInv /\ CaptureInv
  /\ SentInv /\ TakenInv
  /\ ReturnedPacketComplete /\ CrcVerdictKept /\ TransmittedWasSent
-----------------------------------------------------------------------------
(***************************************************************************)
(* What an operation may return.                                           *)
(***************************************************************************)
GoodOutcome(r) ==
  r # None =>
    /\ r \in Result
    /\ r.packet # None => r.complete
    /\ r.crc_ok => r.packet.good
    /\ r.transmitted => r.sent

\* The types of the flags, one by one.
Flags ==
  /\ irq \in BOOLEAN /\ capture_seen \in BOOLEAN /\ capture_countdown \in BOOLEAN
  /\ seen \in BOOLEAN /\ armed \in BOOLEAN /\ buffered \in BOOLEAN
  /\ responding \in BOOLEAN

\* The flags of the interrupt and of the loops are Booleans.
LEMMA FlagTypes == TypeOK => Flags
  BY DEF TypeOK, Flags

\* An operation that ends, by a return, an error or a deadline, leaves a state
\* of the invariant when what it returns is good: shut_down_operation.
LEMMA ShutsDownKeeps ==
  ASSUME IInv, NEW outcome, GoodOutcome(outcome), ShutsDown(outcome), lle' \subseteq lle
  PROVE  IInv'
<1>1. TypeOK'
  BY DEF IInv, TypeOK, ShutsDown, GoodOutcome, loopVars
<1>2. LegInv' /\ OwnerInv'
  BY NoneAssumption DEF IInv, LegInv, OwnerInv, ShutsDown, Receives, Operations
<1>3. BufferInv' /\ EndInv' /\ CrcInv' /\ CaptureInv' /\ SentInv'
  BY NoneAssumption DEF ShutsDown, Receives, Operations, BufferInv, EndInv, CrcInv,
    CaptureInv, SentInv
<1>4. TakenInv'
  BY DEF IInv, TakenInv, ShutsDown, loopVars
<1>5. ReturnedPacketComplete' /\ CrcVerdictKept' /\ TransmittedWasSent'
  BY DEF ShutsDown, GoodOutcome, ReturnedPacketComplete, CrcVerdictKept, TransmittedWasSent
<1> QED BY <1>1, <1>2, <1>3, <1>4, <1>5 DEF IInv

\* The fields of the record of a received packet.
LEMMA TakenFields ==
  ASSUME packet \in Packet, NEW crc_ok \in BOOLEAN, NEW transmitted \in BOOLEAN
  PROVE  /\ Taken(crc_ok, transmitted) \in Result
         /\ Taken(crc_ok, transmitted).packet = packet
         /\ dma = "Full" => Taken(crc_ok, transmitted).complete
         /\ ~transmitted => ~Taken(crc_ok, transmitted).transmitted
<1>1. (leg = "Sent") \in BOOLEAN /\ (dma = "Full") \in BOOLEAN
  OBVIOUS
<1> QED BY <1>1 DEF Taken, Result

\* The record of a packet that is complete in the buffer is a good outcome
\* when its CRC verdict is the register's and `sent` backs `transmitted`.
LEMMA TakenGood ==
  ASSUME IInv, Receives, PacketEnded, NEW transmitted \in BOOLEAN,
         transmitted => leg = "Sent"
  PROVE  /\ GoodOutcome(Taken(CrcOk, transmitted))
         /\ Taken(CrcOk, transmitted) # None
         /\ Taken(CrcOk, transmitted).packet = packet
         /\ Taken(CrcOk, transmitted).complete
<1>1. packet \in Packet /\ dma = "Full" /\ (CrcOk => packet.good)
  BY DEF IInv, BufferInv, CrcInv, CrcOk, TypeOK
<1>2. CrcOk \in BOOLEAN /\ (leg = "Sent") \in BOOLEAN
  BY DEF CrcOk
<1>3. Taken(CrcOk, transmitted) \in Result
  BY <1>1, <1>2 DEF Taken, Result
<1>4. Taken(CrcOk, transmitted).transmitted = transmitted
      /\ Taken(CrcOk, transmitted).crc_ok = CrcOk
      /\ Taken(CrcOk, transmitted).packet = packet
      /\ Taken(CrcOk, transmitted).complete = (dma = "Full")
      /\ Taken(CrcOk, transmitted).sent = (leg = "Sent")
  BY DEF Taken
<1>5. Taken(CrcOk, transmitted) # None
  BY <1>3, NoneAssumption
<1> QED BY <1>1, <1>3, <1>4, <1>5 DEF GoodOutcome

\* Each operation starts in a state of the invariant.
LEMMA BeginsKeeps ==
  ASSUME IInv,
         StartsAdvertising \/ StartsExchange \/ StartsScan \/ StartsTransmit
  PROVE  IInv'
<1>0. irq /\ ~capture_countdown /\ Flags
  BY NoneAssumption, FlagTypes DEF IInv, OwnerInv, StartsAdvertising, StartsExchange,
    StartsScan,
    StartsTransmit, Begins, Operations
<1> USE DEF StartsAdvertising, StartsExchange, StartsScan, StartsTransmit, Begins,
            BlanksBuffer, irqVars
<1>1. TypeOK'
  BY <1>0, NoneAssumption DEF IInv, TypeOK, Operations, Flags
<1>2. LegInv'
  BY NoneAssumption DEF LegInv, Receives, BeforePacket, PacketEnded, Operations
<1>6. OwnerInv'
  <2>1. CASE StartsAdvertising \/ StartsExchange
    BY <1>0, <2>1 DEF OwnerInv
  <2>2. CASE StartsScan
    BY <1>0, <2>2 DEF OwnerInv
  <2>3. CASE StartsTransmit
    BY <1>0, <2>3 DEF OwnerInv
  <2> QED BY <2>1, <2>2, <2>3
<1>3. BufferInv' /\ EndInv' /\ CrcInv' /\ SentInv' /\ TakenInv'
  BY DEF Receives, BeforePacket, PacketEnded, BufferInv, EndInv, CrcInv, SentInv, TakenInv
<1>4. CaptureInv'
  BY DEF Receives, BeforePacket, CaptureInv
<1>5. ReturnedPacketComplete' /\ CrcVerdictKept' /\ TransmittedWasSent'
  BY DEF ReturnedPacketComplete, CrcVerdictKept, TransmittedWasSent
<1> QED BY <1>1, <1>2, <1>3, <1>4, <1>5, <1>6 DEF IInv

\* A settle timeout leaves the radio tuned and everything else at rest.
LEMMA SettleTimesOutKeeps == ASSUME IInv, SettleTimesOut PROVE IInv'
<1> USE DEF SettleTimesOut, BlanksBuffer, irqVars, loopVars
<1>1. TypeOK'
  BY DEF IInv, TypeOK
<1>2. LegInv' /\ OwnerInv' /\ BufferInv' /\ EndInv' /\ CrcInv' /\ SentInv' /\ CaptureInv'
  BY NoneAssumption DEF IInv, LegInv, OwnerInv, BufferInv, EndInv, CrcInv, SentInv,
    CaptureInv, Receives, Operations
<1>3. TakenInv'
  BY DEF IInv, TakenInv
<1>5. ReturnedPacketComplete' /\ CrcVerdictKept' /\ TransmittedWasSent'
  BY DEF ReturnedPacketComplete, CrcVerdictKept, TransmittedWasSent
<1> QED BY <1>1, <1>2, <1>3, <1>5 DEF IInv

-----------------------------------------------------------------------------
(***************************************************************************)
(* The hardware, time and the interrupt, one lemma for each action.        *)
(***************************************************************************)
\* The advertisement is on air.
LEMMA HwAdvertSentKeeps == ASSUME IInv, HwAdvertSent PROVE IInv'
<1> USE DEF HwAdvertSent, NonEmpty, irqVars, loopVars, timeVars, Receives, BeforePacket,
            PacketEnded
<1>0. Flags /\ IInv
  BY FlagTypes DEF IInv
<1>1. TypeOK'
  BY <1>0, NoneAssumption DEF IInv, Flags, TypeOK, LleBits, BbBits, Packet, PacketKinds
<1>2. LegInv' /\ OwnerInv'
  BY <1>0, NoneAssumption DEF IInv, Flags, TypeOK, Operations, LegInv, OwnerInv
<1>3. BufferInv'
  BY <1>0, NoneAssumption DEF IInv, Flags, TypeOK, Operations, LegInv, BufferInv
<1>4. EndInv'
  BY <1>0, NoneAssumption DEF IInv, Flags, TypeOK, Operations, LegInv, EndInv
<1>5. CrcInv'
  BY <1>0, NoneAssumption DEF IInv, Flags, TypeOK, Operations, LegInv, BufferInv, CrcInv
<1>6. CaptureInv'
  BY <1>0, NoneAssumption DEF IInv, Flags, TypeOK, Operations, LegInv, OwnerInv, EndInv,
    BufferInv, CaptureInv, Serviced
<1>7. SentInv'
  BY <1>0, NoneAssumption DEF IInv, Flags, TypeOK, Operations, LegInv, SentInv
<1>8. TakenInv' /\ ReturnedPacketComplete' /\ CrcVerdictKept' /\ TransmittedWasSent'
  BY <1>0, NoneAssumption DEF IInv, Flags, TakenInv, ReturnedPacketComplete,
    CrcVerdictKept, TransmittedWasSent
<1> QED BY <1>1, <1>2, <1>3, <1>4, <1>5, <1>6, <1>7, <1>8 DEF IInv

\* A packet starts: the capture bit marks its start.
LEMMA HwPacketStartsKeeps == ASSUME IInv, HwPacketStarts PROVE IInv'
<1> USE DEF HwPacketStarts, irqVars, loopVars, timeVars, Receives, BeforePacket, PacketEnded
<1>0. Flags /\ IInv
  BY FlagTypes DEF IInv
<1>1. TypeOK'
  BY <1>0, NoneAssumption DEF IInv, Flags, TypeOK, LleBits, BbBits, Packet, PacketKinds
<1>2. LegInv' /\ OwnerInv'
  BY <1>0, NoneAssumption DEF IInv, Flags, TypeOK, Operations, LegInv, OwnerInv
<1>3. BufferInv'
  BY <1>0, NoneAssumption DEF IInv, Flags, TypeOK, Operations, LegInv, BufferInv
<1>4. EndInv'
  BY <1>0, NoneAssumption DEF IInv, Flags, TypeOK, Operations, LegInv, EndInv
<1>5. CrcInv'
  BY <1>0, NoneAssumption DEF IInv, Flags, TypeOK, Operations, LegInv, BufferInv, CrcInv
<1>6. CaptureInv'
  BY <1>0, NoneAssumption DEF IInv, Flags, TypeOK, Operations, LegInv, OwnerInv, EndInv,
    BufferInv, CaptureInv, Serviced
<1>7. SentInv'
  BY <1>0, NoneAssumption DEF IInv, Flags, TypeOK, Operations, LegInv, SentInv
<1>8. TakenInv' /\ ReturnedPacketComplete' /\ CrcVerdictKept' /\ TransmittedWasSent'
  BY <1>0, NoneAssumption DEF IInv, Flags, TakenInv, ReturnedPacketComplete,
    CrcVerdictKept, TransmittedWasSent
<1> QED BY <1>1, <1>2, <1>3, <1>4, <1>5, <1>6, <1>7, <1>8 DEF IInv

\* The header of the packet is in the buffer.
LEMMA HwHeaderWrittenKeeps == ASSUME IInv, HwHeaderWritten PROVE IInv'
<1> USE DEF HwHeaderWritten, irqVars, loopVars, timeVars, Receives, BeforePacket,
            PacketEnded
<1>0. Flags /\ IInv
  BY FlagTypes DEF IInv
<1>1. TypeOK'
  BY <1>0, NoneAssumption DEF IInv, Flags, TypeOK, LleBits, BbBits, Packet, PacketKinds
<1>2. LegInv' /\ OwnerInv'
  BY <1>0, NoneAssumption DEF IInv, Flags, TypeOK, Operations, LegInv, OwnerInv
<1>3. BufferInv'
  BY <1>0, NoneAssumption DEF IInv, Flags, TypeOK, Operations, LegInv, BufferInv
<1>4. EndInv'
  BY <1>0, NoneAssumption DEF IInv, Flags, TypeOK, Operations, LegInv, EndInv
<1>5. CrcInv'
  BY <1>0, NoneAssumption DEF IInv, Flags, TypeOK, Operations, LegInv, BufferInv, CrcInv
<1>6. CaptureInv'
  BY <1>0, NoneAssumption DEF IInv, Flags, TypeOK, Operations, LegInv, OwnerInv, EndInv,
    BufferInv, CaptureInv, Serviced
<1>7. SentInv'
  BY <1>0, NoneAssumption DEF IInv, Flags, TypeOK, Operations, LegInv, SentInv
<1>8. TakenInv' /\ ReturnedPacketComplete' /\ CrcVerdictKept' /\ TransmittedWasSent'
  BY <1>0, NoneAssumption DEF IInv, Flags, TakenInv, ReturnedPacketComplete,
    CrcVerdictKept, TransmittedWasSent
<1> QED BY <1>1, <1>2, <1>3, <1>4, <1>5, <1>6, <1>7, <1>8 DEF IInv

\* The packet ends with its CRC verdict.
LEMMA HwPacketEndsKeeps == ASSUME IInv, HwPacketEnds PROVE IInv'
<1> USE DEF HwPacketEnds, NonEmpty, irqVars, loopVars, timeVars, Receives, BeforePacket,
            PacketEnded
<1>0. Flags /\ IInv
  BY FlagTypes DEF IInv
<1>1. TypeOK'
  BY <1>0, NoneAssumption DEF IInv, Flags, TypeOK, LleBits, BbBits, Packet, PacketKinds
<1>2. LegInv' /\ OwnerInv'
  BY <1>0, NoneAssumption DEF IInv, Flags, TypeOK, Operations, LegInv, OwnerInv
<1>3. BufferInv'
  BY <1>0, NoneAssumption DEF IInv, Flags, TypeOK, Operations, LegInv, BufferInv
<1>4. EndInv'
  BY <1>0, NoneAssumption DEF IInv, Flags, TypeOK, Operations, LegInv, EndInv
<1>5. CrcInv'
  BY <1>0, NoneAssumption DEF IInv, Flags, TypeOK, Operations, LegInv, BufferInv, CrcInv
<1>6. CaptureInv'
  BY <1>0, NoneAssumption DEF IInv, Flags, TypeOK, Operations, LegInv, OwnerInv, EndInv,
    BufferInv, CaptureInv, Serviced
<1>7. SentInv'
  BY <1>0, NoneAssumption DEF IInv, Flags, TypeOK, Operations, LegInv, SentInv
<1>8. TakenInv' /\ ReturnedPacketComplete' /\ CrcVerdictKept' /\ TransmittedWasSent'
  BY <1>0, NoneAssumption DEF IInv, Flags, TakenInv, ReturnedPacketComplete,
    CrcVerdictKept, TransmittedWasSent
<1> QED BY <1>1, <1>2, <1>3, <1>4, <1>5, <1>6, <1>7, <1>8 DEF IInv

\* The response of an exchange is on air.
LEMMA HwResponseSentKeeps == ASSUME IInv, HwResponseSent PROVE IInv'
<1> USE DEF HwResponseSent, NonEmpty, irqVars, loopVars, timeVars, Receives, BeforePacket,
            PacketEnded
<1>0. Flags /\ IInv
  BY FlagTypes DEF IInv
<1>1. TypeOK'
  BY <1>0, NoneAssumption DEF IInv, Flags, TypeOK, LleBits, BbBits, Packet, PacketKinds
<1>2. LegInv' /\ OwnerInv'
  BY <1>0, NoneAssumption DEF IInv, Flags, TypeOK, Operations, LegInv, OwnerInv
<1>3. BufferInv'
  BY <1>0, NoneAssumption DEF IInv, Flags, TypeOK, Operations, LegInv, BufferInv
<1>4. EndInv'
  BY <1>0, NoneAssumption DEF IInv, Flags, TypeOK, Operations, LegInv, EndInv
<1>5. CrcInv'
  BY <1>0, NoneAssumption DEF IInv, Flags, TypeOK, Operations, LegInv, BufferInv, CrcInv
<1>6. CaptureInv'
  BY <1>0, NoneAssumption DEF IInv, Flags, TypeOK, Operations, LegInv, OwnerInv, EndInv,
    BufferInv, CaptureInv, Serviced
<1>7. SentInv'
  BY <1>0, NoneAssumption DEF IInv, Flags, TypeOK, Operations, LegInv, SentInv
<1>8. TakenInv' /\ ReturnedPacketComplete' /\ CrcVerdictKept' /\ TransmittedWasSent'
  BY <1>0, NoneAssumption DEF IInv, Flags, TakenInv, ReturnedPacketComplete,
    CrcVerdictKept, TransmittedWasSent
<1> QED BY <1>1, <1>2, <1>3, <1>4, <1>5, <1>6, <1>7, <1>8 DEF IInv

\* The packet of transmit_blocking is on air.
LEMMA HwTransmitSentKeeps == ASSUME IInv, HwTransmitSent PROVE IInv'
<1> USE DEF HwTransmitSent, irqVars, loopVars, timeVars, Receives, BeforePacket, PacketEnded
<1>0. Flags /\ IInv
  BY FlagTypes DEF IInv
<1>1. TypeOK'
  BY <1>0, NoneAssumption DEF IInv, Flags, TypeOK, LleBits, BbBits, Packet, PacketKinds
<1>2. LegInv' /\ OwnerInv'
  BY <1>0, NoneAssumption DEF IInv, Flags, TypeOK, Operations, LegInv, OwnerInv
<1>3. BufferInv'
  BY <1>0, NoneAssumption DEF IInv, Flags, TypeOK, Operations, LegInv, BufferInv
<1>4. EndInv'
  BY <1>0, NoneAssumption DEF IInv, Flags, TypeOK, Operations, LegInv, EndInv
<1>5. CrcInv'
  BY <1>0, NoneAssumption DEF IInv, Flags, TypeOK, Operations, LegInv, BufferInv, CrcInv
<1>6. CaptureInv'
  BY <1>0, NoneAssumption DEF IInv, Flags, TypeOK, Operations, LegInv, OwnerInv, EndInv,
    BufferInv, CaptureInv, Serviced
<1>7. SentInv'
  BY <1>0, NoneAssumption DEF IInv, Flags, TypeOK, Operations, LegInv, SentInv
<1>8. TakenInv' /\ ReturnedPacketComplete' /\ CrcVerdictKept' /\ TransmittedWasSent'
  BY <1>0, NoneAssumption DEF IInv, Flags, TakenInv, ReturnedPacketComplete,
    CrcVerdictKept, TransmittedWasSent
<1> QED BY <1>1, <1>2, <1>3, <1>4, <1>5, <1>6, <1>7, <1>8 DEF IInv

\* The countdown expires.
LEMMA HwCountdownExpiresKeeps == ASSUME IInv, HwCountdownExpires PROVE IInv'
<1> USE DEF HwCountdownExpires, irqVars, loopVars, timeVars, Receives, BeforePacket,
            PacketEnded
<1>0. Flags /\ IInv
  BY FlagTypes DEF IInv
<1>1. TypeOK'
  BY <1>0, NoneAssumption DEF IInv, Flags, TypeOK, LleBits, BbBits, Packet, PacketKinds
<1>2. LegInv' /\ OwnerInv'
  BY <1>0, NoneAssumption DEF IInv, Flags, TypeOK, Operations, LegInv, OwnerInv
<1>3. BufferInv'
  BY <1>0, NoneAssumption DEF IInv, Flags, TypeOK, Operations, LegInv, BufferInv
<1>4. EndInv'
  BY <1>0, NoneAssumption DEF IInv, Flags, TypeOK, Operations, LegInv, EndInv
<1>5. CrcInv'
  BY <1>0, NoneAssumption DEF IInv, Flags, TypeOK, Operations, LegInv, BufferInv, CrcInv
<1>6. CaptureInv'
  BY <1>0, NoneAssumption DEF IInv, Flags, TypeOK, Operations, LegInv, OwnerInv, EndInv,
    BufferInv, CaptureInv, Serviced
<1>7. SentInv'
  BY <1>0, NoneAssumption DEF IInv, Flags, TypeOK, Operations, LegInv, SentInv
<1>8. TakenInv' /\ ReturnedPacketComplete' /\ CrcVerdictKept' /\ TransmittedWasSent'
  BY <1>0, NoneAssumption DEF IInv, Flags, TakenInv, ReturnedPacketComplete,
    CrcVerdictKept, TransmittedWasSent
<1> QED BY <1>1, <1>2, <1>3, <1>4, <1>5, <1>6, <1>7, <1>8 DEF IInv

\* The window closes, then the loop's deadline passes.
LEMMA TimePassesKeeps == ASSUME IInv, TimePasses PROVE IInv'
<1> USE DEF TimePasses, hardwareVars, irqVars, loopVars, Receives, BeforePacket, PacketEnded
<1>0. Flags /\ IInv
  BY FlagTypes DEF IInv
<1>1. TypeOK'
  BY <1>0, NoneAssumption DEF IInv, Flags, TypeOK, LleBits, BbBits, Packet, PacketKinds
<1>2. LegInv' /\ OwnerInv'
  BY <1>0, NoneAssumption DEF IInv, Flags, TypeOK, Operations, LegInv, OwnerInv
<1>3. BufferInv'
  BY <1>0, NoneAssumption DEF IInv, Flags, TypeOK, Operations, LegInv, BufferInv
<1>4. EndInv'
  BY <1>0, NoneAssumption DEF IInv, Flags, TypeOK, Operations, LegInv, EndInv
<1>5. CrcInv'
  BY <1>0, NoneAssumption DEF IInv, Flags, TypeOK, Operations, LegInv, BufferInv, CrcInv
<1>6. CaptureInv'
  BY <1>0, NoneAssumption DEF IInv, Flags, TypeOK, Operations, LegInv, OwnerInv, EndInv,
    BufferInv, CaptureInv, Serviced
<1>7. SentInv'
  BY <1>0, NoneAssumption DEF IInv, Flags, TypeOK, Operations, LegInv, SentInv
<1>8. TakenInv' /\ ReturnedPacketComplete' /\ CrcVerdictKept' /\ TransmittedWasSent'
  BY <1>0, NoneAssumption DEF IInv, Flags, TakenInv, ReturnedPacketComplete,
    CrcVerdictKept, TransmittedWasSent
<1> QED BY <1>1, <1>2, <1>3, <1>4, <1>5, <1>6, <1>7, <1>8 DEF IInv

\* The interrupt services the start of a capture.
LEMMA BLEBKeeps == ASSUME IInv, BLEB PROVE IInv'
<1> USE DEF BLEB, CaptureAck, loopVars, timeVars, Receives, BeforePacket, PacketEnded
<1>0. Flags /\ IInv
  BY FlagTypes DEF IInv
<1>1. TypeOK'
  <2>1. /\ lle' \subseteq lle /\ bb' \subseteq bb
        /\ countdown' \in {countdown, "Capture"} /\ capture_seen' \in BOOLEAN
    BY <1>0 DEF Flags
  <2>2. UNCHANGED <<leg, packet, dma, irq, capture_countdown, op, pc, status, seen, armed,
                    buffered, responding, taken, result>>
    OBVIOUS
  <2> QED BY <1>0, <2>1, <2>2 DEF IInv, Flags, TypeOK
<1>2. LegInv' /\ OwnerInv'
  BY <1>0, NoneAssumption DEF IInv, Flags, TypeOK, Operations, LegInv, OwnerInv
<1>3. BufferInv'
  BY <1>0, NoneAssumption DEF IInv, Flags, TypeOK, Operations, LegInv, BufferInv
<1>4. EndInv'
  BY <1>0, NoneAssumption DEF IInv, Flags, TypeOK, Operations, LegInv, EndInv
<1>5. CrcInv'
  BY <1>0, NoneAssumption DEF IInv, Flags, TypeOK, Operations, LegInv, BufferInv, CrcInv
<1>6. CaptureInv'
  BY <1>0, NoneAssumption DEF IInv, Flags, TypeOK, Operations, LegInv, OwnerInv, EndInv,
    BufferInv, CaptureInv, Serviced
<1>7. SentInv'
  BY <1>0, NoneAssumption DEF IInv, Flags, TypeOK, Operations, LegInv, SentInv
<1>8. TakenInv' /\ ReturnedPacketComplete' /\ CrcVerdictKept' /\ TransmittedWasSent'
  BY <1>0, NoneAssumption DEF IInv, Flags, TakenInv, ReturnedPacketComplete,
    CrcVerdictKept, TransmittedWasSent
<1> QED BY <1>1, <1>2, <1>3, <1>4, <1>5, <1>6, <1>7, <1>8 DEF IInv

-----------------------------------------------------------------------------
(***************************************************************************)
(* The loops.                                                              *)
(***************************************************************************)
\* A loop goes on to its next read.
GoesOn(next) ==
  /\ pc' = next
  /\ UNCHANGED <<hardwareVars, irqVars, op, loopVars, timeVars, result>>

\* Going on to the next read keeps the invariant.
LEMMA GoesOnKeeps ==
  ASSUME IInv, op # None, NEW next, GoesOn(next),
         next = "ReadStatus" \/ (next = "Decide" /\ op = "Transmit")
  PROVE  IInv'
<1> USE DEF GoesOn, hardwareVars, irqVars, loopVars, timeVars
<1>1. TypeOK'
  BY DEF IInv, TypeOK
<1>2. LegInv' /\ OwnerInv' /\ BufferInv' /\ EndInv' /\ CrcInv'
  BY DEF IInv, LegInv, OwnerInv, BufferInv, EndInv, CrcInv, Receives, BeforePacket,
    PacketEnded
<1>3. CaptureInv' /\ SentInv'
  BY DEF IInv, CaptureInv, Serviced, SentInv, Receives, BeforePacket, PacketEnded
<1>4. TakenInv' /\ ReturnedPacketComplete' /\ CrcVerdictKept' /\ TransmittedWasSent'
  BY DEF IInv, TakenInv, ReturnedPacketComplete, CrcVerdictKept, TransmittedWasSent
<1> QED BY <1>1, <1>2, <1>3, <1>4 DEF IInv

\* What the advertising loop returns is good: the packet it has taken.
LEMMA AdvertisingResultGood == ASSUME IInv PROVE GoodOutcome(AdvertisingResult)
<1>1. CASE taken = None
  BY <1>1 DEF AdvertisingResult, GoodOutcome
<1>2. CASE taken # None
  <2>1. taken \in Result /\ TakenInv
    BY <1>2 DEF IInv, TypeOK
  <2>2. /\ AdvertisingResult \in Result
        /\ AdvertisingResult.packet = taken.packet
        /\ AdvertisingResult.complete = taken.complete
        /\ AdvertisingResult.transmitted = taken.transmitted
    BY <1>2, <2>1 DEF AdvertisingResult, Result
  <2> QED BY <1>2, <2>1, <2>2 DEF GoodOutcome, TakenInv
<1> QED BY <1>1, <1>2

\* What exchange returns is good when it saw the packet end, and claims a
\* transmission only of a response that was on air.
LEMMA ExchangeResultGood ==
  ASSUME IInv, op = "Exchange", NEW ended \in BOOLEAN, NEW transmitted \in BOOLEAN,
         ended => PacketEnded, transmitted => leg = "Sent"
  PROVE  GoodOutcome(ExchangeResult(ended, transmitted))
<1>1. CASE ended /\ Copied
  BY <1>1, TakenGood DEF ExchangeResult, Receives
<1>2. CASE ~(ended /\ Copied)
  BY <1>2 DEF ExchangeResult, GoodOutcome
<1> QED BY <1>1, <1>2

\* The advertising loop reads the status, arms the receiver or gives up.
LEMMA AdvertisingReadsStatusKeeps == ASSUME IInv, AdvertisingReadsStatus PROVE IInv'
<1> USE DEF AdvertisingReadsStatus, ContinueTxToRx, hardwareVars, irqVars, loopVars,
            timeVars, Receives, BeforePacket, PacketEnded
<1>0. Flags /\ IInv
  BY FlagTypes DEF IInv
<1>1. CASE late
  BY <1>0, <1>1, AdvertisingResultGood, ShutsDownKeeps
<1>2. CASE ~late
  <2>1. TypeOK'
    BY <1>0, <1>2, NoneAssumption DEF IInv, Flags, TypeOK, LleBits, BbBits, Packet,
      PacketKinds
  <2>2. LegInv' /\ OwnerInv'
    BY <1>0, <1>2, NoneAssumption DEF IInv, Flags, TypeOK, Operations, LegInv, OwnerInv
  <2>3. BufferInv'
    BY <1>0, <1>2, NoneAssumption DEF IInv, Flags, TypeOK, Operations, LegInv, BufferInv
  <2>4. EndInv'
    BY <1>0, <1>2, NoneAssumption DEF IInv, Flags, TypeOK, Operations, LegInv, EndInv
  <2>5. CrcInv'
    BY <1>0, <1>2, NoneAssumption DEF IInv, Flags, TypeOK, Operations, LegInv, BufferInv,
      CrcInv
  <2>6. CaptureInv'
    BY <1>0, <1>2, NoneAssumption DEF IInv, Flags, TypeOK, Operations, LegInv, OwnerInv,
      EndInv, BufferInv, CaptureInv, Serviced
  <2>7. SentInv'
    BY <1>0, <1>2, NoneAssumption DEF IInv, Flags, TypeOK, Operations, LegInv, SentInv
  <2>8. TakenInv' /\ ReturnedPacketComplete' /\ CrcVerdictKept' /\ TransmittedWasSent'
    BY <1>0, <1>2, NoneAssumption DEF IInv, Flags, TakenInv, ReturnedPacketComplete,
      CrcVerdictKept, TransmittedWasSent
  <2> QED BY <2>1, <2>2, <2>3, <2>4, <2>5, <2>6, <2>7, <2>8 DEF IInv
<1> QED BY <1>1, <1>2

\* The advertising loop reads the header and the interrupt's flag.
LEMMA AdvertisingReadsCaptureKeeps == ASSUME IInv, AdvertisingReadsCapture PROVE IInv'
<1> USE DEF AdvertisingReadsCapture, Copied, hardwareVars, irqVars, loopVars, timeVars,
            Receives, BeforePacket, PacketEnded
<1>0. Flags /\ IInv
  BY FlagTypes DEF IInv
<1>1. TypeOK'
  BY <1>0, NoneAssumption DEF IInv, Flags, TypeOK, LleBits, BbBits, Packet, PacketKinds
<1>2. LegInv' /\ OwnerInv'
  BY <1>0, NoneAssumption DEF IInv, Flags, TypeOK, Operations, LegInv, OwnerInv
<1>3. BufferInv'
  BY <1>0, NoneAssumption DEF IInv, Flags, TypeOK, Operations, LegInv, BufferInv
<1>4. EndInv'
  BY <1>0, NoneAssumption DEF IInv, Flags, TypeOK, Operations, LegInv, EndInv
<1>5. CrcInv'
  BY <1>0, NoneAssumption DEF IInv, Flags, TypeOK, Operations, LegInv, BufferInv, CrcInv
<1>6. CaptureInv'
  BY <1>0, NoneAssumption DEF IInv, Flags, TypeOK, Operations, LegInv, OwnerInv, EndInv,
    BufferInv, CaptureInv, Serviced
<1>7. SentInv'
  BY <1>0, NoneAssumption DEF IInv, Flags, TypeOK, Operations, LegInv, SentInv
<1>8. TakenInv' /\ ReturnedPacketComplete' /\ CrcVerdictKept' /\ TransmittedWasSent'
  BY <1>0, NoneAssumption DEF IInv, Flags, TakenInv, ReturnedPacketComplete,
    CrcVerdictKept, TransmittedWasSent
<1> QED BY <1>1, <1>2, <1>3, <1>4, <1>5, <1>6, <1>7, <1>8 DEF IInv

\* The advertising loop takes a packet only at its end, or a long one.
LEMMA AdvertisingTakesKeeps == ASSUME IInv, AdvertisingTakes PROVE IInv'
<1> USE DEF AdvertisingTakes, Captured, BufferedScanDue, hardwareVars, irqVars, loopVars,
            timeVars, Receives, BeforePacket, PacketEnded
<1>0. Flags /\ IInv
  BY FlagTypes DEF IInv
<1>1. TypeOK'
  BY <1>0, NoneAssumption DEF IInv, Flags, TypeOK, LleBits, BbBits, Packet, PacketKinds
<1>2. LegInv' /\ OwnerInv'
  BY <1>0, NoneAssumption DEF IInv, Flags, TypeOK, Operations, LegInv, OwnerInv
<1>3. BufferInv'
  BY <1>0, NoneAssumption DEF IInv, Flags, TypeOK, Operations, LegInv, BufferInv
<1>4. EndInv'
  BY <1>0, NoneAssumption DEF IInv, Flags, TypeOK, Operations, LegInv, EndInv
<1>5. CrcInv'
  BY <1>0, NoneAssumption DEF IInv, Flags, TypeOK, Operations, LegInv, BufferInv, CrcInv
<1>6. CaptureInv'
  BY <1>0, NoneAssumption DEF IInv, Flags, TypeOK, Operations, LegInv, OwnerInv, EndInv,
    BufferInv, CaptureInv, Serviced
<1>7. SentInv'
  BY <1>0, NoneAssumption DEF IInv, Flags, TypeOK, Operations, LegInv, SentInv
<1>8. TakenInv' /\ ReturnedPacketComplete' /\ CrcVerdictKept' /\ TransmittedWasSent'
  BY <1>0, NoneAssumption DEF IInv, Flags, TakenInv, ReturnedPacketComplete,
    CrcVerdictKept, TransmittedWasSent
<1> QED BY <1>1, <1>2, <1>3, <1>4, <1>5, <1>6, <1>7, <1>8 DEF IInv

\* The advertising loop goes on, or returns once it has answered.
LEMMA AdvertisingLoopsKeeps == ASSUME IInv, AdvertisingLoops PROVE IInv'
<1> USE DEF AdvertisingLoops, hardwareVars, irqVars, loopVars, timeVars, Receives,
            BeforePacket, PacketEnded
<1>0. Flags /\ IInv
  BY FlagTypes DEF IInv
<1>1. CASE responding /\ status \cap {"RxComplete", "TxComplete"} # {}
  BY <1>0, <1>1, AdvertisingResultGood, ShutsDownKeeps
<1>2. CASE ~(responding /\ status \cap {"RxComplete", "TxComplete"} # {})
  BY <1>0, <1>2, GoesOnKeeps, NoneAssumption DEF GoesOn, Operations
<1> QED BY <1>1, <1>2

\* The advertising loop answers, returns or drops the packet.
LEMMA AdvertisingClassifiesKeeps == ASSUME IInv, AdvertisingClassifies PROVE IInv'
<1> USE DEF AdvertisingClassifies, ReleaseReceiveToTransmit, hardwareVars, irqVars,
            loopVars, timeVars, Receives, BeforePacket, PacketEnded
<1>0. Flags /\ IInv
  BY FlagTypes DEF IInv
<1>1. CASE ~Copied
  BY <1>0, <1>1, GoesOnKeeps, NoneAssumption DEF GoesOn, Operations
<1>2. CASE Copied /\ CrcOk /\ packet.kind = "ScanReq"
  <2>1. leg = "Received" /\ ~responding /\ dma = "Full" /\ packet \in Packet /\ packet.good
    BY <1>0, <1>2 DEF IInv, Flags, TypeOK, Operations, LegInv, BufferInv, CrcInv, CrcOk,
      CaptureInv, Copied
  <2>2. /\ lle' \subseteq lle /\ op = "Advertise"
        /\ countdown' = "Transmit" /\ leg' = "Respond" /\ responding' = TRUE
        /\ pc' = "ReadStatus"
        /\ UNCHANGED <<bb, packet, dma, irq, capture_seen, capture_countdown, op, status,
                       seen, armed, buffered, result>>
    BY <1>2
  <2>3. /\ taken' \in Result /\ taken'.packet = packet
        /\ taken'.complete /\ ~taken'.transmitted
    <3>1. taken' = Taken(TRUE, FALSE)
      BY <1>2, Zenon
    <3> QED BY <2>1, <3>1, TakenFields, Zenon
  <2>4. TypeOK'
    <3>1. responding' \in BOOLEAN
      BY <2>2
    <3> QED BY <1>0, <2>2, <2>3, <3>1 DEF IInv, Flags, TypeOK
  <2>5. LegInv' /\ OwnerInv'
    BY <1>0, <2>1, <2>2 DEF IInv, LegInv, OwnerInv
  <2>6. BufferInv' /\ EndInv' /\ CrcInv'
    BY <1>0, <2>1, <2>2 DEF IInv, BufferInv, EndInv, CrcInv
  <2>7. CaptureInv' /\ SentInv'
    BY <1>0, <2>1, <2>2 DEF IInv, CaptureInv, Serviced, SentInv
  <2>8. TakenInv'
    BY <2>1, <2>2, <2>3, NoneAssumption DEF IInv, TakenInv
  <2>9. ReturnedPacketComplete' /\ CrcVerdictKept' /\ TransmittedWasSent'
    BY <1>0, <2>2 DEF IInv, ReturnedPacketComplete, CrcVerdictKept, TransmittedWasSent
  <2> QED BY <2>4, <2>5, <2>6, <2>7, <2>8, <2>9 DEF IInv
<1>3. CASE Copied /\ ~(CrcOk /\ packet.kind = "ScanReq")
  BY <1>0, <1>3, TakenGood, ShutsDownKeeps DEF IInv, CaptureInv, Copied
<1> QED BY <1>1, <1>2, <1>3

\* The loop of exchange reads the status or gives up.
LEMMA ExchangeReadsStatusKeeps == ASSUME IInv, ExchangeReadsStatus PROVE IInv'
<1> USE DEF ExchangeReadsStatus, hardwareVars, irqVars, loopVars, timeVars, Receives,
            BeforePacket, PacketEnded
<1>0. Flags /\ IInv
  BY FlagTypes DEF IInv
<1>1. CASE late
  BY <1>0, <1>1, ExchangeResultGood, ShutsDownKeeps DEF IInv, LegInv, Flags
<1>2. CASE ~late
  <2>1. TypeOK'
    BY <1>0, <1>2, NoneAssumption DEF IInv, Flags, TypeOK, LleBits, BbBits, Packet,
      PacketKinds
  <2>2. LegInv' /\ OwnerInv'
    BY <1>0, <1>2, NoneAssumption DEF IInv, Flags, TypeOK, Operations, LegInv, OwnerInv
  <2>3. BufferInv'
    BY <1>0, <1>2, NoneAssumption DEF IInv, Flags, TypeOK, Operations, LegInv, BufferInv
  <2>4. EndInv'
    BY <1>0, <1>2, NoneAssumption DEF IInv, Flags, TypeOK, Operations, LegInv, EndInv
  <2>5. CrcInv'
    BY <1>0, <1>2, NoneAssumption DEF IInv, Flags, TypeOK, Operations, LegInv, BufferInv,
      CrcInv
  <2>6. CaptureInv'
    BY <1>0, <1>2, NoneAssumption DEF IInv, Flags, TypeOK, Operations, LegInv, OwnerInv,
      EndInv, BufferInv, CaptureInv, Serviced
  <2>7. SentInv'
    BY <1>0, <1>2, NoneAssumption DEF IInv, Flags, TypeOK, Operations, LegInv, SentInv
  <2>8. TakenInv' /\ ReturnedPacketComplete' /\ CrcVerdictKept' /\ TransmittedWasSent'
    BY <1>0, <1>2, NoneAssumption DEF IInv, Flags, TakenInv, ReturnedPacketComplete,
      CrcVerdictKept, TransmittedWasSent
  <2> QED BY <2>1, <2>2, <2>3, <2>4, <2>5, <2>6, <2>7, <2>8 DEF IInv
<1> QED BY <1>1, <1>2

\* exchange releases the response to a packet that has ended.
LEMMA ExchangeRespondsKeeps == ASSUME IInv, ExchangeResponds PROVE IInv'
<1> USE DEF ExchangeResponds, Released, hardwareVars, irqVars, loopVars, timeVars,
            Receives, BeforePacket, PacketEnded
<1>0. Flags /\ IInv
  BY FlagTypes DEF IInv
<1>1. CASE ~CrcOk \/ packet.kind = "Long"
  BY <1>0, <1>1, ExchangeResultGood, ShutsDownKeeps DEF IInv, EndInv
<1>2. CASE ~(~CrcOk \/ packet.kind = "Long")
  <2>1. leg = "Received" /\ ~responding /\ dma = "Full" /\ packet \in Packet /\ packet.good
    BY <1>0, <1>2 DEF IInv, Flags, TypeOK, Operations, LegInv, BufferInv, CrcInv, CrcOk,
      EndInv
  <2>2. /\ lle' \subseteq lle /\ "RxComplete" \notin lle' /\ op = "Exchange"
        /\ countdown' = "Transmit" /\ leg' = "Respond" /\ responding' = TRUE
        /\ pc' = "ReadStatus"
        /\ UNCHANGED <<bb, packet, dma, irq, capture_seen, capture_countdown, op, status,
                       seen, armed, buffered, result>>
    BY <1>2
  <2>3. taken' = taken
    BY <1>2
  <2>4. TypeOK'
    <3>1. responding' \in BOOLEAN
      BY <2>2
    <3> QED BY <1>0, <2>2, <2>3, <3>1 DEF IInv, Flags, TypeOK
  <2>5. LegInv' /\ OwnerInv'
    BY <1>0, <2>1, <2>2 DEF IInv, LegInv, OwnerInv
  <2>6. BufferInv' /\ EndInv' /\ CrcInv'
    BY <1>0, <2>1, <2>2 DEF IInv, BufferInv, EndInv, CrcInv
  <2>7. CaptureInv' /\ SentInv'
    BY <1>0, <2>1, <2>2 DEF IInv, CaptureInv, Serviced, SentInv
  <2>8. TakenInv'
    BY <1>0, <2>1, <2>3 DEF IInv, TakenInv
  <2>9. ReturnedPacketComplete' /\ CrcVerdictKept' /\ TransmittedWasSent'
    BY <1>0, <2>2 DEF IInv, ReturnedPacketComplete, CrcVerdictKept, TransmittedWasSent
  <2> QED BY <2>4, <2>5, <2>6, <2>7, <2>8, <2>9 DEF IInv
<1> QED BY <1>1, <1>2

\* exchange returns a confirmed response, gives up or goes on.
LEMMA ExchangeLoopsKeeps == ASSUME IInv, ExchangeLoops PROVE IInv'
<1> USE DEF ExchangeLoops, hardwareVars, irqVars, loopVars, timeVars, Receives,
            BeforePacket, PacketEnded
<1>0. Flags /\ IInv
  BY FlagTypes DEF IInv
<1>1. CASE responding /\ "RxComplete" \in status
  BY <1>0, <1>1, ExchangeResultGood, ShutsDownKeeps DEF IInv, LegInv, SentInv, TypeOK
<1>2. CASE ~(responding /\ "RxComplete" \in status) /\ (countdown = "Expired" \/ (~responding /\ over))
  BY <1>0, <1>2, ExchangeResultGood, ShutsDownKeeps DEF IInv, LegInv, Flags
<1>3. CASE ~(responding /\ "RxComplete" \in status) /\ ~(countdown = "Expired" \/ (~responding /\ over))
  BY <1>0, <1>3, GoesOnKeeps, NoneAssumption DEF GoesOn, Operations
<1> QED BY <1>1, <1>2, <1>3

\* receive_blocking services the start of the capture itself.
LEMMA ScanPollsKeeps == ASSUME IInv, ScanPolls PROVE IInv'
<1> USE DEF ScanPolls, CaptureAck, hardwareVars, irqVars, loopVars, timeVars, Receives,
            BeforePacket, PacketEnded
<1>0. Flags /\ IInv
  BY FlagTypes DEF IInv
<1>1. TypeOK'
  <2>1. /\ lle' \subseteq lle /\ bb' \subseteq bb
        /\ countdown' \in {countdown, "Capture"} /\ armed' \in BOOLEAN
    BY <1>0 DEF Flags
  <2> QED BY <1>0, <2>1, NoneAssumption DEF IInv, Flags, TypeOK, Operations
<1>2. LegInv' /\ OwnerInv'
  BY <1>0, NoneAssumption DEF IInv, Flags, TypeOK, Operations, LegInv, OwnerInv
<1>3. BufferInv'
  BY <1>0, NoneAssumption DEF IInv, Flags, TypeOK, Operations, LegInv, BufferInv
<1>4. EndInv'
  BY <1>0, NoneAssumption DEF IInv, Flags, TypeOK, Operations, LegInv, EndInv
<1>5. CrcInv'
  BY <1>0, NoneAssumption DEF IInv, Flags, TypeOK, Operations, LegInv, BufferInv, CrcInv
<1>6. CaptureInv'
  BY <1>0, NoneAssumption DEF IInv, Flags, TypeOK, Operations, LegInv, OwnerInv, EndInv,
    BufferInv, CaptureInv, Serviced
<1>7. SentInv'
  BY <1>0, NoneAssumption DEF IInv, Flags, TypeOK, Operations, LegInv, SentInv
<1>8. TakenInv' /\ ReturnedPacketComplete' /\ CrcVerdictKept' /\ TransmittedWasSent'
  BY <1>0, NoneAssumption DEF IInv, Flags, TakenInv, ReturnedPacketComplete,
    CrcVerdictKept, TransmittedWasSent
<1> QED BY <1>1, <1>2, <1>3, <1>4, <1>5, <1>6, <1>7, <1>8 DEF IInv

\* receive_blocking returns the packet it was armed for, gives up or goes on.
LEMMA ScanDecidesKeeps == ASSUME IInv, ScanDecides PROVE IInv'
<1> USE DEF ScanDecides, hardwareVars, irqVars, loopVars, timeVars, Receives, BeforePacket,
            PacketEnded
<1>0. Flags /\ IInv
  BY FlagTypes DEF IInv
<1>1. CASE armed /\ lle \cap {"RxComplete", "Timing"} # {}
  BY <1>0, <1>1, TakenGood, ShutsDownKeeps DEF IInv, EndInv, CaptureInv, Serviced, LegInv,
    GoodOutcome, Copied
<1>2. CASE ~(armed /\ lle \cap {"RxComplete",
  "Timing"} # {}) /\ (countdown = "Expired" \/ (~armed /\ over) \/ late)
  BY <1>0, <1>2, ShutsDownKeeps DEF GoodOutcome
<1>3. CASE ~(armed /\ lle \cap {"RxComplete",
  "Timing"} # {}) /\ ~(countdown = "Expired" \/ (~armed /\ over) \/ late)
  BY <1>0, <1>3, GoesOnKeeps, NoneAssumption DEF GoesOn, Operations
<1> QED BY <1>1, <1>2, <1>3

\* transmit_blocking returns once its own packet is on air.
LEMMA TransmitReadsStatusKeeps == ASSUME IInv, TransmitReadsStatus PROVE IInv'
<1> USE DEF TransmitReadsStatus, hardwareVars, irqVars, loopVars, timeVars, Receives,
            BeforePacket, PacketEnded
<1>0. Flags /\ IInv
  BY FlagTypes DEF IInv
<1>1. CASE "TxComplete" \in lle
  <2>1. Transmitted \in Result /\ Transmitted.packet = None /\ Transmitted.sent = (leg = "Sent")
        /\ ~Transmitted.crc_ok
    BY DEF Transmitted, Result
  <2>2. leg = "Sent"
    BY <1>0, <1>1 DEF IInv, SentInv
  <2>3. GoodOutcome(Transmitted)
    BY <2>1, <2>2 DEF GoodOutcome
  <2> QED BY <1>0, <1>1, <2>3, ShutsDownKeeps
<1>2. CASE "TxComplete" \notin lle
  BY <1>0, <1>2, GoesOnKeeps, NoneAssumption DEF GoesOn, Operations
<1> QED BY <1>1, <1>2

\* transmit_blocking gives up or goes on.
LEMMA TransmitDecidesKeeps == ASSUME IInv, TransmitDecides PROVE IInv'
<1> USE DEF TransmitDecides, hardwareVars, irqVars, loopVars, timeVars, Receives,
            BeforePacket, PacketEnded
<1>0. Flags /\ IInv
  BY FlagTypes DEF IInv
<1>1. CASE countdown = "Expired" \/ late
  BY <1>0, <1>1, ShutsDownKeeps DEF GoodOutcome
<1>2. CASE ~(countdown = "Expired" \/ late)
  BY <1>0, <1>2, GoesOnKeeps, NoneAssumption DEF GoesOn, Operations
<1> QED BY <1>1, <1>2

-----------------------------------------------------------------------------
(***************************************************************************)
(* The theorems.                                                           *)
(***************************************************************************)
\* The invariant holds whatever the baseband, the interrupt and the four
\* operations of radio.rs do between two reads of a loop.
THEOREM RadioInvariant == Spec => []IInv
<1>1. Init => IInv
  <2> SUFFICES ASSUME Init PROVE IInv
    OBVIOUS
  <2> USE NoneAssumption DEF Init
  <2>1. TypeOK
    BY DEF TypeOK
  <2>2. LegInv /\ OwnerInv /\ BufferInv /\ EndInv /\ CrcInv /\ CaptureInv /\ SentInv /\ TakenInv
    BY DEF LegInv, OwnerInv, BufferInv, EndInv, CrcInv, CaptureInv, SentInv, TakenInv,
      Receives, Operations
  <2>3. ReturnedPacketComplete /\ CrcVerdictKept /\ TransmittedWasSent
    BY DEF ReturnedPacketComplete, CrcVerdictKept, TransmittedWasSent
  <2> QED BY <2>1, <2>2, <2>3 DEF IInv
<1>2. IInv /\ [Next]_vars => IInv'
  <2> SUFFICES ASSUME IInv, [Next]_vars PROVE IInv'
    OBVIOUS
  <2>1. CASE Hardware
    BY <2>1, HwAdvertSentKeeps, HwPacketStartsKeeps, HwHeaderWrittenKeeps, HwPacketEndsKeeps,
      HwResponseSentKeeps, HwTransmitSentKeeps, HwCountdownExpiresKeeps DEF Hardware
  <2>2. CASE TimePasses \/ BLEB \/ SettleTimesOut
    BY <2>2, TimePassesKeeps, BLEBKeeps, SettleTimesOutKeeps
  <2>3. CASE StartsAdvertising \/ StartsExchange \/ StartsScan \/ StartsTransmit
    BY <2>3, BeginsKeeps
  <2>4. CASE Loop
    BY <2>4, AdvertisingReadsStatusKeeps, AdvertisingReadsCaptureKeeps, AdvertisingTakesKeeps,
      AdvertisingLoopsKeeps, AdvertisingClassifiesKeeps, ExchangeReadsStatusKeeps,
      ExchangeRespondsKeeps, ExchangeLoopsKeeps, ScanPollsKeeps, ScanDecidesKeeps,
      TransmitReadsStatusKeeps, TransmitDecidesKeeps DEF Loop
  <2>5. CASE UNCHANGED vars
    <3> USE <2>5 DEF vars, hardwareVars, irqVars, loopVars, timeVars
    <3>1. TypeOK'
      BY DEF IInv, TypeOK
    <3>2. LegInv' /\ OwnerInv' /\ BufferInv' /\ EndInv' /\ CrcInv' /\ CaptureInv' /\ SentInv'
      BY DEF IInv, LegInv, OwnerInv, BufferInv, EndInv, CrcInv, CaptureInv, SentInv, Receives,
        BeforePacket, PacketEnded, Serviced
    <3>3. TakenInv' /\ ReturnedPacketComplete' /\ CrcVerdictKept' /\ TransmittedWasSent'
      BY DEF IInv, TakenInv, ReturnedPacketComplete, CrcVerdictKept, TransmittedWasSent
    <3> QED BY <3>1, <3>2, <3>3 DEF IInv
  <2> QED BY <2>1, <2>2, <2>3, <2>4, <2>5 DEF Next
<1> QED BY <1>1, <1>2, PTL DEF Spec

\* Every register, flag and copy of a register has its type.
THEOREM RadioTypes == Spec => []TypeOK
<1>1. IInv => TypeOK
  BY DEF IInv
<1> QED BY <1>1, RadioInvariant, PTL

\* However an operation ends, it leaves nothing on air, the BLEB interrupt
\* enabled and no countdown that the interrupt could re-arm.
THEOREM RadioQuiet == Spec => []QuietBetweenOperations
<1>1. IInv => QuietBetweenOperations
  BY NoneAssumption, FlagTypes
  DEF IInv, LegInv, OwnerInv, QuietBetweenOperations, Operations, Flags
<1> QED BY <1>1, RadioInvariant, PTL

\* No operation returns a packet that is not complete in RX_BUFFER.
THEOREM RadioComplete == Spec => []ReturnedPacketComplete
<1>1. IInv => ReturnedPacketComplete
  BY DEF IInv
<1> QED BY <1>1, RadioInvariant, PTL

\* No operation returns crc_ok for a packet with a broken CRC.
THEOREM RadioCrc == Spec => []CrcVerdictKept
<1>1. IInv => CrcVerdictKept
  BY DEF IInv
<1> QED BY <1>1, RadioInvariant, PTL

\* `transmitted`, and the Ok of transmit_blocking, mean that the packet of
\* this operation was on air.
THEOREM RadioTransmitted == Spec => []TransmittedWasSent
<1>1. IInv => TransmittedWasSent
  BY DEF IInv
<1> QED BY <1>1, RadioInvariant, PTL
=============================================================================
