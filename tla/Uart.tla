-------------------------------- MODULE Uart --------------------------------
(***************************************************************************)
(* The blocking UART driver of src/uart.rs and the hardware it polls: the  *)
(* two FIFOs, the transmit shift register and the line-status register.    *)
(*                                                                         *)
(* The driver is polled, the line is not: bytes arrive and leave between   *)
(* any two register accesses, so every register access of a call is a step *)
(* of its own.  &mut self allows one call at a time.  embedded_io's read,  *)
(* write and flush and fmt::Write are blocking_read, blocking_write_all    *)
(* and blocking_flush.                                                     *)
(*                                                                         *)
(* External: a byte that arrives at a full FIFO is lost and sets OVER_ERR, *)
(* which reading the status clears; parity, framing and break errors       *)
(* belong to the byte at the head of the FIFO; a write to a full transmit  *)
(* FIFO is lost.  A byte is its number in the session; its value, the four *)
(* kinds of error, the pins and the baud rate are left out.  hole and      *)
(* tx_hole are history variables, as are seen, errors and wire.            *)
(***************************************************************************)
EXTENDS Naturals, Sequences, Functions

CONSTANTS
  FIFO_CAPACITY,   \* 8
  MaxBytes,        \* bytes per session and direction (bounds the model)
  MaxBuffer,       \* the longest buffer of a call (bounds the model)
  None             \* no call, no byte, no loss

ASSUME UartAssumption ==
  /\ FIFO_CAPACITY \in Nat \ {0} /\ MaxBytes \in Nat /\ MaxBuffer \in Nat
  /\ None \notin Nat

VARIABLES
  open,        \* a Uart exists
  rx,          \* receive FIFO: [byte, bad]
  overrun,     \* OVER_ERR
  arriving,    \* number of the next byte of the line
  seen,        \* the bytes the caller has read since the last Err
  errors,      \* parity of the number of Errs
  hole,        \* the first lost byte no error has been noticed for
  tx,          \* transmit FIFO
  shift,       \* transmit shift register
  txd_en,      \* TXD_EN
  writing,     \* number of the next byte the driver writes
  wire,        \* what has left on the line
  tx_hole,     \* the first byte written to a full FIFO
  call,        \* the call that is running
  result       \* what the last call returned

lineVars == <<rx, overrun, arriving, hole>>
sendVars == <<tx, shift, txd_en, writing, wire, tx_hole>>
readVars == <<seen, errors>>
vars == <<open, lineVars, readVars, sendVars, call, result>>

Reads == {"try_read", "blocking_read"}
Writes == {"try_write", "blocking_write_all"}
\* left: bytes the buffer still has room for, or still has to write;
\* pc: the register access that is next; told: the loss an Err will report.
Call(op, left, pc) ==
  [op |-> op, left |-> left, taken |-> << >>, pc |-> pc, told |-> None]
Calls ==
  [op : Reads \cup Writes \cup {"blocking_flush"}, left : Nat, taken : Seq(Nat),
   pc : {"status", "data", "drop", "fail", "room", "byte", "idle"}, told : Nat \cup {None}]

ASSUME CallAssumption == None \notin Calls

Init ==
  /\ open = FALSE
  /\ rx = << >> /\ overrun = FALSE /\ arriving = 1 /\ hole = None
  /\ seen = << >> /\ errors = 0
  /\ tx = << >> /\ shift = None /\ txd_en = FALSE
  /\ writing = 1 /\ wire = << >> /\ tx_hole = None
  /\ call = None /\ result = "None"
-----------------------------------------------------------------------------
(***************************************************************************)
(* The hardware.                                                           *)
(***************************************************************************)
Arrive(bad) ==
  /\ arriving <= MaxBytes
  /\ arriving' = arriving + 1
  /\ IF Len(rx) < FIFO_CAPACITY
     THEN rx' = Append(rx, [byte |-> arriving, bad |-> bad]) /\ UNCHANGED overrun
     ELSE overrun' = TRUE /\ UNCHANGED rx
  /\ hole' = IF hole = None /\ (bad \/ Len(rx) >= FIFO_CAPACITY) THEN arriving ELSE hole
  /\ UNCHANGED <<open, readVars, sendVars, call, result>>

LoadShift ==
  /\ txd_en /\ tx # << >> /\ shift = None
  /\ shift' = Head(tx) /\ tx' = Tail(tx)
  /\ UNCHANGED <<open, lineVars, readVars, txd_en, writing, wire, tx_hole, call, result>>

ShiftOut ==
  /\ txd_en /\ shift # None
  /\ wire' = Append(wire, shift) /\ shift' = None
  /\ UNCHANGED <<open, lineVars, readVars, tx, txd_en, writing, tx_hole, call, result>>

\* Mutant of TxAllEmp: only the FIFO has to be empty.
TxFifoEmp == tx = << >>

\* TX_ALL_EMP
TxAllEmp == tx = << >> /\ shift = None

\* Mutant of TxHasRoom: one byte too many.
TxHasRoomOffByOne == Len(tx) <= FIFO_CAPACITY

\* The transmit FIFO count is below the capacity.
TxHasRoom == Len(tx) < FIFO_CAPACITY

\* Mutant of StatusError: OVER_ERR is not looked at.
StatusErrorWithoutOverrun == rx # << >> /\ Head(rx).bad

\* One of the four error bits of the line status is set.
StatusError == overrun \/ (rx # << >> /\ Head(rx).bad)
-----------------------------------------------------------------------------
(***************************************************************************)
(* Uart::new and Drop.                                                     *)
(***************************************************************************)
\* configure resets the peripheral and clears both FIFOs: a new session.
ClearFifos ==
  /\ rx' = << >> /\ overrun' = FALSE /\ tx' = << >> /\ shift' = None
  /\ arriving' = 1 /\ hole' = None /\ seen' = << >> /\ errors' = 0
  /\ writing' = 1 /\ wire' = << >> /\ tx_hole' = None

\* Mutant of New: TXD_EN is not set.
NewWithoutTxd ==
  /\ ~open /\ ClearFifos
  /\ open' = TRUE /\ result' = "None"
  /\ UNCHANGED <<txd_en, call>>

New ==
  /\ ~open /\ ClearFifos
  /\ open' = TRUE /\ txd_en' = TRUE /\ result' = "None"
  /\ UNCHANGED call

\* A pin mismatch or an impossible baud rate: no UART register is written.
NewRefused ==
  /\ ~open
  /\ result' = "ConfigError"
  /\ UNCHANGED <<open, lineVars, readVars, sendVars, call>>

\* Drop clears IER, TXD_EN with it, and does not wait for the transmitter.
Drop ==
  /\ open /\ call = None
  /\ open' = FALSE /\ txd_en' = FALSE
  /\ UNCHANGED <<lineVars, readVars, tx, shift, writing, wire, tx_hole, call, result>>
-----------------------------------------------------------------------------
(***************************************************************************)
(* Reading.                                                                *)
(***************************************************************************)
StartRead(op, len) ==
  /\ open /\ call = None
  /\ call' = Call(op, len, "status")
  /\ result' = "None"
  /\ UNCHANGED <<open, lineVars, readVars, sendVars>>

ReturnOk(c) ==
  /\ seen' = seen \o c.taken
  /\ call' = None /\ result' = "Ok"
  /\ UNCHANGED errors

\* The buffer is full, or one turn of receive_byte up to its look at the
\* status.  An error is noticed here and returned once the head is gone.
\* blocking_read starts again when it has no byte.
ReadStatus ==
  /\ call # None /\ call.op \in Reads /\ call.pc = "status"
  /\ IF call.left = 0
     THEN ReturnOk(call) /\ UNCHANGED <<overrun, hole>>
     ELSE /\ overrun' = FALSE
          /\ IF StatusError
             THEN /\ call' = [call EXCEPT !.pc = IF rx = << >> THEN "fail" ELSE "drop",
                                         !.told = hole]
                  /\ hole' = None /\ UNCHANGED <<readVars, result>>
             ELSE /\ UNCHANGED hole
                  /\ IF rx # << >>
                     THEN call' = [call EXCEPT !.pc = "data"] /\ UNCHANGED <<readVars, result>>
                     ELSE IF call.op = "try_read" \/ call.taken # << >>
                          THEN ReturnOk(call)
                          ELSE UNCHANGED <<call, readVars, result>>
  /\ UNCHANGED <<open, rx, arriving, sendVars>>

ReadData ==
  /\ call # None /\ call.op \in Reads /\ call.pc = "data"
  /\ call' = [call EXCEPT !.taken = Append(@, Head(rx).byte), !.left = @ - 1,
                          !.pc = "status"]
  /\ rx' = Tail(rx)
  /\ UNCHANGED <<open, overrun, arriving, hole, readVars, sendVars, result>>

\* Mutant of DropBadHead: the head stays in the FIFO.
KeepBadHead ==
  /\ call # None /\ call.op \in Reads /\ call.pc \in {"drop", "fail"}
  /\ seen' = << >> /\ errors' = 1 - errors
  /\ call' = None /\ result' = "Err"
  /\ UNCHANGED <<open, lineVars, sendVars>>

\* receive_byte's error path: the head is read if there was one when the
\* status was.  With it go the bytes this call had taken.
DropBadHead ==
  /\ call # None /\ call.op \in Reads /\ call.pc \in {"drop", "fail"}
  /\ rx' = IF call.pc = "drop" THEN Tail(rx) ELSE rx
  /\ seen' = << >> /\ errors' = 1 - errors
  /\ call' = None /\ result' = "Err"
  /\ UNCHANGED <<open, overrun, arriving, hole, sendVars>>
-----------------------------------------------------------------------------
(***************************************************************************)
(* Writing.                                                                *)
(***************************************************************************)
StartWrite(op, len) ==
  /\ open /\ call = None /\ writing + len <= MaxBytes + 1
  /\ call' = Call(op, len, "room")
  /\ result' = "None"
  /\ UNCHANGED <<open, lineVars, readVars, sendVars>>

\* The transmit FIFO count: once for try_write, which then writes what fits;
\* before every byte for blocking_write_all, until there is room.
ReadRoom ==
  /\ call # None /\ call.op \in Writes /\ call.pc = "room"
  /\ IF call.op = "try_write"
     THEN LET room == IF Len(tx) < FIFO_CAPACITY THEN FIFO_CAPACITY - Len(tx) ELSE 0
          IN  call' = [call EXCEPT !.pc = "byte", !.left = IF room < @ THEN room ELSE @]
     ELSE call' = IF call.left = 0 \/ TxHasRoom
                  THEN [call EXCEPT !.pc = "byte"] ELSE call
  /\ UNCHANGED <<open, lineVars, readVars, sendVars, result>>

\* One write to THR, or the return.
WriteByte ==
  /\ call # None /\ call.op \in Writes /\ call.pc = "byte"
  /\ IF call.left = 0
     THEN call' = None /\ result' = "Ok" /\ UNCHANGED <<tx, writing, tx_hole>>
     ELSE /\ call' = [call EXCEPT !.left = @ - 1,
                                  !.pc = IF call.op = "try_write" THEN "byte" ELSE "room"]
          /\ writing' = writing + 1
          /\ IF Len(tx) < FIFO_CAPACITY
             THEN tx' = Append(tx, writing) /\ UNCHANGED tx_hole
             ELSE tx_hole' = (IF tx_hole = None THEN writing ELSE tx_hole) /\ UNCHANGED tx
          /\ UNCHANGED result
  /\ UNCHANGED <<open, lineVars, readVars, shift, txd_en, wire>>

StartFlush ==
  /\ open /\ call = None
  /\ call' = Call("blocking_flush", 0, "idle")
  /\ result' = "None"
  /\ UNCHANGED <<open, lineVars, readVars, sendVars>>

FlushEnds ==
  /\ call # None /\ call.op = "blocking_flush" /\ TxAllEmp
  /\ call' = None /\ result' = "Flushed"
  /\ UNCHANGED <<open, lineVars, readVars, sendVars>>
-----------------------------------------------------------------------------
Driver == ReadStatus \/ ReadData \/ DropBadHead \/ ReadRoom \/ WriteByte \/ FlushEnds
Transmitter == LoadShift \/ ShiftOut

Caller ==
  \/ New
  \/ NewRefused
  \/ Drop
  \/ \E op \in Reads, len \in 0 .. MaxBuffer : StartRead(op, len)
  \/ \E op \in Writes, len \in 0 .. MaxBuffer : StartWrite(op, len)
  \/ StartFlush

Next ==
  \/ \E bad \in BOOLEAN : Arrive(bad)
  \/ Transmitter
  \/ Driver
  \/ Caller

Spec == Init /\ [][Next]_vars

\* The CPU runs the polling loops and the transmitter shifts.
FairSpec == Spec /\ WF_vars(Driver) /\ WF_vars(Transmitter)
-----------------------------------------------------------------------------
\* Type invariant.
TypeOK ==
  /\ open \in BOOLEAN /\ overrun \in BOOLEAN /\ txd_en \in BOOLEAN
  /\ rx \in Seq([byte : Nat, bad : BOOLEAN]) /\ arriving \in Nat /\ hole \in Nat \cup {None}
  /\ seen \in Seq(Nat) /\ errors \in {0, 1}
  /\ tx \in Seq(Nat) /\ shift \in Nat \cup {None} /\ writing \in Nat
  /\ wire \in Seq(Nat) /\ tx_hole \in Nat \cup {None}
  /\ call \in Calls \cup {None}
  /\ result \in {"None", "Ok", "Err", "Flushed", "ConfigError"}

\* The bytes without an error in the receive FIFO.
GoodBytes == {rx[i].byte : i \in {k \in 1 .. Len(rx) : ~rx[k].bad}}

Reading == call # None /\ call.op \in Reads

\* The receive direction as a ByteStream: what a running read has taken is
\* still on its way, and a loss counts as told when the Err is returned.
RxStream ==
  INSTANCE ByteStream WITH
    next <- arriving,
    pending <- (IF Reading THEN Range(call.taken) ELSE {}) \cup GoodBytes,
    seen <- seen,
    errors <- errors,
    hole <- IF Reading /\ call.told # None THEN call.told ELSE hole

\* The transmit direction: the FIFO and the shift register.
TxStream ==
  INSTANCE ByteStream WITH
    next <- writing,
    pending <- (IF shift = None THEN {} ELSE {shift}) \cup Range(tx),
    seen <- wire,
    errors <- 0,
    hole <- tx_hole

\* Reads give the caller the line's bytes in order and each once.  Bytes
\* are lost to a full FIFO, to a line error and to a call that fails after
\* it has taken some, but no byte from behind a loss is read before an Err.
ReadsInOrder == RxStream!Spec

\* Everything written leaves on the line in order, each byte once: no write
\* finds the FIFO full.  A new session starts with empty FIFOs.
WritesInOrder == TxStream!Spec

\* After blocking_flush every byte written is on the wire.
FlushMeansSent == result = "Flushed" => Len(wire) = writing - 1

\* Every call returns, a blocking_read once there is anything to read.
CallReturns ==
  /\ (call # None /\ call.op # "blocking_read") ~> (call = None)
  /\ (Reading /\ rx # << >>) ~> (call = None)

KeepsReading == SF_vars(StartRead("try_read", MaxBuffer))
LineQuiet == open /\ arriving > MaxBytes

\* The same status cannot make every following operation fail forever: once
\* the line is quiet, a caller that keeps reading gets past every error
\* the FIFO holds.
ErrorsEnd ==
  KeepsReading /\ <>[]LineQuiet => []<>(rx = << >> /\ ~overrun)
=============================================================================
