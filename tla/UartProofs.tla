----------------------------- MODULE UartProofs -----------------------------
(***************************************************************************)
(* Proofs about the UART driver of module Uart, for every FIFO capacity,   *)
(* buffer length and session length: both directions implement ByteStream, *)
(* and blocking_flush means what it says.                                  *)
(***************************************************************************)
EXTENDS Uart, TLAPS

-----------------------------------------------------------------------------
(***************************************************************************)
(* The inductive invariant.                                                *)
(***************************************************************************)
\* Which register access a call can be at.
CallInv ==
  call # None =>
    /\ open /\ result = "None"
    /\ call.op \in Reads => call.pc \in {"status", "data", "drop", "fail"}
    /\ call.pc \in {"status", "data"} => call.told = None
    /\ call.pc \in {"drop", "fail"} => call.op \in Reads
    /\ call.pc = "data" => call.left > 0

InShift == IF shift = None THEN 0 ELSE 1

\* The bytes written are on the wire, in the shift register and in the FIFO,
\* in this order and without a gap.
TxInv ==
  /\ tx_hole = None
  /\ Len(tx) <= FIFO_CAPACITY
  /\ writing = Len(wire) + InShift + Len(tx) + 1
  /\ shift # None => shift = Len(wire) + 1
  /\ \A i \in 1 .. Len(tx) : tx[i] = Len(wire) + InShift + i

\* A write that is due finds room: the FIFO only drains between the look at
\* its count and the write.
RoomInv ==
  call # None /\ call.op \in Writes /\ call.pc = "byte" /\ call.left # 0 =>
    /\ Len(tx) < FIFO_CAPACITY
    /\ call.op = "try_write" => Len(tx) + call.left <= FIFO_CAPACITY

\* Nothing was written since the flush.
FlushInv == result = "Flushed" => tx = << >> /\ shift = None

\* Bytes are in the FIFO, and in the buffer of the running read, in the order
\* of the line.
RxInv ==
  /\ arriving > 0
  /\ hole # None => hole \in 1 .. arriving - 1
  /\ \A i \in 1 .. Len(rx) : rx[i].byte \in 1 .. arriving - 1
  /\ \A i, j \in 1 .. Len(rx) : i < j => rx[i].byte < rx[j].byte

TakenInv ==
  Reading =>
    /\ \A i \in 1 .. Len(call.taken) : call.taken[i] \in 1 .. arriving - 1
    /\ \A i, j \in 1 .. Len(call.taken) : i < j => call.taken[i] < call.taken[j]
    /\ \A i \in 1 .. Len(call.taken), j \in 1 .. Len(rx) : call.taken[i] < rx[j].byte

\* The loss to be told: the status still shows it, as OVER_ERR or as the
\* error of a byte in the FIFO, and what a read has in hand is older.
HoleInv ==
  /\ hole # None => overrun \/ \E i \in 1 .. Len(rx) : rx[i].bad /\ rx[i].byte = hole
  /\ Reading /\ call.pc \in {"data", "drop"} =>
       /\ rx # << >>
       /\ call.pc = "data" => ~rx[1].bad
       /\ hole # None => rx[1].byte < hole
  /\ Reading /\ call.pc \in {"status", "data"} /\ hole # None =>
       \A i \in 1 .. Len(call.taken) : call.taken[i] < hole

IInv ==
  /\ TypeOK /\ CallInv /\ TxInv /\ RoomInv /\ FlushInv
  /\ RxInv /\ TakenInv /\ HoleInv
-----------------------------------------------------------------------------
(***************************************************************************)
(* Sequences and calls.                                                    *)
(***************************************************************************)
\* What Tail leaves of a FIFO.
LEMMA TailFacts ==
  ASSUME NEW S, NEW s \in Seq(S), s # << >>
  PROVE  /\ Len(s) \in Nat /\ Len(s) > 0 /\ Head(s) = s[1] /\ s[1] \in S
         /\ Tail(s) \in Seq(S) /\ Len(Tail(s)) = Len(s) - 1
         /\ \A i \in 1 .. Len(s) - 1 : Tail(s)[i] = s[i + 1]
  OBVIOUS

\* What Append makes of a FIFO.
LEMMA AppendFacts ==
  ASSUME NEW S, NEW s \in Seq(S), NEW e \in S
  PROVE  /\ Append(s, e) \in Seq(S) /\ Len(Append(s, e)) = Len(s) + 1 /\ Len(s) \in Nat
         /\ \A i \in 1 .. Len(s) : Append(s, e)[i] = s[i]
         /\ Append(s, e)[Len(s) + 1] = e
  OBVIOUS

Entry == [byte : Nat, bad : BOOLEAN]

\* The fields of the running call.
LEMMA CallFacts ==
  ASSUME TypeOK, call # None
  PROVE  /\ call \in Calls /\ call.left \in Nat /\ call.taken \in Seq(Nat)
         /\ call.op \in Reads \cup Writes \cup {"blocking_flush"}
         /\ call.told \in Nat \cup {None}
  BY DEF TypeOK, Calls

\* A call that starts.
LEMMA NewCall ==
  ASSUME NEW op \in Reads \cup Writes \cup {"blocking_flush"}, NEW left \in Nat,
         NEW pc \in {"status", "data", "drop", "fail", "room", "byte", "idle"}
  PROVE  /\ Call(op, left, pc) \in Calls /\ Call(op, left, pc) # None
         /\ Call(op, left, pc).op = op /\ Call(op, left, pc).pc = pc
         /\ Call(op, left, pc).left = left /\ Call(op, left, pc).taken = << >>
         /\ Call(op, left, pc).told = None
<1>1. << >> \in Seq(Nat) /\ None \in Nat \cup {None}
  OBVIOUS
<1>2. Call(op, left, pc) \in Calls
  BY <1>1 DEF Call, Calls
<1>3. Call(op, left, pc) # None
  BY <1>2, CallAssumption
<1> QED BY <1>2, <1>3 DEF Call

\* A step that leaves the transmit side alone and starts, ends or continues
\* a call that does not write.
LEMMA TxStands ==
  ASSUME TypeOK, TxInv, RoomInv, FlushInv, UNCHANGED <<tx, shift, writing, wire, tx_hole>>,
         \/ call' = call
         \/ call' = None
         \/ call'.op \notin Writes
         \/ call'.pc # "byte",
         result' = result \/ result' # "Flushed"
  PROVE  TxInv' /\ RoomInv' /\ FlushInv'
<1>1. TxInv'
  BY DEF TxInv, InShift
<1>2. RoomInv'
  BY DEF RoomInv
<1>3. FlushInv'
  BY DEF FlushInv
<1> QED BY <1>1, <1>2, <1>3

\* A step that leaves the receive side alone, with no read running after it
\* or the same one.
LEMMA RxStands ==
  ASSUME TypeOK, RxInv, TakenInv, HoleInv, UNCHANGED <<rx, overrun, arriving, hole>>,
         call' = call \/ ~Reading'
  PROVE  RxInv' /\ TakenInv' /\ HoleInv'
<1>1. RxInv'
  BY DEF RxInv
<1>2. TakenInv' /\ HoleInv'
  BY DEF TakenInv, HoleInv, Reading
<1> QED BY <1>1, <1>2
-----------------------------------------------------------------------------
(***************************************************************************)
(* The hardware.                                                           *)
(***************************************************************************)
\* A byte arrives: the last of the FIFO, or lost with OVER_ERR.
LEMMA ArriveKeeps == ASSUME IInv, NEW bad \in BOOLEAN, Arrive(bad) PROVE IInv'
<1> DEFINE e == [byte |-> arriving, bad |-> bad]
<1>0. /\ UNCHANGED <<open, seen, errors, tx, shift, txd_en, writing, wire, tx_hole, call, result>>
      /\ arriving' = arriving + 1 /\ arriving \in Nat /\ arriving > 0
      /\ rx \in Seq(Entry) /\ Len(rx) \in Nat
      /\ e \in Entry /\ e.byte = arriving /\ e.bad = bad
  BY DEF Arrive, readVars, sendVars, IInv, TypeOK, RxInv, Entry
<1>1. \/ /\ rx' = Append(rx, e) /\ overrun' = overrun
         /\ hole' = IF hole = None /\ bad THEN arriving ELSE hole
      \/ /\ rx' = rx /\ overrun' = TRUE
         /\ hole' = IF hole = None THEN arriving ELSE hole
  BY <1>0, UartAssumption DEF Arrive
<1> HIDE DEF e
<1>2. /\ rx' \in Seq(Entry) /\ Len(rx') \in {Len(rx), Len(rx) + 1}
      /\ \A i \in 1 .. Len(rx) : rx'[i] = rx[i]
      /\ Len(rx') = Len(rx) + 1 => rx'[Len(rx) + 1] = e
  BY <1>0, <1>1, AppendFacts
<1>3. TypeOK'
  <2>1. overrun' \in BOOLEAN
    BY <1>1 DEF IInv, TypeOK
  <2>2. hole' \in Nat \cup {None}
    BY <1>0, <1>1 DEF IInv, TypeOK
  <2> QED BY <1>0, <1>2, <2>1, <2>2 DEF IInv, TypeOK, Entry
<1>4. CallInv' /\ TxInv' /\ RoomInv' /\ FlushInv'
  BY <1>0, TxStands DEF IInv, CallInv
<1>5. RxInv'
  <2>1. hole' # None => hole' \in 1 .. arriving' - 1
    BY <1>0, <1>1 DEF IInv, RxInv
  <2>2. \A i \in 1 .. Len(rx') : rx'[i].byte \in 1 .. arriving' - 1
    BY <1>0, <1>2 DEF IInv, RxInv
  <2>3. \A i, j \in 1 .. Len(rx') : i < j => rx'[i].byte < rx'[j].byte
    BY <1>0, <1>2 DEF IInv, RxInv
  <2> QED BY <1>0, <2>1, <2>2, <2>3 DEF RxInv
<1>6. TakenInv'
  <2> SUFFICES ASSUME Reading PROVE TakenInv'
    BY <1>0 DEF TakenInv, Reading
  <2>1. call.taken \in Seq(Nat) /\ Len(call.taken) \in Nat
    BY CallFacts DEF IInv, Reading
  <2>2. \A i \in 1 .. Len(call.taken) : call.taken[i] \in 1 .. arriving - 1
    BY DEF IInv, TakenInv
  <2>3. \A i \in 1 .. Len(call.taken), j \in 1 .. Len(rx') : call.taken[i] < rx'[j].byte
    BY <1>0, <1>2, <2>1, <2>2 DEF IInv, TakenInv
  <2> QED BY <1>0, <2>1, <2>2, <2>3 DEF IInv, TakenInv
<1>7. HoleInv'
  <2>1. hole' # None => overrun' \/ \E i \in 1 .. Len(rx') : rx'[i].bad /\ rx'[i].byte = hole'
    <3>1. CASE rx' = Append(rx, e) /\ hole = None /\ bad
      <4>1. Len(rx') = Len(rx) + 1 /\ rx'[Len(rx) + 1] = e
        BY <1>0, <3>1, AppendFacts
      <4>2. Len(rx) + 1 \in 1 .. Len(rx') /\ e.bad
        BY <1>0, <3>1, <4>1
      <4>3. hole' = arriving \/ overrun'
        BY <1>1, <3>1
      <4> QED BY <1>0, <4>1, <4>2, <4>3
    <3>2. CASE ~(rx' = Append(rx, e) /\ hole = None /\ bad)
      <4>1. (hole' = hole /\ overrun' = overrun) \/ overrun' = TRUE
        BY <1>1, <3>2
      <4>2. hole # None => overrun \/ \E i \in 1 .. Len(rx) : rx[i].bad /\ rx[i].byte = hole
        BY DEF IInv, HoleInv
      <4> QED BY <1>0, <1>2, <4>1, <4>2
    <3> QED BY <3>1, <3>2
  <2>2. hole' # None => hole' = hole \/ hole' = arriving
    BY <1>1
  <2>3. Reading /\ call.pc \in {"data", "drop"} =>
          /\ rx' # << >>
          /\ call.pc = "data" => ~rx'[1].bad
          /\ hole' # None => rx'[1].byte < hole'
    <3> SUFFICES ASSUME Reading, call.pc \in {"data", "drop"}
                 PROVE  /\ rx' # << >>
                        /\ call.pc = "data" => ~rx'[1].bad
                        /\ hole' # None => rx'[1].byte < hole'
      OBVIOUS
    <3>1. /\ rx # << >> /\ (call.pc = "data" => ~rx[1].bad)
          /\ hole # None => rx[1].byte < hole
      BY DEF IInv, HoleInv
    <3>2. 1 \in 1 .. Len(rx) /\ rx'[1] = rx[1]
      BY <1>0, <1>2, <3>1
    <3>3. rx[1].byte < arriving
      BY <1>0, <3>2 DEF IInv, RxInv
    <3>4. rx' # << >>
      BY <1>0, <1>2, <3>2
    <3> QED BY <1>1, <2>2, <3>1, <3>2, <3>3, <3>4
  <2>4. Reading /\ call.pc \in {"status", "data"} /\ hole' # None =>
          \A i \in 1 .. Len(call.taken) : call.taken[i] < hole'
    BY <1>0, <1>1, <2>2 DEF IInv, HoleInv, TakenInv
  <2> QED BY <1>0, <2>1, <2>3, <2>4 DEF HoleInv, Reading
<1> QED BY <1>3, <1>4, <1>5, <1>6, <1>7 DEF IInv

\* The head of the transmit FIFO moves to the shift register.
LEMMA LoadShiftKeeps == ASSUME IInv, LoadShift PROVE IInv'
<1>0. /\ UNCHANGED <<open, rx, overrun, arriving, hole, seen, errors, txd_en, writing, wire,
                     tx_hole, call, result>>
      /\ shift = None /\ shift' = Head(tx) /\ tx' = Tail(tx)
      /\ tx \in Seq(Nat) /\ tx # << >> /\ wire \in Seq(Nat) /\ Len(wire) \in Nat
      /\ FIFO_CAPACITY \in Nat /\ writing \in Nat
  BY UartAssumption DEF LoadShift, lineVars, readVars, IInv, TypeOK
<1>1. /\ Len(tx) \in Nat /\ Len(tx) > 0 /\ shift' = tx[1] /\ tx' \in Seq(Nat)
      /\ Len(tx') = Len(tx) - 1 /\ tx[1] \in Nat
      /\ \A i \in 1 .. Len(tx) - 1 : tx'[i] = tx[i + 1]
  BY <1>0, TailFacts
<1>2. TypeOK'
  BY <1>0, <1>1 DEF IInv, TypeOK
<1>3. CallInv' /\ RxInv' /\ TakenInv' /\ HoleInv'
  BY <1>0, RxStands DEF IInv, CallInv
<1>4. TxInv'
  <2>1. InShift = 0 /\ InShift' = 1
    BY <1>0, <1>1, UartAssumption DEF InShift
  <2>2. shift' = Len(wire) + 1
    BY <1>0, <1>1, <2>1 DEF IInv, TxInv
  <2>3. \A i \in 1 .. Len(tx') : tx'[i] = Len(wire) + 1 + i
    BY <1>0, <1>1, <2>1 DEF IInv, TxInv
  <2> QED BY <1>0, <1>1, <2>1, <2>2, <2>3 DEF IInv, TxInv
<1>5. RoomInv'
  BY <1>0, <1>1, CallFacts DEF IInv, RoomInv
<1>6. FlushInv'
  BY <1>0 DEF IInv, FlushInv
<1> QED BY <1>2, <1>3, <1>4, <1>5, <1>6 DEF IInv

\* The shift register leaves on the line.
LEMMA ShiftOutKeeps == ASSUME IInv, ShiftOut PROVE IInv'
<1>0. /\ UNCHANGED <<open, rx, overrun, arriving, hole, seen, errors, txd_en, writing, tx,
                     tx_hole, call, result>>
      /\ shift # None /\ shift \in Nat /\ shift' = None /\ wire' = Append(wire, shift)
      /\ tx \in Seq(Nat) /\ Len(tx) \in Nat /\ wire \in Seq(Nat)
  BY DEF ShiftOut, lineVars, readVars, IInv, TypeOK
<1>1. wire' \in Seq(Nat) /\ Len(wire') = Len(wire) + 1 /\ Len(wire) \in Nat
  BY <1>0, AppendFacts
<1>2. TypeOK'
  BY <1>0, <1>1 DEF IInv, TypeOK
<1>3. CallInv' /\ RxInv' /\ TakenInv' /\ HoleInv'
  BY <1>0, RxStands DEF IInv, CallInv
<1>4. TxInv'
  <2>1. InShift = 1 /\ InShift' = 0
    BY <1>0 DEF InShift
  <2> QED BY <1>0, <1>1, <2>1 DEF IInv, TxInv
<1>5. RoomInv' /\ FlushInv'
  BY <1>0 DEF IInv, RoomInv, FlushInv
<1> QED BY <1>2, <1>3, <1>4, <1>5 DEF IInv
-----------------------------------------------------------------------------
(***************************************************************************)
(* The caller.                                                             *)
(***************************************************************************)
\* Uart::new starts a session with empty FIFOs.
LEMMA NewKeeps == ASSUME IInv, New PROVE IInv'
<1>0. call = None /\ call' = None
  BY DEF New, IInv, CallInv
<1> USE DEF New, ClearFifos
<1>1. TypeOK'
  <2>1. open' \in BOOLEAN /\ overrun' \in BOOLEAN /\ txd_en' \in BOOLEAN
    OBVIOUS
  <2>2. rx' \in Seq([byte : Nat, bad : BOOLEAN])
    OBVIOUS
  <2>3. seen' \in Seq(Nat) /\ tx' \in Seq(Nat) /\ wire' \in Seq(Nat)
    OBVIOUS
  <2> QED BY <1>0, <2>1, <2>2, <2>3 DEF TypeOK
<1>2. CallInv' /\ RoomInv' /\ FlushInv' /\ TakenInv' /\ HoleInv'
  BY <1>0 DEF CallInv, RoomInv, FlushInv, TakenInv, HoleInv, Reading
<1>3. TxInv' /\ RxInv'
  BY UartAssumption DEF TxInv, RxInv, InShift
<1> QED BY <1>1, <1>2, <1>3 DEF IInv

\* A refused Uart::new and Drop touch neither FIFO.
LEMMA ClosedKeeps == ASSUME IInv, NewRefused \/ Drop PROVE IInv'
<1>0. /\ UNCHANGED <<rx, overrun, arriving, hole, seen, errors, tx, shift, writing, wire,
                     tx_hole, call>>
      /\ call = None /\ result' \in {result, "ConfigError"}
      /\ open' \in BOOLEAN /\ txd_en' \in BOOLEAN
  BY DEF NewRefused, Drop, lineVars, readVars, sendVars, IInv, TypeOK, CallInv
<1>1. TypeOK'
  BY <1>0 DEF IInv, TypeOK
<1>2. CallInv' /\ RxInv' /\ TakenInv' /\ HoleInv'
  BY <1>0, RxStands DEF IInv, CallInv
<1>3. TxInv' /\ RoomInv' /\ FlushInv'
  BY <1>0, TxStands DEF IInv
<1> QED BY <1>1, <1>2, <1>3 DEF IInv

\* A call starts before its first register access.
LEMMA StartKeeps ==
  ASSUME IInv, NEW op \in Reads \cup Writes \cup {"blocking_flush"}, NEW len \in Nat,
         NEW pc \in {"status", "room", "idle"}, op \in Reads <=> pc = "status",
         call' = Call(op, len, pc), result' = "None", open,
         UNCHANGED <<open, lineVars, readVars, sendVars>>
  PROVE  IInv'
<1>0. UNCHANGED <<open, rx, overrun, arriving, hole, seen, errors, tx, shift, txd_en, writing,
                  wire, tx_hole>>
  BY DEF lineVars, readVars, sendVars
<1>1. /\ call' \in Calls /\ call' # None /\ call'.op = op /\ call'.pc = pc
      /\ call'.left = len /\ call'.taken = << >> /\ call'.told = None
  BY NewCall
<1>2. TypeOK'
  BY <1>0, <1>1 DEF IInv, TypeOK
<1>3. CallInv'
  BY <1>0, <1>1 DEF CallInv
<1>4. TxInv' /\ RoomInv' /\ FlushInv'
  BY <1>0, <1>1, TxStands DEF IInv
<1>5. RxInv'
  BY <1>0 DEF IInv, RxInv
<1>6. TakenInv' /\ HoleInv'
  BY <1>0, <1>1 DEF IInv, TakenInv, HoleInv
<1> QED BY <1>2, <1>3, <1>4, <1>5, <1>6 DEF IInv

\* Everything a caller of the driver does.
LEMMA CallerKeeps == ASSUME IInv, Caller PROVE IInv'
<1>1. ASSUME NEW op \in Reads, NEW len \in 0 .. MaxBuffer, StartRead(op, len) PROVE IInv'
  <2>1. len \in Nat /\ op \in Reads \cup Writes \cup {"blocking_flush"}
    BY <1>1, UartAssumption
  <2> QED BY <1>1, <2>1, StartKeeps DEF StartRead
<1>2. ASSUME NEW op \in Writes, NEW len \in 0 .. MaxBuffer, StartWrite(op, len) PROVE IInv'
  <2>1. len \in Nat /\ op \in Reads \cup Writes \cup {"blocking_flush"} /\ op \notin Reads
    BY <1>2, UartAssumption DEF Reads, Writes
  <2> QED BY <1>2, <2>1, StartKeeps DEF StartWrite
<1>3. CASE StartFlush
  <2>1. "blocking_flush" \notin Reads
    BY DEF Reads
  <2> QED BY <1>3, <2>1, StartKeeps DEF StartFlush
<1> QED BY <1>1, <1>2, <1>3, NewKeeps, ClosedKeeps DEF Caller
-----------------------------------------------------------------------------
(***************************************************************************)
(* The register accesses of a call.                                        *)
(***************************************************************************)
\* A read that returns Ok gives the caller what it has taken.
LEMMA ReturnOkKeeps ==
  ASSUME IInv, Reading, ReturnOk(call),
         UNCHANGED <<open, rx, arriving, sendVars, hole>>,
         overrun' = overrun \/ (overrun' = FALSE /\ ~overrun)
  PROVE  IInv'
<1>0. /\ call' = None /\ result' = "Ok" /\ errors' = errors /\ seen' = seen \o call.taken
      /\ UNCHANGED <<tx, shift, txd_en, writing, wire, tx_hole>>
      /\ call # None
  BY DEF ReturnOk, sendVars, Reading
<1>1. overrun' \in BOOLEAN /\ overrun' = overrun
  BY DEF IInv, TypeOK
<1>2. seen' \in Seq(Nat)
  BY <1>0, CallFacts DEF IInv, TypeOK
<1>3. TypeOK'
  BY <1>0, <1>1, <1>2 DEF IInv, TypeOK
<1>4. CallInv' /\ TxInv' /\ RoomInv' /\ FlushInv'
  BY <1>0, TxStands DEF IInv, CallInv
<1>5. RxInv' /\ TakenInv' /\ HoleInv'
  BY <1>0, <1>1, RxStands DEF IInv, Reading
<1> QED BY <1>3, <1>4, <1>5 DEF IInv

\* The look at the line status.
LEMMA ReadStatusKeeps == ASSUME IInv, ReadStatus PROVE IInv'
<1>0. /\ Reading /\ call # None /\ call.pc = "status" /\ call.op \in Reads /\ call \in Calls
      /\ UNCHANGED <<open, rx, arriving, sendVars>>
      /\ call.told = None /\ rx \in Seq(Entry)
  BY CallFacts DEF ReadStatus, Reading, IInv, CallInv, TypeOK, Entry
<1>1. CASE ReturnOk(call) /\ UNCHANGED <<overrun, hole>>
  BY <1>0, <1>1, ReturnOkKeeps
<1>2. CASE ReturnOk(call) /\ ~StatusError /\ overrun' = FALSE /\ UNCHANGED hole
  BY <1>0, <1>2, ReturnOkKeeps DEF StatusError
<1>3. CASE /\ ~StatusError /\ overrun' = FALSE
           /\ UNCHANGED <<call, readVars, result, hole>>
  <2>1. overrun' = overrun /\ overrun' \in BOOLEAN
    BY <1>3 DEF StatusError, IInv, TypeOK
  <2>2. UNCHANGED <<seen, errors, tx, shift, txd_en, writing, wire, tx_hole>>
    BY <1>0, <1>3 DEF readVars, sendVars
  <2>3. TypeOK' /\ CallInv'
    BY <1>0, <1>3, <2>1, <2>2 DEF IInv, TypeOK, CallInv
  <2>4. TxInv' /\ RoomInv' /\ FlushInv'
    BY <1>3, <2>2, TxStands DEF IInv
  <2>5. RxInv' /\ TakenInv' /\ HoleInv'
    BY <1>0, <1>3, <2>1, RxStands DEF IInv
  <2> QED BY <2>3, <2>4, <2>5 DEF IInv
<1>4. CASE /\ ~StatusError /\ overrun' = FALSE /\ rx # << >> /\ call.left # 0
           /\ call' = [call EXCEPT !.pc = "data"] /\ UNCHANGED <<readVars, result, hole>>
  <2>1. overrun' = overrun /\ overrun' \in BOOLEAN /\ ~rx[1].bad /\ ~overrun
    BY <1>0, <1>4, TailFacts DEF StatusError, IInv, TypeOK
  <2>2. UNCHANGED <<seen, errors, tx, shift, txd_en, writing, wire, tx_hole>>
    BY <1>0, <1>4 DEF readVars, sendVars
  <2>3. /\ call' \in Calls /\ call'.pc = "data" /\ call'.op = call.op /\ call'.told = None
        /\ call'.taken = call.taken /\ call' # None /\ call'.left > 0
    BY <1>0, <1>4, CallAssumption DEF Calls
  <2>4. TypeOK' /\ CallInv'
    <3>1. TypeOK'
      BY <1>0, <1>4, <2>1, <2>2, <2>3 DEF IInv, TypeOK
    <3>2. CallInv'
      BY <1>0, <1>4, <2>3 DEF IInv, CallInv
    <3> QED BY <3>1, <3>2
  <2>5. TxInv' /\ RoomInv' /\ FlushInv'
    BY <1>4, <2>2, <2>3, TxStands DEF IInv
  <2>6. RxInv' /\ TakenInv'
    BY <1>0, <1>4, <2>3 DEF IInv, RxInv, TakenInv, Reading
  <2>7. HoleInv'
    <3>1. hole # None => \E i \in 1 .. Len(rx) : rx[i].bad /\ rx[i].byte = hole
      BY <2>1 DEF IInv, HoleInv
    <3>2. hole # None => rx[1].byte < hole
      <4> SUFFICES ASSUME hole # None PROVE rx[1].byte < hole
        OBVIOUS
      <4>1. PICK i \in 1 .. Len(rx) : rx[i].bad /\ rx[i].byte = hole
        BY <3>1
      <4>2. i # 1 /\ Len(rx) \in Nat
        BY <1>0, <2>1, <4>1
      <4>3. 1 \in 1 .. Len(rx) /\ 1 < i
        BY <4>1, <4>2
      <4> QED BY <4>1, <4>3 DEF IInv, RxInv
    <3>3. hole # None => \A i \in 1 .. Len(call.taken) : call.taken[i] < hole
      BY <1>0 DEF IInv, HoleInv
    <3> QED BY <1>0, <1>4, <2>1, <2>3, <3>1, <3>2, <3>3 DEF HoleInv
  <2> QED BY <2>4, <2>5, <2>6, <2>7 DEF IInv
<1>5. CASE /\ StatusError /\ overrun' = FALSE /\ hole' = None /\ UNCHANGED <<readVars, result>>
           /\ call' = [call EXCEPT !.pc = IF rx = << >> THEN "fail" ELSE "drop", !.told = hole]
  <2>1. UNCHANGED <<seen, errors, tx, shift, txd_en, writing, wire, tx_hole>>
    BY <1>0, <1>5 DEF readVars, sendVars
  <2>2. /\ call' \in Calls /\ call'.op = call.op /\ call'.taken = call.taken
        /\ call'.pc \in {"drop", "fail"} /\ (call'.pc = "drop" => rx # << >>)
    <3>1. hole \in Nat \cup {None}
      BY DEF IInv, TypeOK
    <3> QED BY <1>0, <1>5, <3>1 DEF Calls
  <2>3. call' # None
    BY <2>2, CallAssumption
  <2>4. TypeOK'
    <3>1. overrun' \in BOOLEAN
      BY <1>5
    <3> QED BY <1>0, <1>5, <2>1, <2>2, <3>1 DEF IInv, TypeOK
  <2>5. CallInv'
    BY <1>0, <1>5, <2>2, <2>3 DEF IInv, CallInv
  <2>6. TxInv' /\ RoomInv' /\ FlushInv'
    BY <1>5, <2>1, <2>2, TxStands DEF IInv
  <2>7. RxInv' /\ TakenInv'
    BY <1>0, <1>5, <2>2 DEF IInv, RxInv, TakenInv, Reading
  <2>8. HoleInv'
    BY <1>0, <1>5, <2>2 DEF HoleInv
  <2> QED BY <2>4, <2>5, <2>6, <2>7, <2>8 DEF IInv
<1> QED
  <2>1. CASE call.left = 0
    BY <1>1, <2>1 DEF ReadStatus
  <2>2. CASE call.left # 0 /\ StatusError
    BY <1>5, <2>2 DEF ReadStatus
  <2>3. CASE call.left # 0 /\ ~StatusError /\ rx # << >>
    BY <1>4, <2>3 DEF ReadStatus
  <2>4. CASE call.left # 0 /\ ~StatusError /\ rx = << >>
    BY <1>2, <1>3, <2>4 DEF ReadStatus
  <2> QED BY <2>1, <2>2, <2>3, <2>4

\* The head of the FIFO goes to the buffer of the read.
LEMMA ReadDataKeeps == ASSUME IInv, ReadData PROVE IInv'
<1> DEFINE taken == Append(call.taken, rx[1].byte)
<1>0. /\ Reading /\ call # None /\ call.op \in Reads /\ call.pc = "data" /\ call \in Calls
      /\ UNCHANGED <<open, overrun, arriving, hole, seen, errors, tx, shift, txd_en, writing,
                     wire, tx_hole, result>>
      /\ call.told = None /\ rx \in Seq(Entry) /\ rx # << >> /\ ~rx[1].bad /\ rx' = Tail(rx)
      /\ call.taken \in Seq(Nat) /\ call.left \in Nat /\ arriving \in Nat
  BY CallFacts DEF ReadData, Reading, IInv, CallInv, HoleInv, TypeOK, Entry, readVars, sendVars
<1>1. /\ Len(rx) \in Nat /\ Len(rx) > 0 /\ Head(rx) = rx[1] /\ rx[1] \in Entry
      /\ rx' \in Seq(Entry) /\ Len(rx') = Len(rx) - 1
      /\ \A i \in 1 .. Len(rx) - 1 : rx'[i] = rx[i + 1]
  BY <1>0, TailFacts
<1>2. rx[1].byte \in 1 .. arriving - 1 /\ call.left - 1 \in Nat
  BY <1>0, <1>1 DEF IInv, RxInv, CallInv
<1>3. /\ taken \in Seq(Nat) /\ Len(taken) = Len(call.taken) + 1 /\ Len(call.taken) \in Nat
      /\ \A i \in 1 .. Len(call.taken) : taken[i] = call.taken[i]
      /\ taken[Len(call.taken) + 1] = rx[1].byte
  BY <1>0, <1>2, AppendFacts
<1>4. call' = [call EXCEPT !.taken = taken, !.left = call.left - 1, !.pc = "status"]
  BY <1>1 DEF ReadData
<1> HIDE DEF taken
<1>5. /\ call' \in Calls /\ call'.op = call.op /\ call'.pc = "status" /\ call'.told = None
      /\ call'.taken = taken
  BY <1>0, <1>2, <1>3, <1>4 DEF Calls
<1>6. call' # None
  BY <1>5, CallAssumption
<1>7. TypeOK' /\ CallInv'
  <2>1. TypeOK'
    BY <1>0, <1>1, <1>5 DEF IInv, TypeOK, Entry
  <2>2. CallInv'
    BY <1>0, <1>5, <1>6 DEF IInv, CallInv
  <2> QED BY <2>1, <2>2
<1>8. TxInv' /\ RoomInv' /\ FlushInv'
  BY <1>0, <1>5, TxStands DEF IInv
<1>9. RxInv'
  BY <1>0, <1>1 DEF IInv, RxInv
<1>10. TakenInv'
  <2>1. /\ \A i \in 1 .. Len(call.taken) : call.taken[i] \in 1 .. arriving - 1
        /\ \A i, j \in 1 .. Len(call.taken) : i < j => call.taken[i] < call.taken[j]
        /\ \A i \in 1 .. Len(call.taken), j \in 1 .. Len(rx) : call.taken[i] < rx[j].byte
    BY <1>0 DEF IInv, TakenInv
  <2>0. \A i \in 1 .. Len(taken) :
          \/ i \in 1 .. Len(call.taken) /\ taken[i] = call.taken[i]
          \/ i = Len(call.taken) + 1 /\ taken[i] = rx[1].byte
    BY <1>3
  <2>2. \A i \in 1 .. Len(taken) : taken[i] \in 1 .. arriving - 1
    BY <1>2, <2>0, <2>1
  <2>3. ASSUME NEW i \in 1 .. Len(taken), NEW j \in 1 .. Len(taken), i < j
        PROVE  taken[i] < taken[j]
    <3>1. 1 \in 1 .. Len(rx) /\ i \in 1 .. Len(call.taken) /\ taken[i] = call.taken[i]
      BY <1>1, <1>3, <2>0, <2>3
    <3> QED BY <2>0, <2>1, <2>3, <3>1
  <2>4. \A j \in 1 .. Len(rx) : 1 < j => rx[1].byte < rx[j].byte
    BY <1>1 DEF IInv, RxInv
  <2>5. \A i \in 1 .. Len(taken), j \in 1 .. Len(rx') : taken[i] < rx'[j].byte
    <3> SUFFICES ASSUME NEW i \in 1 .. Len(taken), NEW j \in 1 .. Len(rx')
                 PROVE  taken[i] < rx'[j].byte
      OBVIOUS
    <3>1. j + 1 \in 1 .. Len(rx) /\ 1 < j + 1 /\ rx'[j] = rx[j + 1]
      BY <1>1
    <3> QED BY <2>0, <2>1, <2>4, <3>1
  <2> QED BY <1>0, <1>5, <2>2, <2>3, <2>5 DEF TakenInv
<1>11. HoleInv'
  <2>1. hole # None => overrun \/ \E i \in 1 .. Len(rx') : rx'[i].bad /\ rx'[i].byte = hole
    <3> SUFFICES ASSUME hole # None, ~overrun
                 PROVE  \E i \in 1 .. Len(rx') : rx'[i].bad /\ rx'[i].byte = hole
      OBVIOUS
    <3>1. PICK i \in 1 .. Len(rx) : rx[i].bad /\ rx[i].byte = hole
      BY DEF IInv, HoleInv
    <3>2. i # 1
      BY <1>0, <3>1
    <3>3. i - 1 \in 1 .. Len(rx) - 1 /\ (i - 1) + 1 = i
      BY <1>1, <3>1, <3>2
    <3>4. rx'[i - 1] = rx[i]
      BY <1>1, <3>3
    <3> QED BY <1>1, <3>1, <3>3, <3>4
  <2>2. hole # None => \A i \in 1 .. Len(taken) : taken[i] < hole
    <3>1. hole # None => rx[1].byte < hole
      BY <1>0 DEF IInv, HoleInv
    <3>2. hole # None => \A i \in 1 .. Len(call.taken) : call.taken[i] < hole
      BY <1>0 DEF IInv, HoleInv
    <3> QED BY <1>3, <3>1, <3>2
  <2> QED BY <1>0, <1>5, <2>1, <2>2 DEF HoleInv
<1> QED BY <1>7, <1>8, <1>9, <1>10, <1>11 DEF IInv

\* A read that fails drops the head it noticed the error with.
LEMMA DropBadHeadKeeps == ASSUME IInv, DropBadHead PROVE IInv'
<1>0. /\ Reading /\ call # None /\ call.pc \in {"drop", "fail"}
      /\ UNCHANGED <<open, overrun, arriving, hole, tx, shift, txd_en, writing, wire, tx_hole>>
      /\ rx \in Seq(Entry) /\ rx' = IF call.pc = "drop" THEN Tail(rx) ELSE rx
      /\ call.pc = "drop" => rx # << >> /\ (hole # None => rx[1].byte < hole)
      /\ call' = None /\ result' = "Err" /\ seen' = << >> /\ errors' = 1 - errors
  BY DEF DropBadHead, Reading, IInv, HoleInv, TypeOK, Entry, sendVars
<1>1. call.pc = "drop" =>
        /\ Len(rx) \in Nat /\ Len(rx) > 0 /\ rx' \in Seq(Entry) /\ Len(rx') = Len(rx) - 1
        /\ \A i \in 1 .. Len(rx) - 1 : rx'[i] = rx[i + 1]
  BY <1>0, TailFacts
<1>2. TypeOK'
  <2>1. seen' \in Seq(Nat)
    BY <1>0
  <2>2. rx' \in Seq(Entry)
    BY <1>0, <1>1
  <2> QED BY <1>0, <2>1, <2>2 DEF IInv, TypeOK, Entry
<1>3. CallInv' /\ TakenInv'
  BY <1>0 DEF CallInv, TakenInv, Reading
<1>4. TxInv' /\ RoomInv' /\ FlushInv'
  BY <1>0, TxStands DEF IInv
<1>5. CASE call.pc = "drop"
  <2>1. RxInv'
    BY <1>0, <1>1, <1>5 DEF IInv, RxInv
  <2>2. hole # None => overrun \/ \E i \in 1 .. Len(rx') : rx'[i].bad /\ rx'[i].byte = hole
    <3> SUFFICES ASSUME hole # None, ~overrun
                 PROVE  \E i \in 1 .. Len(rx') : rx'[i].bad /\ rx'[i].byte = hole
      OBVIOUS
    <3>1. PICK i \in 1 .. Len(rx) : rx[i].bad /\ rx[i].byte = hole
      BY DEF IInv, HoleInv
    <3>2. i # 1 /\ hole \in Nat
      BY <1>0, <1>5, <3>1 DEF IInv, TypeOK
    <3>3. i - 1 \in 1 .. Len(rx) - 1 /\ (i - 1) + 1 = i
      BY <1>1, <1>5, <3>1, <3>2
    <3>4. rx'[i - 1] = rx[i]
      BY <1>1, <1>5, <3>3
    <3> QED BY <1>1, <1>5, <3>1, <3>3, <3>4
  <2>3. HoleInv'
    BY <1>0, <2>2 DEF HoleInv, Reading
  <2> QED BY <1>2, <1>3, <1>4, <2>1, <2>3 DEF IInv
<1>6. CASE call.pc = "fail"
  <2>1. RxInv' /\ HoleInv'
    BY <1>0, <1>6 DEF IInv, RxInv, HoleInv, Reading
  <2> QED BY <1>2, <1>3, <1>4, <2>1 DEF IInv
<1> QED BY <1>0, <1>5, <1>6

\* The look at the transmit FIFO's count.
LEMMA ReadRoomKeeps == ASSUME IInv, ReadRoom PROVE IInv'
<1>0. /\ call # None /\ call.op \in Writes /\ call.op \notin Reads /\ call.pc = "room"
      /\ UNCHANGED <<open, rx, overrun, arriving, hole, seen, errors, tx, shift, txd_en,
                     writing, wire, tx_hole, result>>
      /\ call \in Calls /\ call.left \in Nat /\ Len(tx) \in Nat /\ FIFO_CAPACITY \in Nat
  BY CallFacts, UartAssumption
  DEF ReadRoom, IInv, TypeOK, lineVars, readVars, sendVars, Reads, Writes
<1>1. CASE call' = call
  <2>1. TypeOK' /\ CallInv'
    BY <1>0, <1>1 DEF IInv, TypeOK, CallInv
  <2> QED BY <1>0, <1>1, <2>1, TxStands, RxStands DEF IInv
<1>2. CASE call' # call
  <2>1. PICK left \in Nat :
          /\ call' = [call EXCEPT !.pc = "byte", !.left = left]
          /\ left # 0 => Len(tx) < FIFO_CAPACITY
          /\ call.op = "try_write" /\ left # 0 => Len(tx) + left <= FIFO_CAPACITY
    <3>1. CASE call.op = "try_write"
      <4> DEFINE room == IF Len(tx) < FIFO_CAPACITY THEN FIFO_CAPACITY - Len(tx) ELSE 0
                 left == IF room < call.left THEN room ELSE call.left
      <4>1. call' = [call EXCEPT !.pc = "byte", !.left = left]
        BY <3>1 DEF ReadRoom
      <4>2. left \in Nat /\ (left # 0 => Len(tx) < FIFO_CAPACITY /\ Len(tx) + left <= FIFO_CAPACITY)
        BY <1>0
      <4> QED BY <4>1, <4>2
    <3>2. CASE call.op # "try_write"
      <4>1. call' = [call EXCEPT !.pc = "byte"] /\ (call.left = 0 \/ Len(tx) < FIFO_CAPACITY)
        BY <1>2, <3>2 DEF ReadRoom, TxHasRoom
      <4>2. call' = [call EXCEPT !.pc = "byte", !.left = call.left]
        BY <1>0, <4>1 DEF Calls
      <4> QED BY <1>0, <3>2, <4>1, <4>2
    <3> QED BY <3>1, <3>2
  <2>2. /\ call' \in Calls /\ call'.op = call.op /\ call'.pc = "byte" /\ call'.left = left
        /\ ~Reading'
    BY <1>0, <2>1 DEF Calls, Reading
  <2>3. TypeOK'
    BY <1>0, <2>2 DEF IInv, TypeOK
  <2>4. CallInv'
    BY <1>0, <2>2 DEF IInv, CallInv
  <2>5. TxInv' /\ FlushInv'
    BY <1>0 DEF IInv, TxInv, FlushInv, InShift
  <2>6. RoomInv'
    BY <1>0, <2>1, <2>2 DEF RoomInv
  <2>7. RxInv' /\ TakenInv' /\ HoleInv'
    BY <1>0, <2>2, RxStands DEF IInv
  <2> QED BY <2>3, <2>4, <2>5, <2>6, <2>7 DEF IInv
<1> QED BY <1>1, <1>2

\* A write to THR finds room.
LEMMA WriteByteKeeps == ASSUME IInv, WriteByte PROVE IInv'
<1>0. /\ call # None /\ call.op \in Writes /\ call.op \notin Reads /\ call.pc = "byte"
      /\ UNCHANGED <<open, rx, overrun, arriving, hole, seen, errors, shift, txd_en, wire>>
      /\ call \in Calls /\ call.left \in Nat /\ tx \in Seq(Nat) /\ Len(tx) \in Nat
      /\ FIFO_CAPACITY \in Nat /\ writing \in Nat /\ Len(wire) \in Nat /\ InShift \in Nat
  BY CallFacts, UartAssumption
  DEF WriteByte, IInv, TypeOK, lineVars, readVars, Reads, Writes, InShift
<1>1. CASE call.left = 0
  <2>1. call' = None /\ result' = "Ok" /\ UNCHANGED <<tx, writing, tx_hole>>
    BY <1>1 DEF WriteByte
  <2>2. TypeOK' /\ CallInv' /\ ~Reading'
    BY <1>0, <2>1 DEF IInv, TypeOK, CallInv, Reading
  <2> QED BY <1>0, <2>1, <2>2, TxStands, RxStands DEF IInv
<1>2. CASE call.left # 0
  <2>0. /\ Len(tx) < FIFO_CAPACITY
        /\ call.op = "try_write" => Len(tx) + call.left <= FIFO_CAPACITY
    BY <1>0, <1>2 DEF IInv, RoomInv
  <2>1. /\ tx' = Append(tx, writing) /\ writing' = writing + 1 /\ UNCHANGED <<tx_hole, result>>
        /\ call' = [call EXCEPT !.left = call.left - 1,
                                !.pc = IF call.op = "try_write" THEN "byte" ELSE "room"]
    BY <1>2, <2>0 DEF WriteByte
  <2>2. /\ tx' \in Seq(Nat) /\ Len(tx') = Len(tx) + 1
        /\ \A i \in 1 .. Len(tx) : tx'[i] = tx[i]
        /\ tx'[Len(tx) + 1] = writing
    BY <1>0, <2>1, AppendFacts
  <2>a. Len(tx') = Len(tx) + 1 /\ Len(tx) \in Nat /\ Len(tx) + 1 <= FIFO_CAPACITY
    BY <1>0, <2>0, <2>2
  <2>3. /\ call' \in Calls /\ call'.op = call.op /\ call'.left = call.left - 1
        /\ call'.pc = IF call.op = "try_write" THEN "byte" ELSE "room"
    <3>1. call.left - 1 \in Nat
      BY <1>0, <1>2
    <3> QED BY <1>0, <2>1, <3>1 DEF Calls
  <2>4. call' # None /\ ~Reading'
    BY <1>0, <2>3, CallAssumption DEF Reading
  <2>5. TypeOK' /\ CallInv'
    <3>1. TypeOK'
      BY <1>0, <2>1, <2>2, <2>3 DEF IInv, TypeOK
    <3>2. CallInv'
      BY <1>0, <2>1, <2>3, <2>4 DEF IInv, CallInv
    <3> QED BY <3>1, <3>2
  <2>6. TxInv'
    <3>1. InShift' = InShift
      BY <1>0 DEF InShift
    <3>2. /\ tx_hole = None /\ writing = Len(wire) + InShift + Len(tx) + 1
          /\ shift # None => shift = Len(wire) + 1
          /\ \A i \in 1 .. Len(tx) : tx[i] = Len(wire) + InShift + i
      BY DEF IInv, TxInv
    <3>3. \A i \in 1 .. Len(tx') : tx'[i] = Len(wire) + InShift + i
      <4>1. \A i \in 1 .. Len(tx') : i \in 1 .. Len(tx) \/ i = Len(tx) + 1
        BY <1>0, <2>2
      <4>2. writing = Len(wire) + InShift + (Len(tx) + 1)
        BY <1>0, <3>2
      <4> QED BY <2>2, <3>2, <4>1, <4>2
    <3>4. Len(tx') <= FIFO_CAPACITY /\ writing' = Len(wire) + InShift + Len(tx') + 1
      <4>1. Len(wire) \in Nat /\ InShift \in Nat /\ writing' = writing + 1
        BY <1>0, <2>1
      <4> QED BY <2>a, <3>2, <4>1
    <3> QED BY <1>0, <2>1, <3>1, <3>2, <3>3, <3>4 DEF TxInv
  <2>7. RoomInv'
    <3> SUFFICES ASSUME call.op = "try_write", call'.left # 0
                 PROVE  Len(tx') < FIFO_CAPACITY /\ Len(tx') + call'.left <= FIFO_CAPACITY
      BY <2>3 DEF RoomInv
    <3>1. Len(tx) + call.left <= FIFO_CAPACITY /\ call'.left = call.left - 1 /\ call.left \in Nat
      BY <1>0, <2>0, <2>3
    <3>2. FIFO_CAPACITY \in Nat
      BY <1>0
    <3>3. call.left >= 2
      BY <1>2, <3>1
    <3>4. (Len(tx) + 1) + (call.left - 1) = Len(tx) + call.left
      BY <2>a, <3>1
    <3> QED BY <2>a, <3>1, <3>2, <3>3, <3>4
  <2>8. FlushInv'
    BY <1>0, <2>1 DEF IInv, CallInv, FlushInv
  <2>9. RxInv' /\ TakenInv' /\ HoleInv'
    BY <1>0, <2>4, RxStands DEF IInv
  <2> QED BY <2>5, <2>6, <2>7, <2>8, <2>9 DEF IInv
<1> QED BY <1>1, <1>2

\* blocking_flush returns with the transmitter empty.
LEMMA FlushEndsKeeps == ASSUME IInv, FlushEnds PROVE IInv'
<1>0. /\ call # None /\ call' = None /\ result' = "Flushed" /\ tx = << >> /\ shift = None
      /\ UNCHANGED <<open, rx, overrun, arriving, hole, seen, errors, tx, shift, txd_en,
                     writing, wire, tx_hole>>
  BY DEF FlushEnds, TxAllEmp, lineVars, readVars, sendVars
<1>1. TypeOK' /\ CallInv' /\ ~Reading'
  BY <1>0 DEF IInv, TypeOK, CallInv, Reading
<1>2. TxInv' /\ RoomInv' /\ FlushInv'
  BY <1>0 DEF IInv, TxInv, RoomInv, FlushInv, InShift
<1> QED BY <1>0, <1>1, <1>2, RxStands DEF IInv
-----------------------------------------------------------------------------
(***************************************************************************)
(* The invariant.                                                          *)
(***************************************************************************)
\* The invariant holds for every capacity of the FIFOs, whatever arrives and
\* leaves between two register accesses of a call.
THEOREM UartInvariant == Spec => []IInv
<1>1. Init => IInv
  <2> SUFFICES ASSUME Init PROVE IInv
    OBVIOUS
  <2> USE UartAssumption DEF Init
  <2>1. TypeOK
    <3>1. rx \in Seq([byte : Nat, bad : BOOLEAN])
      OBVIOUS
    <3>2. seen \in Seq(Nat) /\ tx \in Seq(Nat) /\ wire \in Seq(Nat)
      OBVIOUS
    <3>3. open \in BOOLEAN /\ overrun \in BOOLEAN /\ txd_en \in BOOLEAN
      OBVIOUS
    <3> QED BY <3>1, <3>2, <3>3 DEF TypeOK
  <2>2. CallInv /\ RoomInv /\ FlushInv /\ TakenInv /\ HoleInv
    BY DEF CallInv, RoomInv, FlushInv, TakenInv, HoleInv, Reading
  <2>3. TxInv /\ RxInv
    BY DEF TxInv, RxInv, InShift
  <2> QED BY <2>1, <2>2, <2>3 DEF IInv
<1>2. IInv /\ [Next]_vars => IInv'
  <2> SUFFICES ASSUME IInv, [Next]_vars PROVE IInv'
    OBVIOUS
  <2>1. CASE \E bad \in BOOLEAN : Arrive(bad)
    BY <2>1, ArriveKeeps
  <2>2. CASE Transmitter
    BY <2>2, LoadShiftKeeps, ShiftOutKeeps DEF Transmitter
  <2>3. CASE Driver
    BY <2>3, ReadStatusKeeps, ReadDataKeeps, DropBadHeadKeeps, ReadRoomKeeps, WriteByteKeeps,
      FlushEndsKeeps DEF Driver
  <2>4. CASE Caller
    BY <2>4, CallerKeeps
  <2>5. CASE UNCHANGED vars
    <3> USE <2>5 DEF vars, lineVars, readVars, sendVars
    <3>1. TypeOK' /\ CallInv'
      BY DEF IInv, TypeOK, CallInv
    <3> QED BY <3>1, TxStands, RxStands DEF IInv
  <2> QED BY <2>1, <2>2, <2>3, <2>4, <2>5 DEF Next
<1> QED BY <1>1, <1>2, PTL DEF Spec

\* The FIFOs, the registers and the running call have their types.
THEOREM UartTypes == Spec => []TypeOK
<1>1. IInv => TypeOK
  BY DEF IInv
<1> QED BY <1>1, UartInvariant, PTL

\* After blocking_flush every byte written is on the wire.
THEOREM UartFlush == Spec => []FlushMeansSent
<1>1. IInv => FlushMeansSent
  <2> SUFFICES ASSUME IInv, result = "Flushed" PROVE Len(wire) = writing - 1
    BY DEF FlushMeansSent
  <2>1. Len(tx) = 0 /\ InShift = 0 /\ Len(wire) \in Nat
    BY DEF IInv, FlushInv, InShift, TypeOK
  <2> QED BY <2>1 DEF IInv, TxInv
<1> QED BY <1>1, UartInvariant, PTL
-----------------------------------------------------------------------------
(***************************************************************************)
(* The transmit direction implements ByteStream.                           *)
(***************************************************************************)
\* What a step that extends a sequence adds to it.
LEMMA AddedFacts ==
  ASSUME NEW s \in Seq(Nat), NEW t \in Seq(Nat)
  PROVE  SubSeq(s \o t, Len(s) + 1, Len(s \o t)) = t
  OBVIOUS

\* The bytes of a sequence.
LEMMA RangeFacts ==
  ASSUME NEW s \in Seq(Nat) PROVE Range(s) = {s[i] : i \in 1 .. Len(s)}
<1>1. DOMAIN s = 1 .. Len(s)
  OBVIOUS
<1> QED BY <1>1 DEF Range

\* A step that leaves the transmit side alone.
LEMMA TxStutters ==
  ASSUME UNCHANGED <<tx, shift, writing, wire, tx_hole>>
  PROVE  UNCHANGED TxStream!vars
  BY DEF TxStream!vars

\* A byte moves on to the shift register: it is still on its way.
LEMMA TxLoads == ASSUME IInv, LoadShift PROVE UNCHANGED TxStream!vars
<1>1. /\ tx \in Seq(Nat) /\ tx # << >> /\ tx' = Tail(tx) /\ shift = None /\ shift' = Head(tx)
      /\ UNCHANGED <<writing, wire, tx_hole>>
  BY DEF LoadShift, IInv, TypeOK
<1>2. /\ Len(tx) \in Nat /\ Len(tx) > 0 /\ Head(tx) = tx[1] /\ tx[1] \in Nat
      /\ tx' \in Seq(Nat) /\ Len(tx') = Len(tx) - 1
      /\ \A i \in 1 .. Len(tx) - 1 : tx'[i] = tx[i + 1]
  BY <1>1, TailFacts
<1>3. Range(tx) = {tx[i] : i \in 1 .. Len(tx)} /\ Range(tx') = {tx'[i] : i \in 1 .. Len(tx')}
  BY <1>1, <1>2, RangeFacts
<1>4. Range(tx) = {tx[1]} \cup Range(tx')
  <2>1. ASSUME NEW b \in Range(tx) PROVE b \in {tx[1]} \cup Range(tx')
    <3>1. PICK i \in 1 .. Len(tx) : b = tx[i]
      BY <1>3
    <3>2. CASE i # 1
      <4>1. i - 1 \in 1 .. Len(tx') /\ i - 1 \in 1 .. Len(tx) - 1 /\ (i - 1) + 1 = i
        BY <1>2, <3>1, <3>2
      <4> QED BY <1>2, <1>3, <3>1, <4>1
    <3> QED BY <3>1, <3>2
  <2>2. ASSUME NEW b \in {tx[1]} \cup Range(tx') PROVE b \in Range(tx)
    BY <1>2, <1>3
  <2> QED BY <2>1, <2>2
<1>5. shift' # None
  BY <1>1, <1>2, UartAssumption
<1> QED BY <1>1, <1>2, <1>4, <1>5 DEF TxStream!vars

\* The shift register holds the oldest byte: it is the one that leaves.
LEMMA TxTakes == ASSUME IInv, ShiftOut PROVE TxStream!Next
<1>1. /\ tx \in Seq(Nat) /\ wire \in Seq(Nat) /\ shift \in Nat /\ shift # None /\ shift' = None
      /\ wire' = Append(wire, shift) /\ UNCHANGED <<tx, writing, tx_hole>>
      /\ tx_hole = None /\ shift = Len(wire) + 1 /\ InShift = 1 /\ Len(wire) \in Nat
  BY DEF ShiftOut, IInv, TypeOK, TxInv, InShift
<1>2. wire' = wire \o <<shift>> /\ <<shift>> \in Seq(Nat)
  BY <1>1
<1>3. SubSeq(wire', Len(wire) + 1, Len(wire')) = <<shift>>
  BY <1>1, <1>2, AddedFacts
<1>4. \A b \in Range(tx) : b > shift
  <2>1. \A i \in 1 .. Len(tx) : tx[i] = Len(wire) + InShift + i
    BY DEF IInv, TxInv
  <2>2. tx \in Seq(Nat) /\ Len(tx) \in Nat
    BY <1>1
  <2>3. Range(tx) = {tx[i] : i \in 1 .. Len(tx)}
    BY <2>2, RangeFacts
  <2> QED BY <1>1, <2>1, <2>2, <2>3
<1>5. TxStream!Range(<<shift>>) = {shift}
  BY DEF TxStream!Range
<1>6. TxStream!IsFront(<<shift>>)
  BY <1>1, <1>4, <1>5 DEF TxStream!IsFront
<1>7. TxStream!Take(<<shift>>)
  BY <1>1, <1>2, <1>4, <1>5, <1>6 DEF TxStream!Take
<1> QED BY <1>3, <1>7 DEF TxStream!Next, TxStream!Added

\* A write to THR puts the next byte on its way.
LEMMA TxPuts == ASSUME IInv, WriteByte PROVE [TxStream!Next]_(TxStream!vars)
<1>1. /\ call # None /\ call.op \in Writes /\ call.pc = "byte" /\ tx \in Seq(Nat)
      /\ writing \in Nat /\ UNCHANGED <<shift, wire>>
  BY DEF WriteByte, IInv, TypeOK
<1>2. CASE call.left = 0
  BY <1>1, <1>2, TxStutters DEF WriteByte
<1>3. CASE call.left # 0
  <2>1. Len(tx) < FIFO_CAPACITY
    BY <1>1, <1>3 DEF IInv, RoomInv
  <2>2. tx' = Append(tx, writing) /\ writing' = writing + 1 /\ tx_hole' = tx_hole
    BY <1>3, <2>1 DEF WriteByte
  <2>3. Range(tx') = Range(tx) \cup {writing}
    <3>1. /\ tx' \in Seq(Nat) /\ Len(tx') = Len(tx) + 1 /\ Len(tx) \in Nat
          /\ \A i \in 1 .. Len(tx) : tx'[i] = tx[i]
          /\ tx'[Len(tx) + 1] = writing
      BY <1>1, <2>2, AppendFacts
    <3>2. Range(tx) = {tx[i] : i \in 1 .. Len(tx)} /\ Range(tx') = {tx'[i] : i \in 1 .. Len(tx')}
      BY <1>1, <3>1, RangeFacts
    <3>3. \A i \in 1 .. Len(tx') : i \in 1 .. Len(tx) \/ i = Len(tx) + 1
      BY <3>1
    <3>4. \A i \in 1 .. Len(tx) : i \in 1 .. Len(tx')
      BY <3>1
    <3>5. Len(tx) + 1 \in 1 .. Len(tx')
      BY <3>1
    <3> QED BY <3>1, <3>2, <3>3, <3>4, <3>5
  <2>4. TxStream!Put
    BY <1>1, <2>2, <2>3 DEF TxStream!Put
  <2> QED BY <2>4 DEF TxStream!Next
<1> QED BY <1>2, <1>3

\* Everything written leaves on the line in order, each byte once.
THEOREM UartWrites == Spec => WritesInOrder
<1>1. Init => TxStream!Init
  <2> SUFFICES ASSUME Init PROVE TxStream!Init
    OBVIOUS
  <2>1. Range(tx) = {}
    BY DEF Init, Range
  <2> QED BY <2>1 DEF Init, TxStream!Init
<1>2. IInv /\ [Next]_vars => [TxStream!Next]_(TxStream!vars)
  <2> SUFFICES ASSUME IInv, [Next]_vars PROVE [TxStream!Next]_(TxStream!vars)
    OBVIOUS
  <2>1. CASE UNCHANGED sendVars
    BY <2>1, TxStutters DEF sendVars
  <2>2. CASE Transmitter
    BY <2>2, TxLoads, TxTakes DEF Transmitter
  <2>3. CASE WriteByte
    BY <2>3, TxPuts
  <2>4. CASE New
    <3>1. Range(tx') = {}
      BY <2>4 DEF New, ClearFifos, Range
    <3> QED BY <2>4, <3>1 DEF New, ClearFifos, TxStream!Next, TxStream!Reset
  <2>5. CASE Drop
    BY <2>5, TxStutters DEF Drop
  <2>6. CASE UNCHANGED vars
    BY <2>1, <2>6 DEF vars
  <2> QED BY <2>1, <2>2, <2>3, <2>4, <2>5, <2>6
          DEF Next, Arrive, Driver, Caller, ReadStatus, ReadData, DropBadHead, ReadRoom,
            FlushEnds, NewRefused, StartRead, StartWrite, StartFlush
<1> QED BY <1>1, <1>2, UartInvariant, PTL DEF Spec, WritesInOrder, TxStream!Spec
-----------------------------------------------------------------------------
(***************************************************************************)
(* The receive direction implements ByteStream.                            *)
(***************************************************************************)
\* What a running read has taken, and the loss that is still to be told.
InHand == IF Reading THEN Range(call.taken) ELSE {}
Untold == IF Reading /\ call.told # None THEN call.told ELSE hole

\* The two notions of the bytes of a sequence are the same.
LEMMA SameRange == \A s : RxStream!Range(s) = Range(s)
  BY DEF Range, RxStream!Range

\* A step that changes neither the bytes nor the loss.
LEMMA RxStutters ==
  ASSUME UNCHANGED <<arriving, seen, errors>>, InHand' = InHand, Untold' = Untold,
         GoodBytes' = GoodBytes
  PROVE  UNCHANGED RxStream!vars
  BY DEF InHand, Untold, RxStream!vars

\* A step of the caller, the transmitter or a call that does not read.
LEMMA RxRests ==
  ASSUME UNCHANGED <<arriving, seen, errors, rx, hole>>, call' = call \/ (~Reading /\ ~Reading')
  PROVE  UNCHANGED RxStream!vars
<1>1. InHand' = InHand /\ Untold' = Untold
  BY DEF InHand, Untold, Reading
<1>2. GoodBytes' = GoodBytes
  BY DEF GoodBytes
<1> QED BY <1>1, <1>2, RxStutters

\* A byte that arrives is put on its way or lost.
LEMMA RxArrives ==
  ASSUME IInv, NEW bad \in BOOLEAN, Arrive(bad)
  PROVE  RxStream!Next
<1> DEFINE e == [byte |-> arriving, bad |-> bad]
<1>0. /\ UNCHANGED <<seen, errors, call>> /\ arriving' = arriving + 1 /\ arriving \in Nat
      /\ rx \in Seq(Entry) /\ Len(rx) \in Nat /\ e \in Entry /\ e.byte = arriving /\ e.bad = bad
  BY DEF Arrive, readVars, IInv, TypeOK, Entry
<1>1. InHand' = InHand
  BY <1>0 DEF InHand, Reading
<1>2. \/ /\ rx' = Append(rx, e) /\ hole' = IF hole = None /\ bad THEN arriving ELSE hole
      \/ /\ rx' = rx /\ hole' = IF hole = None THEN arriving ELSE hole
  BY <1>0, UartAssumption DEF Arrive
<1> HIDE DEF e
<1>3. hole' = (IF hole = None THEN arriving ELSE hole) =>
        Untold' = IF Untold = None THEN arriving ELSE Untold
  BY <1>0 DEF Untold, Reading
<1>4. hole' = hole => Untold' = Untold
  BY <1>0 DEF Untold, Reading
<1>5. CASE rx' = rx /\ hole' = IF hole = None THEN arriving ELSE hole
  <2>1. GoodBytes' = GoodBytes
    BY <1>5 DEF GoodBytes
  <2>2. RxStream!Lose
    BY <1>0, <1>1, <1>3, <1>5, <2>1 DEF RxStream!Lose, InHand, Untold
  <2> QED BY <2>2 DEF RxStream!Next
<1>6. CASE rx' = Append(rx, e) /\ hole' = IF hole = None /\ bad THEN arriving ELSE hole
  <2>1. /\ Len(rx') = Len(rx) + 1 /\ rx'[Len(rx) + 1] = e
        /\ \A i \in 1 .. Len(rx) : rx'[i] = rx[i]
    BY <1>0, <1>6, AppendFacts
  <2>2. /\ \A i \in 1 .. Len(rx') : i \in 1 .. Len(rx) \/ i = Len(rx) + 1
        /\ \A i \in 1 .. Len(rx) : i \in 1 .. Len(rx')
        /\ Len(rx) + 1 \in 1 .. Len(rx')
    BY <1>0, <2>1
  <2>3. CASE bad
    <3>1. GoodBytes' = GoodBytes
      BY <1>0, <2>1, <2>2, <2>3 DEF GoodBytes
    <3>2. RxStream!Lose
      BY <1>0, <1>1, <1>3, <1>6, <2>3, <3>1 DEF RxStream!Lose, InHand, Untold
    <3> QED BY <3>2 DEF RxStream!Next
  <2>4. CASE ~bad
    <3>1. GoodBytes' = GoodBytes \cup {arriving}
      BY <1>0, <2>1, <2>2, <2>4 DEF GoodBytes
    <3>2. Untold' = Untold
      BY <1>4, <1>6, <2>4
    <3>3. RxStream!Put
      BY <1>0, <1>1, <3>1, <3>2 DEF RxStream!Put, InHand, Untold
    <3> QED BY <3>3 DEF RxStream!Next
  <2> QED BY <2>3, <2>4
<1> QED BY <1>2, <1>5, <1>6

\* A read that returns Ok gives the caller the oldest bytes.
LEMMA RxTakes ==
  ASSUME IInv, Reading, call.pc = "status", ReturnOk(call), UNCHANGED <<rx, arriving, hole>>
  PROVE  RxStream!Next
<1>0. /\ call # None /\ call' = None /\ errors' = errors /\ seen' = seen \o call.taken
      /\ call.taken \in Seq(Nat) /\ Len(call.taken) \in Nat /\ seen \in Seq(Nat)
      /\ call.told = None
  BY CallFacts DEF ReturnOk, Reading, IInv, TypeOK, CallInv
<1>1. /\ Untold' = hole /\ Untold = hole /\ InHand = Range(call.taken) /\ InHand' = {}
      /\ Range(call.taken) = {call.taken[i] : i \in 1 .. Len(call.taken)}
  BY <1>0, RangeFacts DEF Untold, InHand, Reading
<1>2. GoodBytes' = GoodBytes
  BY DEF GoodBytes
<1>3. \A i \in 1 .. Len(call.taken) : \A b \in GoodBytes : call.taken[i] < b
  BY DEF IInv, TakenInv, GoodBytes
<1>4. GoodBytes = (InHand \cup GoodBytes) \ Range(call.taken)
  <2>1. \A b \in GoodBytes : b \notin Range(call.taken)
    <3> SUFFICES ASSUME NEW b \in GoodBytes, NEW i \in 1 .. Len(call.taken), b = call.taken[i]
                 PROVE  FALSE
      BY <1>1
    <3>1. call.taken[i] \in Nat /\ call.taken[i] < b
      BY <1>0, <1>3
    <3> QED BY <3>1
  <2> QED BY <1>1, <2>1
<1>5. RxStream!IsFront(call.taken)
  <2>1. \A i, j \in 1 .. Len(call.taken) : i < j => call.taken[i] < call.taken[j]
    BY DEF IInv, TakenInv
  <2>2. \A i \in 1 .. Len(call.taken) :
          \A b \in (InHand \cup GoodBytes) \ Range(call.taken) : call.taken[i] < b
    BY <1>3, <1>4
  <2>3. Range(call.taken) \subseteq InHand \cup GoodBytes
    BY <1>1
  <2> QED BY <2>1, <2>2, <2>3, SameRange DEF RxStream!IsFront, InHand
<1>6. hole # None => \A i \in 1 .. Len(call.taken) : call.taken[i] < hole
  BY DEF IInv, HoleInv
<1>7. RxStream!Take(call.taken)
  BY <1>0, <1>1, <1>2, <1>4, <1>5, <1>6, SameRange DEF RxStream!Take, InHand, Untold
<1>8. SubSeq(seen', Len(seen) + 1, Len(seen')) = call.taken
  BY <1>0, AddedFacts
<1> QED BY <1>7, <1>8 DEF RxStream!Next, RxStream!Added

\* A look at the status that does not return.
LEMMA RxLooks ==
  ASSUME IInv, ReadStatus
  PROVE  [RxStream!Next]_(RxStream!vars)
<1>0. /\ Reading /\ call # None /\ call.pc = "status" /\ call.told = None /\ call \in Calls
      /\ call.op \in Reads /\ UNCHANGED <<rx, arriving>>
  BY CallFacts DEF ReadStatus, Reading, IInv, CallInv
<1>1. CASE ReturnOk(call) /\ UNCHANGED hole
  BY <1>0, <1>1, RxTakes
<1>2. CASE UNCHANGED <<call, readVars, hole>>
  BY <1>0, <1>2, RxRests DEF readVars
<1>3. CASE call' = [call EXCEPT !.pc = "data"] /\ UNCHANGED <<readVars, hole>>
  <2>1. call' \in Calls /\ call'.op = call.op /\ call'.told = None /\ call'.taken = call.taken
    BY <1>0, <1>3 DEF Calls
  <2>2. InHand' = InHand /\ Untold' = Untold
    BY <1>0, <1>3, <2>1, CallAssumption DEF InHand, Untold, Reading
  <2>3. GoodBytes' = GoodBytes
    BY <1>0 DEF GoodBytes
  <2> QED BY <1>0, <1>3, <2>2, <2>3, RxStutters DEF readVars
<1>4. CASE /\ call' = [call EXCEPT !.pc = IF rx = << >> THEN "fail" ELSE "drop", !.told = hole]
           /\ hole' = None /\ UNCHANGED readVars
  <2>0. hole \in Nat \cup {None}
    BY DEF IInv, TypeOK
  <2>1. call' \in Calls /\ call'.op = call.op /\ call'.told = hole /\ call'.taken = call.taken
    BY <1>0, <1>4, <2>0 DEF Calls
  <2>2. InHand' = InHand /\ Untold' = Untold
    BY <1>0, <1>4, <2>1, CallAssumption DEF InHand, Untold, Reading
  <2>3. GoodBytes' = GoodBytes
    BY <1>0 DEF GoodBytes
  <2> QED BY <1>0, <1>4, <2>2, <2>3, RxStutters DEF readVars
<1> QED
  <2>1. CASE call.left = 0
    BY <1>1, <2>1 DEF ReadStatus
  <2>2. CASE call.left # 0 /\ StatusError
    BY <1>4, <2>2 DEF ReadStatus
  <2>3. CASE call.left # 0 /\ ~StatusError /\ rx # << >>
    BY <1>3, <2>3 DEF ReadStatus
  <2>4. CASE call.left # 0 /\ ~StatusError /\ rx = << >>
    BY <1>1, <1>2, <2>4 DEF ReadStatus
  <2> QED BY <2>1, <2>2, <2>3, <2>4

\* A byte that moves from the FIFO to the buffer is still on its way.
LEMMA RxMoves == ASSUME IInv, ReadData PROVE UNCHANGED RxStream!vars
<1>0. /\ Reading /\ call # None /\ call.op \in Reads /\ call.pc = "data" /\ call \in Calls
      /\ UNCHANGED <<arriving, seen, errors, hole>> /\ call.told = None
      /\ rx \in Seq(Entry) /\ rx # << >> /\ ~rx[1].bad /\ rx' = Tail(rx)
      /\ call.taken \in Seq(Nat) /\ call.left > 0 /\ call.left \in Nat
  BY CallFacts DEF ReadData, Reading, IInv, CallInv, HoleInv, TypeOK, Entry, readVars
<1>1. /\ Len(rx) \in Nat /\ Len(rx) > 0 /\ Head(rx) = rx[1] /\ rx[1] \in Entry
      /\ Len(rx') = Len(rx) - 1
      /\ \A i \in 1 .. Len(rx) - 1 : rx'[i] = rx[i + 1]
  BY <1>0, TailFacts
<1> DEFINE taken == Append(call.taken, rx[1].byte)
<1>2. /\ taken \in Seq(Nat) /\ Len(taken) = Len(call.taken) + 1 /\ Len(call.taken) \in Nat
      /\ \A i \in 1 .. Len(call.taken) : taken[i] = call.taken[i]
      /\ taken[Len(call.taken) + 1] = rx[1].byte
  BY <1>0, <1>1, AppendFacts DEF Entry
<1>3. call' = [call EXCEPT !.taken = taken, !.left = call.left - 1, !.pc = "status"]
  BY <1>1 DEF ReadData
<1> HIDE DEF taken
<1>4. call' \in Calls /\ call'.op = call.op /\ call'.taken = taken /\ call'.told = None
  <2>1. call.left - 1 \in Nat
    BY <1>0
  <2> QED BY <1>0, <1>2, <1>3, <2>1 DEF Calls
<1>5. Reading' /\ Untold' = Untold
  BY <1>0, <1>4, CallAssumption DEF Reading, Untold
<1>6. InHand' = InHand \cup {rx[1].byte}
  <2>1. /\ InHand = {call.taken[i] : i \in 1 .. Len(call.taken)}
        /\ InHand' = {taken[i] : i \in 1 .. Len(taken)}
    BY <1>0, <1>2, <1>4, <1>5, RangeFacts DEF InHand
  <2>2. /\ \A i \in 1 .. Len(taken) : i \in 1 .. Len(call.taken) \/ i = Len(call.taken) + 1
        /\ \A i \in 1 .. Len(call.taken) : i \in 1 .. Len(taken)
        /\ Len(call.taken) + 1 \in 1 .. Len(taken)
    BY <1>2
  <2>3. \A i \in 1 .. Len(taken) : taken[i] \in InHand \cup {rx[1].byte}
    <3>1. \A i \in 1 .. Len(call.taken) : call.taken[i] \in InHand
      BY <2>1
    <3> QED BY <1>2, <2>2, <3>1
  <2>4. \A i \in 1 .. Len(call.taken) : call.taken[i] \in InHand'
    <3>1. \A i \in 1 .. Len(taken) : taken[i] \in InHand'
      BY <2>1
    <3> QED BY <1>2, <2>2, <3>1
  <2>5. rx[1].byte \in InHand'
    BY <1>2, <2>1, <2>2
  <2>6. InHand \subseteq InHand'
    BY <2>1, <2>4
  <2>7. InHand' \subseteq InHand \cup {rx[1].byte}
    BY <2>1, <2>3
  <2> QED BY <2>5, <2>6, <2>7
<1>7. GoodBytes = GoodBytes' \cup {rx[1].byte}
  <2>1. ASSUME NEW b \in GoodBytes PROVE b \in GoodBytes' \cup {rx[1].byte}
    <3>1. PICK i \in 1 .. Len(rx) : ~rx[i].bad /\ b = rx[i].byte
      BY DEF GoodBytes
    <3>2. CASE i # 1
      <4>1. i - 1 \in 1 .. Len(rx') /\ i - 1 \in 1 .. Len(rx) - 1 /\ (i - 1) + 1 = i
        BY <1>1, <3>1, <3>2
      <4>2. rx'[i - 1] = rx[i]
        BY <1>1, <4>1
      <4> QED BY <3>1, <4>1, <4>2 DEF GoodBytes
    <3> QED BY <3>1, <3>2
  <2>2. ASSUME NEW b \in GoodBytes' PROVE b \in GoodBytes
    <3>1. PICK i \in 1 .. Len(rx') : ~rx'[i].bad /\ b = rx'[i].byte
      BY DEF GoodBytes
    <3>2. i + 1 \in 1 .. Len(rx) /\ rx'[i] = rx[i + 1]
      BY <1>1, <3>1
    <3> QED BY <3>1, <3>2 DEF GoodBytes
  <2>3. rx[1].byte \in GoodBytes
    <3>1. 1 \in 1 .. Len(rx)
      BY <1>1
    <3> QED BY <1>0, <3>1 DEF GoodBytes
  <2> QED BY <2>1, <2>2, <2>3
<1>8. (InHand \cup GoodBytes)' = InHand \cup GoodBytes
  BY <1>6, <1>7
<1> QED BY <1>0, <1>5, <1>8 DEF RxStream!vars, InHand, Untold

\* A read that fails loses what it had taken and the head it drops: the
\* oldest bytes.
LEMMA RxFails == ASSUME IInv, DropBadHead PROVE RxStream!Next
<1>0. /\ Reading /\ call # None /\ call.pc \in {"drop", "fail"} /\ call' = None
      /\ UNCHANGED <<arriving, hole>> /\ seen' = << >> /\ errors' = 1 - errors
      /\ rx \in Seq(Entry) /\ rx' = IF call.pc = "drop" THEN Tail(rx) ELSE rx
      /\ call.pc = "drop" => rx # << >>
      /\ call.taken \in Seq(Nat) /\ Len(call.taken) \in Nat /\ arriving \in Nat
      /\ Len(rx) \in Nat /\ arriving > 0
  BY CallFacts DEF DropBadHead, Reading, IInv, HoleInv, RxInv, TypeOK, Entry
<1>1. InHand = {call.taken[i] : i \in 1 .. Len(call.taken)} /\ InHand' = {} /\ Untold' = hole
  BY <1>0, RangeFacts DEF InHand, Untold, Reading
<1>2. hole \in {None} \cup 1 .. arriving - 1
  BY DEF IInv, RxInv
<1>3. /\ \A i \in 1 .. Len(rx) : rx[i].byte \in 1 .. arriving - 1
      /\ \A i, j \in 1 .. Len(rx) : i < j => rx[i].byte < rx[j].byte
      /\ \A i \in 1 .. Len(call.taken) : call.taken[i] \in 1 .. arriving - 1
      /\ \A i \in 1 .. Len(call.taken), j \in 1 .. Len(rx) : call.taken[i] < rx[j].byte
  BY <1>0 DEF IInv, RxInv, TakenInv
<1>4. \E n \in 1 .. arriving : GoodBytes' = {b \in InHand \cup GoodBytes : b >= n}
  <2>1. CASE rx = << >>
    <3>1. GoodBytes = {} /\ GoodBytes' = {} /\ arriving \in 1 .. arriving
      BY <1>0, <2>1 DEF GoodBytes
    <3>2. \A b \in InHand : ~(b >= arriving)
      BY <1>0, <1>1, <1>3
    <3> QED BY <3>1, <3>2
  <2>2. CASE rx # << >> /\ call.pc = "fail"
    <3>1. 1 \in 1 .. Len(rx) /\ rx[1].byte \in 1 .. arriving
      BY <1>0, <1>3, <2>2
    <3>2. GoodBytes' = GoodBytes
      BY <1>0, <2>2 DEF GoodBytes
    <3>3. \A b \in InHand : ~(b >= rx[1].byte)
      BY <1>0, <1>1, <1>3, <3>1
    <3>4. \A b \in GoodBytes : b >= rx[1].byte
      BY <1>0, <1>3, <3>1 DEF GoodBytes
    <3> QED BY <3>1, <3>2, <3>3, <3>4
  <2>3. CASE rx # << >> /\ call.pc = "drop"
    <3> DEFINE n == rx[1].byte + 1
    <3>1. 1 \in 1 .. Len(rx) /\ rx[1].byte \in 1 .. arriving - 1 /\ n \in 1 .. arriving
      BY <1>0, <1>3, <2>3
    <3>2. /\ rx' = Tail(rx) /\ Len(rx') = Len(rx) - 1
          /\ \A i \in 1 .. Len(rx) - 1 : rx'[i] = rx[i + 1]
      BY <1>0, <2>3, TailFacts
    <3>3. ASSUME NEW b \in InHand PROVE ~(b >= n)
      BY <1>0, <1>1, <1>3, <3>1
    <3>4. ASSUME NEW b \in GoodBytes, b >= n PROVE b \in GoodBytes'
      <4>1. PICK i \in 1 .. Len(rx) : ~rx[i].bad /\ b = rx[i].byte
        BY DEF GoodBytes
      <4>2. i # 1
        BY <3>1, <3>4, <4>1
      <4>3. i - 1 \in 1 .. Len(rx') /\ i - 1 \in 1 .. Len(rx) - 1 /\ (i - 1) + 1 = i
        BY <1>0, <3>2, <4>1, <4>2
      <4>4. rx'[i - 1] = rx[i]
        BY <3>2, <4>3
      <4> QED BY <4>1, <4>3, <4>4 DEF GoodBytes
    <3>5. ASSUME NEW b \in GoodBytes' PROVE b \in GoodBytes /\ b >= n
      <4>1. PICK i \in 1 .. Len(rx') : ~rx'[i].bad /\ b = rx'[i].byte
        BY DEF GoodBytes
      <4>2. i + 1 \in 1 .. Len(rx) /\ 1 < i + 1 /\ rx'[i] = rx[i + 1]
        BY <1>0, <3>2, <4>1
      <4>3. rx[1].byte < rx[i + 1].byte /\ rx[i + 1].byte \in Nat
        BY <1>3, <3>1, <4>2
      <4> QED BY <3>1, <4>1, <4>2, <4>3 DEF GoodBytes
    <3> HIDE DEF n
    <3> QED BY <3>1, <3>3, <3>4, <3>5
  <2> QED BY <1>0, <2>1, <2>2, <2>3
<1>5. RxStream!Fail
  BY <1>0, <1>1, <1>2, <1>4 DEF RxStream!Fail, InHand, Untold
<1> QED BY <1>5 DEF RxStream!Next

\* Reads give the caller the line's bytes in order, each at most once, and
\* nothing from behind a loss before an Err.
THEOREM UartReads == Spec => ReadsInOrder
<1>1. Init => RxStream!Init
  <2> SUFFICES ASSUME Init PROVE RxStream!Init
    OBVIOUS
  <2>1. GoodBytes = {} /\ ~Reading
    BY DEF Init, GoodBytes, Reading
  <2> QED BY <2>1 DEF Init, RxStream!Init
<1>2. IInv /\ [Next]_vars => [RxStream!Next]_(RxStream!vars)
  <2> SUFFICES ASSUME IInv, [Next]_vars PROVE [RxStream!Next]_(RxStream!vars)
    OBVIOUS
  <2>1. CASE \E bad \in BOOLEAN : Arrive(bad)
    BY <2>1, RxArrives
  <2>2. CASE ReadStatus \/ ReadData \/ DropBadHead
    BY <2>2, RxLooks, RxMoves, RxFails
  <2>3. CASE Transmitter \/ UNCHANGED vars
    BY <2>3, RxRests DEF Transmitter, LoadShift, ShiftOut, vars, lineVars, readVars
  <2>4. CASE ReadRoom \/ WriteByte \/ FlushEnds
    <3>1. UNCHANGED <<arriving, seen, errors, rx, hole>> /\ call # None /\ call.op \notin Reads
      BY <2>4 DEF ReadRoom, WriteByte, FlushEnds, lineVars, readVars, Reads, Writes
    <3>2. call \in Calls
      BY <3>1, CallFacts DEF IInv
    <3>3. call' = None \/ call'.op = call.op
      BY <2>4, <3>2 DEF ReadRoom, WriteByte, FlushEnds, Calls
    <3> QED BY <3>1, <3>3, RxRests DEF Reading
  <2>5. CASE New
    <3>1. call = None /\ call' = None
      BY <2>5 DEF New, IInv, CallInv
    <3>2. GoodBytes' = {} /\ ~Reading'
      BY <2>5, <3>1 DEF New, ClearFifos, GoodBytes, Reading
    <3>3. RxStream!Reset
      BY <2>5, <3>2 DEF New, ClearFifos, RxStream!Reset
    <3> QED BY <3>3 DEF RxStream!Next
  <2>6. CASE NewRefused \/ Drop
    BY <2>6, RxRests DEF NewRefused, Drop, lineVars, readVars
  <2>7. ASSUME NEW op \in Reads, NEW len \in 0 .. MaxBuffer, StartRead(op, len)
        PROVE  UNCHANGED RxStream!vars
    <3>1. /\ UNCHANGED <<arriving, seen, errors, rx, hole>> /\ call = None
          /\ call' = Call(op, len, "status")
      BY <2>7 DEF StartRead, lineVars, readVars
    <3>2. call'.taken = << >> /\ call'.told = None
      BY <3>1 DEF Call
    <3>3. InHand = {} /\ InHand' = {} /\ Untold' = Untold
      BY <3>1, <3>2 DEF InHand, Untold, Reading, Range
    <3>4. GoodBytes' = GoodBytes
      BY <3>1 DEF GoodBytes
    <3> QED BY <3>1, <3>3, <3>4, RxStutters
  <2>8. ASSUME NEW op \in Writes \cup {"blocking_flush"}, NEW len, NEW pc,
               call = None, call' = Call(op, len, pc), UNCHANGED <<lineVars, readVars>>
        PROVE  UNCHANGED RxStream!vars
    <3>1. call'.op \notin Reads
      BY <2>8 DEF Call, Reads, Writes
    <3> QED BY <2>8, <3>1, RxRests DEF Reading, lineVars, readVars
  <2>9. CASE Caller
    BY <2>5, <2>6, <2>7, <2>8, <2>9 DEF Caller, StartWrite, StartFlush
  <2> QED BY <2>1, <2>2, <2>3, <2>4, <2>9 DEF Next, Driver
<1> QED BY <1>1, <1>2, UartInvariant, PTL DEF Spec, ReadsInOrder, RxStream!Spec
=============================================================================
