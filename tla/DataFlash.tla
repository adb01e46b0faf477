----------------------------- MODULE DataFlash -----------------------------
(***************************************************************************)
(* The DataFlash driver: read, erase and write on the exposed window, each *)
(* a loop of transactions with the flash controller that run from SRAM     *)
(* inside one critical section.  Every wait for the controller may time    *)
(* out.                                                                    *)
(*                                                                         *)
(* A byte is 0 or 1; programming can only clear it and erasing sets it.    *)
(* The chip is external: a page program wraps inside its page, and a       *)
(* program or erase that is not seen to finish may have reached any part   *)
(* of its cells; the controller reset of the next transaction ends it.     *)
(***************************************************************************)
EXTENDS Naturals

CONSTANTS
  Cells,        \* bytes of the whole DataFlash region
  Exposed,      \* EXPOSED_OFFSET: where the driver's window begins
  Capacity,     \* CAPACITY of the window
  EraseSize,    \* ERASE_SIZE
  PageSize,     \* PAGE_SIZE
  Scratch,      \* bytes of the scratch buffer
  Word,         \* usize is an integer modulo Word
  Offsets,      \* offsets a caller passes
  Lengths,      \* lengths of the buffers a caller passes
  Patterns,     \* contents of those buffers, as functions of the index
  BootConfigs,  \* values of GLOBAL_CONFIG the driver may find
  None

ASSUME GeometryAssumption ==
  /\ EraseSize \in Nat \ {0} /\ PageSize \in Nat \ {0} /\ Scratch \in Nat \ {0}
  /\ Exposed \in Nat /\ Capacity \in Nat /\ Cells \in Nat
  /\ Exposed % EraseSize = 0 /\ Exposed % PageSize = 0
  /\ Capacity % EraseSize = 0 /\ Capacity % PageSize = 0
  /\ Exposed + Capacity <= Cells
ASSUME CallerAssumption ==
  /\ Word \in Nat /\ Capacity < Word
  /\ Offsets \subseteq 0 .. Word - 1 /\ Lengths \subseteq 0 .. Word - 1
  /\ \A pattern \in Patterns : pattern \in [0 .. Word - 1 -> {0, 1}]

ReadBits == {0}         \* 0x20
WriteBits == {0, 1, 2}  \* 0xe0

ASSUME ConfigAssumption == BootConfigs \subseteq SUBSET WriteBits

Errors == {"OutOfBounds", "NotAligned", "Timeout"}
Kinds == {"Read", "Erase", "Write"}
Calls == [kind : Kinds, start : 0 .. Capacity, len : 0 .. Capacity, data : Patterns \cup {None}]

ASSUME NoneAssumption == None \notin Calls

VARIABLES
  flash,    \* the chip's cells
  config,   \* GLOBAL_CONFIG
  ctrl,     \* FLASH_CTRL: 0 deselects the chip
  pc,       \* the next transaction step of the driver, or "Idle"
  call,     \* the call being served: its kind, range and data
  cursor,   \* bytes of the call that are finished
  index,    \* bytes of the transaction transferred
  original, \* GLOBAL_CONFIG as ram_configure found it
  output,   \* the caller's read buffer
  result,   \* what the last call returned
  boot,     \* GLOBAL_CONFIG before the first call
  before    \* the cells before the last call

driverVars == <<pc, call, cursor, index, original>>
callerVars == <<output, result>>
vars == <<flash, config, ctrl, driverVars, callerVars, boot, before>>

Init ==
  /\ flash \in {[a \in 0 .. Cells - 1 |-> 1], [a \in 0 .. Cells - 1 |-> a % 2]}
  /\ boot \in BootConfigs /\ config = boot /\ ctrl = 0
  /\ pc = "Idle" /\ call = None /\ cursor = 0 /\ index = 0 /\ original = {}
  /\ output = << >> /\ result = None /\ before = flash
-----------------------------------------------------------------------------
(***************************************************************************)
(* The calls.                                                              *)
(***************************************************************************)
\* The address of an offset; its own bound is implied by those of the calls.
Physical(offset) == Exposed + offset

Minimum(a, b) == IF a <= b THEN a ELSE b

\* start.checked_add(len), then the bound.
InBounds(start, len) == start + len < Word /\ start + len <= Capacity

Returns(outcome) == result' = outcome /\ pc' = "Idle"

\* A call that passes its checks enters its loop, if that has an iteration.
Enters(kind, start, len, data) ==
  /\ call' = [kind |-> kind, start |-> start, len |-> len, data |-> data]
  /\ cursor' = 0 /\ index' = 0
  /\ IF len = 0 THEN Returns("Ok") ELSE pc' = "Configure" /\ result' = None

Refuses(error) == call' = None /\ UNCHANGED <<cursor, index>> /\ Returns(error)

Called ==
  /\ pc = "Idle"
  /\ before' = flash /\ output' = << >>
  /\ UNCHANGED <<flash, config, ctrl, original, boot>>

Read(start, len) ==
  /\ Called
  /\ IF InBounds(start, len) THEN Enters("Read", start, len, None)
     ELSE Refuses("OutOfBounds")

Erase(from, to) ==
  /\ Called
  /\ IF from % EraseSize # 0 \/ to % EraseSize # 0 THEN Refuses("NotAligned")
     ELSE IF from >= to \/ to > Capacity THEN Refuses("OutOfBounds")
     ELSE Enters("Erase", from, to - from, None)

Write(start, len, data) ==
  /\ Called
  /\ IF InBounds(start, len) THEN Enters("Write", start, len, data)
     ELSE Refuses("OutOfBounds")
-----------------------------------------------------------------------------
(***************************************************************************)
(* The transactions.                                                       *)
(***************************************************************************)
Address == call.start + cursor

\* Mutant of Count: a chunk may cross the end of its page.
CountAcrossPages ==
  CASE call.kind = "Read" -> call.len
    [] call.kind = "Erase" -> EraseSize
    [] call.kind = "Write" -> Minimum(call.len - cursor, Scratch)

\* Mutant of Count: nothing remains of a page at its beginning.
CountNothingAtPage ==
  CASE call.kind = "Read" -> call.len
    [] call.kind = "Erase" -> EraseSize
    [] call.kind = "Write" ->
         Minimum((PageSize - (Address % PageSize)) % PageSize, Minimum(call.len - cursor, Scratch))

\* The bytes of the current transaction.
Count ==
  CASE call.kind = "Read" -> call.len
    [] call.kind = "Erase" -> EraseSize
    [] call.kind = "Write" ->
         Minimum(PageSize - (Address % PageSize), Minimum(call.len - cursor, Scratch))

\* The cell the chip's page latch sends byte i of a transaction to.
Target(i) ==
  LET address == Physical(Address)
  IN  (address - (address % PageSize)) + (((address % PageSize) + i) % PageSize)

\* The cells the transaction has reached after n bytes: those of the latched
\* bytes, or the erase block once the address is complete.
Touched(n) ==
  IF call.kind = "Erase"
  THEN LET address == Physical(Address)
           block == address - (address % EraseSize)
       IN  block .. block + EraseSize - 1
  ELSE {Target(i) : i \in 0 .. n - 1}

\* What the chip makes of a cell it has touched with the n bytes it has.
NewByte(a, n) ==
  IF call.kind = "Erase" THEN 1
  ELSE IF \A i \in 0 .. n - 1 : Target(i) = a => call.data[cursor + i] = 1
  THEN flash[a] ELSE 0

ChipFinishes(done, n) ==
  flash' = [a \in DOMAIN flash |-> IF a \in done THEN NewByte(a, n) ELSE flash[a]]

\* The chip was not seen to finish: any part of the cells may be done.
ChipMayFinish(n) ==
  IF call.kind = "Read" THEN UNCHANGED flash
  ELSE \E done \in SUBSET Touched(n) : ChipFinishes(done, n)

\* Mutant of RamFail: the configuration is not restored.
RamFailKeepsConfig ==
  /\ ctrl' = 0
  /\ Returns("Timeout")
  /\ UNCHANGED <<config, call, cursor, index, original, output, boot, before>>

\* ram_fail, or ram_end and ram_restore: the chip is deselected, the
\* configuration restored and the call ends.
RamFail ==
  /\ ctrl' = 0
  /\ config' = original
  /\ Returns("Timeout")
  /\ UNCHANGED <<call, cursor, index, original, output, boot, before>>

Goes(next) ==
  /\ pc' = next
  /\ UNCHANGED <<call, cursor, original, result, boot, before>>

\* ram_configure.
Configure ==
  /\ pc = "Configure"
  /\ original' = config
  /\ config' = config \cup (IF call.kind = "Read" THEN ReadBits ELSE WriteBits)
  /\ pc' = "Prepare" /\ index' = 0
  /\ UNCHANGED <<flash, ctrl, call, cursor, callerVars, boot, before>>

\* ram_prepare: the controller is reset.
Prepare ==
  /\ pc = "Prepare"
  /\ \/ /\ ctrl' = 0
        /\ Goes(IF call.kind = "Read" THEN "Address" ELSE "WriteEnable")
        /\ UNCHANGED <<config, index, output>>
     \/ RamFail
  /\ UNCHANGED flash

WriteEnable ==
  /\ pc = "WriteEnable"
  /\ \/ ctrl' = 0 /\ Goes("Address") /\ UNCHANGED <<config, index, output>>
     \/ RamFail
  /\ UNCHANGED flash

\* ram_address: the command and three address bytes, with a read's dummies.
SendAddress ==
  /\ pc = "Address"
  /\ \/ ctrl' = 5 /\ Goes("Transfer") /\ UNCHANGED <<config, index, output>>
     \/ RamFail
  /\ UNCHANGED flash

\* ram_read_bytes: one byte into the caller's buffer.
ReadByte ==
  /\ pc = "Transfer" /\ call.kind = "Read" /\ index < Count
  /\ \/ /\ index' = index + 1
        /\ output' = [i \in 0 .. index |-> IF i = index THEN flash[Physical(call.start + i)]
                                           ELSE output[i]]
        /\ Goes("Transfer")
        /\ UNCHANGED <<config, ctrl>>
     \/ RamFail
  /\ UNCHANGED flash

\* ram_page_program: one byte into the chip's latch.  Giving up deselects the
\* chip, which may then program the bytes it has.
ProgramByte ==
  /\ pc = "Transfer" /\ call.kind = "Write" /\ index < Count
  /\ \/ /\ index' = index + 1
        /\ Goes("Transfer")
        /\ UNCHANGED <<config, ctrl, flash, output>>
     \/ RamFail /\ ChipMayFinish(index)

\* Mutant of NextChunk: the cursor moves by the scratch buffer's size.
NextChunkByScratch(moved) ==
  LET past == cursor + (IF call.kind = "Write" THEN Scratch ELSE moved)
  IN  /\ cursor' = Minimum(past, call.len)
      /\ config' = original
      /\ IF past < call.len THEN pc' = "Configure" /\ UNCHANGED result ELSE Returns("Ok")
      /\ UNCHANGED <<call, index, original, output, boot, before>>

\* ram_restore: then the next iteration of the call's loop, or its end.
NextChunk(moved) ==
  /\ cursor' = cursor + moved
  /\ config' = original
  /\ IF cursor + moved < call.len THEN pc' = "Configure" /\ UNCHANGED result ELSE Returns("Ok")
  /\ UNCHANGED <<call, index, original, output, boot, before>>

\* ram_end after the last byte: the chip is deselected either way.
End ==
  /\ pc = "Transfer" /\ (call.kind = "Erase" \/ index = Count)
  /\ ctrl' = 0
  /\ \/ call.kind = "Read" /\ NextChunk(Count) /\ UNCHANGED flash
     \/ call.kind # "Read" /\ Goes("WaitReady") /\ UNCHANGED <<config, index, output, flash>>
     \/ RamFail /\ ChipMayFinish(Count)

\* Mutant of WaitReady: a chip that is not seen ready is taken for ready.
WaitReadyIgnored ==
  /\ pc = "WaitReady"
  /\ \/ ChipFinishes(Touched(Count), Count)
     \/ ChipMayFinish(Count)
  /\ NextChunk(Count) /\ UNCHANGED ctrl

\* ram_wait_ready_active polls the status until the chip is ready.
WaitReady ==
  /\ pc = "WaitReady"
  /\ \/ ChipFinishes(Touched(Count), Count) /\ NextChunk(Count) /\ UNCHANGED ctrl
     \/ RamFail /\ ChipMayFinish(Count)

Driver ==
  \/ Configure
  \/ Prepare
  \/ WriteEnable
  \/ SendAddress
  \/ ReadByte
  \/ ProgramByte
  \/ End
  \/ WaitReady

Next ==
  \/ \E start \in Offsets, len \in Lengths : Read(start, len)
  \/ \E from, to \in Offsets : Erase(from, to)
  \/ \E start \in Offsets, len \in Lengths, data \in Patterns : Write(start, len, data)
  \/ Driver

Spec == Init /\ [][Next]_vars

\* Interrupts are off: nothing but the driver runs until the call returns.
FairSpec == Spec /\ WF_vars(Driver)
-----------------------------------------------------------------------------
\* Type invariant.
TypeOK ==
  /\ flash \in [0 .. Cells - 1 -> {0, 1}] /\ before \in [0 .. Cells - 1 -> {0, 1}]
  /\ config \subseteq WriteBits /\ original \subseteq WriteBits /\ boot \subseteq WriteBits
  /\ ctrl \in {0, 5}
  /\ pc \in {"Idle", "Configure", "Prepare", "WriteEnable", "Address", "Transfer", "WaitReady"}
  /\ call \in Calls \cup {None} /\ cursor \in Nat /\ index \in Nat
  /\ call # None => /\ call.start + call.len <= Capacity
                    /\ cursor <= call.len /\ index <= call.len
  /\ result \in {None, "Ok"} \cup Errors

\* However a call ends, the chip is deselected and GLOBAL_CONFIG is what it
\* was before the first call: no error path leaves flash writes unlocked.
InterfaceReleased == pc = "Idle" => ctrl = 0 /\ config = boot

Window == Exposed .. Exposed + Capacity - 1
Requested ==
  IF call = None \/ call.kind = "Read" THEN {}
  ELSE Physical(call.start) .. Physical(call.start) + call.len - 1

\* No step changes a cell that the call did not ask to change or that lies
\* outside the exposed window, timeouts and page ends included.
NeighboursUntouched ==
  [][\A a \in DOMAIN flash : flash'[a] # flash[a] => a \in Requested \cap Window]_vars

Written(a) ==
  IF call.kind = "Erase" THEN 1
  ELSE IF call.data[a - Physical(call.start)] = 0 THEN 0 ELSE before[a]

\* Ok means all of the request: every byte of a write is in its cell, every
\* cell of an erase is erased, and a read returned the cells in order.
OkMeansDone ==
  pc = "Idle" /\ result = "Ok" /\ call # None =>
    /\ \A a \in Requested : flash[a] = Written(a)
    /\ call.kind = "Read" =>
         \A i \in 0 .. call.len - 1 : output[i] = flash[Physical(call.start + i)]

\* A call that times out has finished everything before its cursor and has
\* touched nothing beyond the transaction that failed.
FailureLeavesPrefix ==
  call # None => \A a \in Requested :
    /\ a < Physical(Address) => flash[a] = Written(a)
    /\ pc = "Idle" /\ result = "Timeout" /\ a >= Physical(Address) + Count
         => flash[a] = before[a]

\* Every call returns: the chunk loop always advances.
CallReturns == (pc # "Idle") ~> (pc = "Idle")
=============================================================================
