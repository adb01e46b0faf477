--------------------------- MODULE DataFlashProofs ---------------------------
(***************************************************************************)
(* Proofs about the DataFlash driver of module DataFlash, for every        *)
(* geometry of the chip, every window and every call.  The invariant says  *)
(* which bytes of the call are done and that a transaction stays inside    *)
(* one page or one erase block of the request.                             *)
(***************************************************************************)
EXTENDS DataFlash, TLAPS

-----------------------------------------------------------------------------
(***************************************************************************)
(* The inductive invariant.                                                *)
(***************************************************************************)
\* GLOBAL_CONFIG and the chip select, and where the old value is kept.
ReleaseInv ==
  /\ pc \in {"Idle", "Configure"} => config = boot
  /\ pc \notin {"Idle", "Configure"} => original = boot
  /\ pc # "Transfer" => ctrl = 0

\* A call being served has bytes left; an erase moves by whole blocks.
LoopInv ==
  pc # "Idle" =>
    /\ call # None /\ cursor < call.len
    /\ call.kind = "Read" => cursor = 0
    /\ call.kind = "Write" => call.data \in Patterns
    /\ call.kind = "Erase" => /\ call.start % EraseSize = 0 /\ call.len % EraseSize = 0
                              /\ cursor % EraseSize = 0
    /\ pc \in {"Prepare", "WriteEnable", "Address"} => index = 0
    /\ pc = "WaitReady" => call.kind # "Read"

\* The bytes before the cursor are done.  Those behind it are as they were,
\* but for the transaction that failed.
CellInv ==
  call # None => \A a \in Requested :
    /\ a < Physical(Address) => flash[a] = Written(a)
    /\ pc # "Idle" /\ a >= Physical(Address) => flash[a] = before[a]
    /\ pc = "Idle" /\ result = "Timeout" /\ a >= Physical(Address) + Count
         => flash[a] = before[a]

\* The caller's buffer holds the bytes read so far.
OutputInv ==
  call # None /\ call.kind = "Read" =>
    \A i \in 0 .. index - 1 : output[i] = flash[Physical(call.start + i)]

\* Ok is returned only at the end of the loop.
DoneInv ==
  pc = "Idle" /\ result = "Ok" /\ call # None =>
    cursor = call.len /\ (call.kind = "Read" => index = call.len)

IInv == TypeOK /\ ReleaseInv /\ LoopInv /\ CellInv /\ OutputInv /\ DoneInv
-----------------------------------------------------------------------------
(***************************************************************************)
(* Arithmetic of pages and blocks of an arbitrary size.                    *)
(***************************************************************************)
\* Quotient and remainder.
LEMMA Division ==
  ASSUME NEW size \in Nat \ {0}, NEW a \in Nat
  PROVE  /\ a \div size \in Nat /\ a % size \in 0 .. size - 1
         /\ a = size * (a \div size) + (a % size)
  OBVIOUS

\* The remainder is unique.
LEMMA Remainder ==
  ASSUME NEW size \in Nat \ {0}, NEW q \in Nat, NEW r \in 0 .. size - 1
  PROVE  (size * q + r) % size = r
  OBVIOUS

\* Two multiples that differ are a block apart.
LEMMA BlocksApart ==
  ASSUME NEW size \in Nat \ {0}, NEW a \in Nat, NEW b \in Nat,
         a % size = 0, b % size = 0, a < b
  PROVE  a + size <= b
<1> DEFINE q == a \div size
           p == b \div size
<1>1. q \in Nat /\ p \in Nat /\ a = size * q /\ b = size * p
  BY Division
<1> HIDE DEF q, p
<1>2. q < p
  BY <1>1
<1>3. size * (q + 1) <= size * p
  BY <1>1, <1>2
<1> QED BY <1>1, <1>3

\* A multiple of the size does not change the place inside a block.
LEMMA PlaceInBlock ==
  ASSUME NEW size \in Nat \ {0}, NEW a \in Nat, NEW b \in Nat, a % size = 0
  PROVE  (a + b) % size = b % size
<1> DEFINE q == a \div size
           p == b \div size
           r == b % size
<1>1. q \in Nat /\ p \in Nat /\ r \in 0 .. size - 1 /\ a = size * q /\ b = size * p + r
  BY Division
<1> HIDE DEF q, p, r
<1>2. (a + b) % size = (size * (q + p) + r) % size
  BY <1>1
<1>3. (size * (q + p) + r) % size = r
  BY <1>1, Remainder
<1> QED BY <1>2, <1>3 DEF r
-----------------------------------------------------------------------------
(***************************************************************************)
(* The transaction: its bytes, and the cells it can reach.                 *)
(***************************************************************************)
\* The cells of the current transaction, were it to stay inside its page.
Reach == Physical(Address) .. Physical(Address) + Count - 1

\* The call being served, with the types of its parts.
LEMMA Served ==
  ASSUME IInv, call # None
  PROVE  /\ call.kind \in Kinds /\ call.start \in Nat /\ call.len \in Nat
         /\ cursor \in Nat /\ index \in Nat /\ cursor <= call.len /\ index <= call.len
         /\ call.start + call.len <= Capacity
         /\ Physical(call.start) \in Nat /\ Physical(Address) \in Nat
         /\ Physical(Address) = Physical(call.start) + cursor
  BY GeometryAssumption DEF IInv, TypeOK, Calls, Physical, Address

\* A transaction moves at least one byte and none past the end of the call:
\* the chunk loop of write stays inside a page and inside the scratch buffer.
LEMMA CountFacts ==
  ASSUME IInv, pc # "Idle"
  PROVE  Count \in Nat /\ Count > 0 /\ cursor + Count <= call.len
<1>1. call # None /\ cursor < call.len
  BY DEF IInv, LoopInv
<1>2. call.kind \in Kinds /\ call.start \in Nat /\ call.len \in Nat /\ cursor \in Nat
  BY <1>1, Served
<1>3. CASE call.kind = "Read"
  BY <1>1, <1>2, <1>3 DEF IInv, LoopInv, Count
<1>4. CASE call.kind = "Erase"
  <2>1. cursor % EraseSize = 0 /\ call.len % EraseSize = 0
    BY <1>4 DEF IInv, LoopInv
  <2>2. Count = EraseSize
    BY <1>4 DEF Count
  <2> QED BY <1>1, <1>2, <2>1, <2>2, BlocksApart, GeometryAssumption
<1>5. CASE call.kind = "Write"
  <2>1. Address % PageSize \in 0 .. PageSize - 1
    BY <1>2, GeometryAssumption, Division DEF Address
  <2>2. Count = Minimum(PageSize - (Address % PageSize), Minimum(call.len - cursor, Scratch))
    BY <1>5 DEF Count
  <2> HIDE DEF Address
  <2> QED BY <1>1, <1>2, <2>1, <2>2, GeometryAssumption DEF Minimum
<1> QED BY <1>2, <1>3, <1>4, <1>5 DEF Kinds

\* The page latch does not wrap: byte i goes to the i-th cell.
LEMMA TargetFacts ==
  ASSUME IInv, pc # "Idle", call.kind = "Write", NEW i \in 0 .. Count - 1
  PROVE  Target(i) = Physical(Address) + i
<1>1. call # None /\ cursor < call.len
  BY DEF IInv, LoopInv
<1>2. call.start \in Nat /\ call.len \in Nat /\ cursor \in Nat /\ Address \in Nat
  BY <1>1, Served DEF Address
<1> DEFINE place == Address % PageSize
<1>3. place \in 0 .. PageSize - 1
  BY <1>2, GeometryAssumption, Division
<1>4. Physical(Address) % PageSize = place
  BY <1>2, GeometryAssumption, PlaceInBlock DEF Physical
<1>5. Count <= PageSize - place
  <2>1. Count = Minimum(PageSize - place, Minimum(call.len - cursor, Scratch))
    BY DEF Count
  <2> HIDE DEF place
  <2> QED BY <1>1, <1>2, <1>3, <2>1, GeometryAssumption DEF Minimum
<1>6. Target(i) = (Physical(Address) - place) + ((place + i) % PageSize)
  BY <1>4 DEF Target
<1> HIDE DEF place
<1>7. Count \in Nat
  BY CountFacts
<1>8. place + i \in 0 .. PageSize - 1
  BY <1>3, <1>5, <1>7, GeometryAssumption
<1>9. (place + i) % PageSize = place + i
  BY <1>8, GeometryAssumption
<1>10. Physical(Address) \in Nat
  BY <1>2, GeometryAssumption DEF Physical
<1> QED BY <1>3, <1>6, <1>9, <1>10

\* A program or an erase stays inside the request and the window.
LEMMA ReachFacts ==
  ASSUME IInv, pc # "Idle", call.kind # "Read"
  PROVE  /\ Reach \subseteq Requested \cap Window
         /\ \A a \in Reach : a \in 0 .. Cells - 1
<1>1. call # None /\ Count \in Nat /\ cursor + Count <= call.len
  BY CountFacts DEF IInv, LoopInv
<1> QED BY <1>1, Served, GeometryAssumption DEF Reach, Requested, Window, Physical

\* What the chip can touch before and at the end of a transaction.
LEMMA TouchedFacts ==
  ASSUME IInv, pc # "Idle", call.kind # "Read", NEW n \in 0 .. Count
  PROVE  Touched(n) \subseteq Reach /\ Touched(Count) = Reach
<1>0. call # None /\ Count \in Nat /\ call.kind \in {"Erase", "Write"}
  BY CountFacts, Served DEF IInv, LoopInv, Kinds
<1>1. CASE call.kind = "Erase"
  <2>1. Physical(Address) % EraseSize = 0
    <3>1. call.start % EraseSize = 0 /\ cursor % EraseSize = 0
      BY <1>1 DEF IInv, LoopInv
    <3>2. call.start \in Nat /\ cursor \in Nat
      BY <1>0, Served
    <3>3. (call.start + cursor) % EraseSize = cursor % EraseSize
      BY <3>1, <3>2, PlaceInBlock, GeometryAssumption
    <3>4. Address \in Nat /\ Address % EraseSize = 0
      BY <3>1, <3>2, <3>3 DEF Address
    <3>5. (Exposed + Address) % EraseSize = Address % EraseSize
      BY <3>4, PlaceInBlock, GeometryAssumption
    <3> QED BY <3>4, <3>5 DEF Physical
  <2>2. Physical(Address) \in Nat
    BY <1>0, Served
  <2>3. Count = EraseSize
    BY <1>1 DEF Count
  <2>4. \A m : Touched(m) = Physical(Address) .. Physical(Address) + EraseSize - 1
    BY <1>1, <2>1, <2>2 DEF Touched
  <2> QED BY <2>3, <2>4 DEF Reach
<1>2. CASE call.kind = "Write"
  <2>1. \A m \in 0 .. Count : Touched(m) = {Target(i) : i \in 0 .. m - 1}
    BY <1>2 DEF Touched
  <2>2. \A i \in 0 .. Count - 1 : Target(i) = Physical(Address) + i
    BY <1>2, TargetFacts
  <2>3. Physical(Address) \in Nat
    BY <1>0, Served
  <2>4. Touched(n) \subseteq Reach
    BY <1>0, <2>1, <2>2, <2>3 DEF Reach
  <2>5. Touched(Count) \subseteq Reach
    BY <1>0, <2>1, <2>2, <2>3 DEF Reach
  <2>6. ASSUME NEW a \in Reach PROVE a \in Touched(Count)
    <3>1. a - Physical(Address) \in 0 .. Count - 1
      BY <1>0, <2>3 DEF Reach
    <3>2. Target(a - Physical(Address)) = a
      BY <1>0, <2>2, <2>3, <3>1 DEF Reach
    <3> QED BY <1>0, <2>1, <3>1, <3>2
  <2> QED BY <2>4, <2>5, <2>6
<1> QED BY <1>0, <1>1, <1>2

\* A step that changes only cells of the transaction it is in.
ChangesReach ==
  /\ flash' \in [0 .. Cells - 1 -> {0, 1}]
  /\ call.kind = "Read" => flash' = flash
  /\ \A a \in 0 .. Cells - 1 : a \notin Reach => flash'[a] = flash[a]

\* A chip that was not seen to finish has changed cells of its transaction.
LEMMA ChipFacts ==
  ASSUME IInv, pc # "Idle", NEW n \in 0 .. Count, ChipMayFinish(n)
  PROVE  ChangesReach
<1>0. flash \in [0 .. Cells - 1 -> {0, 1}]
  BY DEF IInv, TypeOK
<1>1. CASE call.kind = "Read"
  BY <1>0, <1>1 DEF ChipMayFinish, ChangesReach
<1>2. CASE call.kind # "Read"
  <2>1. PICK done \in SUBSET Touched(n) : ChipFinishes(done, n)
    BY <1>2 DEF ChipMayFinish
  <2>2. done \subseteq Reach
    BY <1>2, <2>1, TouchedFacts
  <2>3. \A a \in 0 .. Cells - 1 : NewByte(a, n) \in {0, 1}
    BY <1>0 DEF NewByte
  <2>4. flash' = [a \in 0 .. Cells - 1 |-> IF a \in done THEN NewByte(a, n) ELSE flash[a]]
    BY <1>0, <2>1 DEF ChipFinishes
  <2> QED BY <1>0, <1>2, <2>2, <2>3, <2>4 DEF ChangesReach
<1> QED BY <1>1, <1>2

\* A chip that was seen to finish has written every cell of its transaction.
LEMMA FinishFacts ==
  ASSUME IInv, pc # "Idle", call.kind # "Read", ChipFinishes(Touched(Count), Count)
  PROVE  ChangesReach /\ \A a \in Reach : flash'[a] = Written(a)
<1>0. /\ flash \in [0 .. Cells - 1 -> {0, 1}] /\ call # None
      /\ call.kind \in {"Erase", "Write"} /\ Count \in Nat /\ cursor + Count <= call.len
  BY Served, CountFacts DEF IInv, TypeOK, LoopInv, Kinds
<1>1. ChipMayFinish(Count)
  BY <1>0 DEF ChipMayFinish
<1>2. ChangesReach
  BY <1>0, <1>1, ChipFacts
<1>3. ASSUME NEW a \in Reach PROVE flash'[a] = Written(a)
  <2>1. a \in 0 .. Cells - 1 /\ a \in Requested
    BY ReachFacts
  <2>2. a \in Touched(Count)
    BY <1>0, TouchedFacts
  <2>3. flash'[a] = NewByte(a, Count)
    BY <1>0, <2>1, <2>2 DEF ChipFinishes
  <2>4. CASE call.kind = "Erase"
    BY <2>3, <2>4 DEF NewByte, Written
  <2>5. CASE call.kind = "Write"
    <3> DEFINE i == a - Physical(Address)
    <3>0. /\ Physical(Address) \in Nat /\ Physical(call.start) \in Nat /\ cursor \in Nat
          /\ Physical(Address) = Physical(call.start) + cursor
          /\ call.start \in Nat /\ call.len \in Nat /\ call.start + call.len <= Capacity
      BY <1>0, Served
    <3>1. /\ i \in 0 .. Count - 1 /\ a = Physical(Address) + i
          /\ a - Physical(call.start) = cursor + i /\ a >= Physical(Address)
      <4>1. a \in Physical(Address) .. Physical(Address) + Count - 1
        BY DEF Reach
      <4> QED BY <1>0, <3>0, <4>1
    <3> HIDE DEF i
    <3>2. \A k \in 0 .. Count - 1 : Target(k) = a <=> k = i
      <4>1. \A k \in 0 .. Count - 1 : Target(k) = Physical(Address) + k
        BY <2>5, TargetFacts
      <4> QED BY <1>0, <3>0, <3>1, <4>1
    <3>3. cursor + i \in 0 .. Word - 1
      BY <1>0, <3>0, <3>1, CallerAssumption, GeometryAssumption
    <3>4. call.data[cursor + i] \in {0, 1}
      BY <2>5, <3>3, CallerAssumption DEF IInv, LoopInv
    <3>5. flash[a] = before[a]
      BY <1>0, <2>1, <3>1 DEF IInv, CellInv
    <3>6. NewByte(a, Count) = IF call.data[cursor + i] = 1 THEN flash[a] ELSE 0
      BY <2>5, <3>1, <3>2 DEF NewByte
    <3>7. Written(a) = IF call.data[cursor + i] = 0 THEN 0 ELSE before[a]
      BY <2>5, <3>1 DEF Written
    <3> QED BY <2>3, <3>4, <3>5, <3>6, <3>7
  <2> QED BY <1>0, <2>4, <2>5
<1> QED BY <1>2, <1>3
-----------------------------------------------------------------------------
(***************************************************************************)
(* The steps of a call, by what they have in common.                       *)
(***************************************************************************)
\* What depends on the call and its cursor alone.
LEMMA SameCall ==
  ASSUME UNCHANGED <<call, before>>
  PROVE  /\ Requested' = Requested
         /\ \A a : Written(a)' = Written(a)
         /\ cursor' = cursor => Physical(Address)' = Physical(Address) /\ Count' = Count
  BY DEF Requested, Written, Physical, Address, Count

\* ram_fail: a transaction that fails ends the call in a state of the
\* invariant, with the interface released.
LEMMA RamFailKeeps ==
  ASSUME IInv, pc \notin {"Idle", "Configure"}, RamFail, ChangesReach
  PROVE  IInv'
<1> USE DEF RamFail, Returns
<1>0. call # None /\ Count \in Nat /\ Physical(Address) \in Nat
  BY CountFacts, Served DEF IInv, LoopInv
<1>1. TypeOK'
  BY DEF IInv, TypeOK, ChangesReach, Errors
<1>2. ReleaseInv' /\ LoopInv' /\ DoneInv'
  BY DEF IInv, ReleaseInv, LoopInv, DoneInv
<1>3. CellInv'
  <2> SUFFICES ASSUME NEW a \in Requested
               PROVE  /\ a < Physical(Address) => flash'[a] = Written(a)
                      /\ a >= Physical(Address) + Count => flash'[a] = before[a]
    BY SameCall DEF CellInv
  <2>1. a \in 0 .. Cells - 1
    BY <1>0, Served, GeometryAssumption DEF Requested, Physical
  <2>2. a \notin Reach => flash'[a] = flash[a]
    BY <2>1 DEF ChangesReach
  <2>3. a < Physical(Address) \/ a >= Physical(Address) + Count => a \notin Reach
    BY <1>0, <2>1 DEF Reach
  <2>4. a >= Physical(Address) + Count => a >= Physical(Address)
    BY <1>0, <2>1
  <2> QED BY <1>0, <2>2, <2>3, <2>4 DEF IInv, CellInv
<1>4. OutputInv'
  BY DEF IInv, OutputInv, ChangesReach, Physical
<1> QED BY <1>1, <1>2, <1>3, <1>4 DEF IInv

\* ram_restore: a transaction that succeeds moves the cursor over its bytes.
LEMMA NextChunkKeeps ==
  ASSUME IInv, pc \in {"Transfer", "WaitReady"}, NextChunk(Count), ctrl' = 0, ChangesReach,
         call.kind = "Read" => index = Count,
         call.kind # "Read" => \A a \in Reach : flash'[a] = Written(a)
  PROVE  IInv'
<1> USE DEF NextChunk, Returns
<1>0. /\ call # None /\ Count \in Nat /\ Physical(Address) \in Nat /\ Count > 0
      /\ cursor + Count <= call.len /\ cursor \in Nat /\ call.len \in Nat
      /\ Physical(call.start) \in Nat /\ Physical(Address) = Physical(call.start) + cursor
  BY CountFacts, Served DEF IInv, LoopInv
<1>r. call.kind = "Read" => Count = call.len /\ cursor = 0
  BY DEF IInv, LoopInv, Count
<1>1. TypeOK'
  BY <1>0 DEF IInv, TypeOK, ChangesReach, Errors
<1>2. ReleaseInv'
  BY DEF IInv, ReleaseInv
<1>3. LoopInv'
  <2>1. call.kind = "Erase" => (cursor + Count) % EraseSize = 0
    <3> SUFFICES ASSUME call.kind = "Erase" PROVE (cursor + EraseSize) % EraseSize = 0
      BY DEF Count
    <3>1. cursor % EraseSize = 0
      BY DEF IInv, LoopInv
    <3>2. EraseSize % EraseSize = 0
      BY GeometryAssumption, Remainder
    <3> QED BY <1>0, <3>1, <3>2, PlaceInBlock, GeometryAssumption
  <2> QED BY <1>0, <1>r, <2>1 DEF IInv, LoopInv
<1>4. CellInv'
  <2>1. Physical(Address)' = Physical(Address) + Count
    BY <1>0, Served, GeometryAssumption DEF Physical, Address
  <2> SUFFICES ASSUME NEW a \in Requested
               PROVE  /\ a < Physical(Address) + Count => flash'[a] = Written(a)
                      /\ a >= Physical(Address) + Count => flash'[a] = before[a]
    BY <2>1, SameCall DEF CellInv
  <2>2. a \in 0 .. Cells - 1 /\ call.kind # "Read"
    BY <1>0, Served, GeometryAssumption DEF Requested, Physical
  <2>3. a \notin Reach => flash'[a] = flash[a]
    BY <2>2 DEF ChangesReach
  <2>4. CASE a \in Reach
    BY <1>0, <2>2, <2>4 DEF Reach
  <2>5. CASE a \notin Reach
    <3>1. a < Physical(Address) \/ a >= Physical(Address) + Count
      BY <1>0, <2>2, <2>5 DEF Reach
    <3>2. a < Physical(Address) => flash[a] = Written(a)
      BY <1>0 DEF IInv, CellInv
    <3>3. a >= Physical(Address) => flash[a] = before[a]
      BY <1>0 DEF IInv, CellInv
    <3> QED BY <1>0, <2>2, <2>3, <2>5, <3>1, <3>2, <3>3
  <2> QED BY <2>4, <2>5
<1>5. OutputInv'
  BY DEF IInv, OutputInv, ChangesReach, Physical
<1>6. DoneInv'
  BY <1>0, <1>r DEF IInv, DoneInv
<1> QED BY <1>1, <1>2, <1>3, <1>4, <1>5, <1>6 DEF IInv

\* A transaction that goes on keeps the call, the cells and the configuration.
LEMMA GoesKeeps ==
  ASSUME IInv, pc \notin {"Idle", "Configure"},
         NEW next \in {"WriteEnable", "Address", "Transfer", "WaitReady"}, Goes(next),
         UNCHANGED <<flash, config>>, ctrl' \in {0, 5}, next # "Transfer" => ctrl' = 0,
         index' = index \/ (index < Count /\ index' = index + 1),
         next \in {"WriteEnable", "Address"} => index' = 0,
         next = "WaitReady" => call.kind # "Read",
         OutputInv'
  PROVE  IInv'
<1> USE DEF Goes
<1>0. /\ call # None /\ Count \in Nat /\ cursor \in Nat /\ index \in Nat /\ call.len \in Nat
      /\ index <= call.len /\ cursor + Count <= call.len
  BY CountFacts, Served DEF IInv, LoopInv
<1>1. TypeOK'
  <2>1. index' \in Nat /\ index' <= call.len
    BY <1>0
  <2> QED BY <2>1 DEF IInv, TypeOK
<1>2. ReleaseInv' /\ LoopInv' /\ DoneInv'
  BY DEF IInv, ReleaseInv, LoopInv, DoneInv
<1>3. CellInv'
  BY SameCall DEF IInv, CellInv
<1> QED BY <1>1, <1>2, <1>3 DEF IInv

\* The checks passed: the call enters its loop.
LEMMA EntersKeeps ==
  ASSUME IInv, Called, NEW kind \in Kinds, NEW start \in Nat, NEW len \in Nat,
         NEW data \in Patterns \cup {None}, start + len <= Capacity,
         kind = "Write" => data \in Patterns,
         kind = "Erase" => start % EraseSize = 0 /\ len % EraseSize = 0,
         Enters(kind, start, len, data)
  PROVE  IInv'
<1> DEFINE c == [kind |-> kind, start |-> start, len |-> len, data |-> data]
<1>1. c \in Calls /\ c # None
  BY GeometryAssumption, NoneAssumption DEF Calls
<1>2. call' = c /\ cursor' = 0 /\ index' = 0
  BY DEF Enters
<1>3. /\ UNCHANGED <<flash, config, ctrl, original, boot>> /\ before' = flash
      /\ pc = "Idle" /\ pc' \in {"Idle", "Configure"} /\ result' \in {"Ok", None}
      /\ len # 0 => pc' = "Configure"
      /\ len = 0 => pc' = "Idle" /\ result' = "Ok"
  BY DEF Called, Enters, Returns
<1>4. /\ call'.kind = kind /\ call'.start = start /\ call'.len = len /\ call'.data = data
      /\ call' # None
  BY <1>1, <1>2
<1> HIDE DEF c
<1>5. TypeOK'
  BY <1>1, <1>2, <1>3, <1>4 DEF IInv, TypeOK
<1>6. ReleaseInv'
  BY <1>3 DEF IInv, ReleaseInv
<1>7. LoopInv'
  <2>1. 0 % EraseSize = 0
    BY GeometryAssumption
  <2> QED BY <1>2, <1>3, <1>4, <2>1 DEF LoopInv
<1>8. CellInv'
  <2>1. Physical(Address)' = Physical(call'.start)
    BY <1>2, <1>4, GeometryAssumption DEF Physical, Address
  <2>2. \A a \in Requested' : a >= Physical(call'.start) /\ len # 0
    BY <1>4, GeometryAssumption DEF Requested, Physical
  <2>3. \A a \in Requested' : flash'[a] = before'[a] /\ ~(a < Physical(call'.start))
    BY <1>3, <1>4, <2>2, GeometryAssumption DEF Requested, Physical
  <2> QED BY <1>3, <2>1, <2>2, <2>3 DEF CellInv
<1>9. OutputInv' /\ DoneInv'
  BY <1>2, <1>3, <1>4 DEF OutputInv, DoneInv
<1> QED BY <1>5, <1>6, <1>7, <1>8, <1>9 DEF IInv

\* A refused call leaves the chip and the interface alone.
LEMMA RefusesKeeps ==
  ASSUME IInv, Called, NEW error \in Errors, Refuses(error)
  PROVE  IInv'
<1> USE DEF Called, Refuses, Returns
<1>1. TypeOK'
  BY DEF IInv, TypeOK
<1>2. ReleaseInv' /\ LoopInv' /\ CellInv' /\ OutputInv' /\ DoneInv'
  BY DEF IInv, ReleaseInv, LoopInv, CellInv, OutputInv, DoneInv
<1> QED BY <1>1, <1>2 DEF IInv

\* The three calls, from their checks to their first iteration.
LEMMA CallKeeps ==
  ASSUME IInv,
         \/ \E start \in Offsets, len \in Lengths : Read(start, len)
         \/ \E from, to \in Offsets : Erase(from, to)
         \/ \E start \in Offsets, len \in Lengths, data \in Patterns : Write(start, len, data)
  PROVE  IInv'
<1>1. ASSUME NEW start \in Offsets, NEW len \in Lengths, Read(start, len) PROVE IInv'
  BY <1>1, EntersKeeps, RefusesKeeps, CallerAssumption DEF Read, InBounds, Kinds, Errors
<1>2. ASSUME NEW from \in Offsets, NEW to \in Offsets, Erase(from, to) PROVE IInv'
  <2>1. from \in Nat /\ to \in Nat /\ Called
    BY <1>2, CallerAssumption DEF Erase
  <2>2. CASE from % EraseSize # 0 \/ to % EraseSize # 0
    BY <1>2, <2>1, <2>2, RefusesKeeps DEF Erase, Errors
  <2>3. CASE /\ ~(from % EraseSize # 0 \/ to % EraseSize # 0)
             /\ from >= to \/ to > Capacity
    BY <1>2, <2>1, <2>3, RefusesKeeps DEF Erase, Errors
  <2>4. CASE /\ ~(from % EraseSize # 0 \/ to % EraseSize # 0)
             /\ ~(from >= to \/ to > Capacity)
    <3>1. Enters("Erase", from, to - from, None)
      BY <1>2, <2>4 DEF Erase
    <3>2. to - from \in Nat /\ from + (to - from) <= Capacity /\ from % EraseSize = 0
      BY <2>1, <2>4, GeometryAssumption
    <3>3. (to - from) % EraseSize = 0
      <4>1. (from + (to - from)) % EraseSize = (to - from) % EraseSize
        BY <2>1, <3>2, PlaceInBlock, GeometryAssumption
      <4>2. from + (to - from) = to /\ to % EraseSize = 0
        BY <2>1, <2>4
      <4> QED BY <4>1, <4>2
    <3> QED BY <2>1, <3>1, <3>2, <3>3, EntersKeeps DEF Kinds
  <2> QED BY <2>2, <2>3, <2>4
<1>3. ASSUME NEW start \in Offsets, NEW len \in Lengths, NEW data \in Patterns,
             Write(start, len, data)
      PROVE  IInv'
  <2>1. start \in Nat /\ len \in Nat /\ Called
    BY <1>3, CallerAssumption DEF Write
  <2>2. CASE InBounds(start, len)
    <3>1. Enters("Write", start, len, data) /\ start + len <= Capacity
      BY <1>3, <2>2 DEF Write, InBounds
    <3> QED BY <2>1, <3>1, EntersKeeps DEF Kinds
  <2>3. CASE ~InBounds(start, len)
    BY <1>3, <2>1, <2>3, RefusesKeeps DEF Write, Errors
  <2> QED BY <2>2, <2>3
<1> QED BY <1>1, <1>2, <1>3

\* ram_configure keeps the value it will restore.
LEMMA ConfigureKeeps == ASSUME IInv, Configure PROVE IInv'
<1> USE DEF Configure, callerVars
<1>1. TypeOK'
  <2>1. config' \subseteq WriteBits /\ original' \subseteq WriteBits
    BY DEF IInv, TypeOK, ReadBits, WriteBits
  <2>2. index' \in Nat /\ (call # None => index' <= call.len)
    BY Served
  <2> QED BY <2>1, <2>2 DEF IInv, TypeOK
<1>2. ReleaseInv' /\ LoopInv' /\ DoneInv'
  BY DEF IInv, ReleaseInv, LoopInv, DoneInv
<1>3. CellInv'
  BY SameCall DEF IInv, CellInv
<1>4. OutputInv'
  BY DEF OutputInv
<1> QED BY <1>1, <1>2, <1>3, <1>4 DEF IInv

\* The controller is reset, writes are enabled and the address is sent, or
\* the controller does not answer.
LEMMA CommandKeeps ==
  ASSUME IInv, Prepare \/ WriteEnable \/ SendAddress PROVE IInv'
<1>1. /\ pc \in {"Prepare", "WriteEnable", "Address"} /\ index = 0 /\ OutputInv
      /\ flash \in [0 .. Cells - 1 -> {0, 1}] /\ flash' = flash
  BY DEF Prepare, WriteEnable, SendAddress, IInv, LoopInv, TypeOK
<1>2. CASE RamFail
  BY <1>1, <1>2, RamFailKeeps DEF ChangesReach
<1>3. CASE ~RamFail
  <2>1. PICK next \in {"WriteEnable", "Address", "Transfer"} :
          /\ Goes(next) /\ UNCHANGED <<config, index, output>>
          /\ ctrl' \in {0, 5} /\ (next # "Transfer" => ctrl' = 0)
    BY <1>3 DEF Prepare, WriteEnable, SendAddress
  <2>2. OutputInv'
    BY <1>1, <2>1 DEF OutputInv, Goes, Physical
  <2> QED BY <1>1, <2>1, <2>2, GoesKeeps
<1> QED BY <1>2, <1>3

\* ram_read_bytes: the next byte is the next cell.
LEMMA ReadByteKeeps == ASSUME IInv, ReadByte PROVE IInv'
<1>1. /\ pc = "Transfer" /\ flash \in [0 .. Cells - 1 -> {0, 1}] /\ flash' = flash
      /\ index \in Nat /\ call # None /\ call.kind = "Read" /\ index < Count
  BY DEF ReadByte, IInv, LoopInv, TypeOK
<1>2. CASE RamFail
  BY <1>1, <1>2, RamFailKeeps DEF ChangesReach
<1>3. CASE ~RamFail
  <2>1. /\ index' = index + 1 /\ Goes("Transfer") /\ UNCHANGED <<config, ctrl>>
        /\ output' = [i \in 0 .. index |->
             IF i = index THEN flash[Physical(call.start + i)] ELSE output[i]]
    BY <1>3 DEF ReadByte
  <2>2. \A i \in 0 .. index - 1 : output[i] = flash[Physical(call.start + i)]
    BY <1>1 DEF IInv, OutputInv
  <2>3. \A i \in 0 .. index : output'[i] = flash[Physical(call.start + i)]
    BY <1>1, <2>1, <2>2
  <2>4. OutputInv'
    BY <1>1, <2>1, <2>3 DEF OutputInv, Goes, Physical
  <2>5. ctrl' \in {0, 5}
    BY <2>1 DEF IInv, TypeOK
  <2> QED BY <1>1, <2>1, <2>4, <2>5, GoesKeeps
<1> QED BY <1>2, <1>3

\* ram_page_program: one byte is latched, or the chip programs those it has.
LEMMA ProgramByteKeeps == ASSUME IInv, ProgramByte PROVE IInv'
<1>1. /\ pc = "Transfer" /\ call.kind = "Write" /\ index < Count /\ index \in Nat
      /\ Count \in Nat
  BY CountFacts DEF ProgramByte, IInv, TypeOK
<1>2. CASE RamFail /\ ChipMayFinish(index)
  BY <1>1, <1>2, RamFailKeeps, ChipFacts
<1>3. CASE ~(RamFail /\ ChipMayFinish(index))
  <2>1. index' = index + 1 /\ Goes("Transfer") /\ UNCHANGED <<config, ctrl, flash, output>>
    BY <1>3 DEF ProgramByte
  <2>2. OutputInv' /\ ctrl' \in {0, 5}
    BY <1>1, <2>1 DEF OutputInv, Goes, IInv, TypeOK
  <2> QED BY <1>1, <2>1, <2>2, GoesKeeps
<1> QED BY <1>2, <1>3

\* ram_end: a read is complete, the chip starts to work, or it fails.
LEMMA EndKeeps == ASSUME IInv, End PROVE IInv'
<1>1. /\ pc = "Transfer" /\ Count \in Nat /\ ctrl' = 0 /\ (call.kind = "Read" => index = Count)
      /\ flash \in [0 .. Cells - 1 -> {0, 1}]
  BY CountFacts DEF End, IInv, TypeOK
<1>2. CASE call.kind = "Read" /\ NextChunk(Count) /\ UNCHANGED flash
  BY <1>1, <1>2, NextChunkKeeps DEF ChangesReach
<1>3. CASE call.kind # "Read" /\ Goes("WaitReady") /\ UNCHANGED <<config, index, output, flash>>
  <2>1. OutputInv'
    BY <1>3 DEF OutputInv, Goes
  <2> QED BY <1>1, <1>3, <2>1, GoesKeeps
<1>4. CASE RamFail /\ ChipMayFinish(Count)
  BY <1>1, <1>4, RamFailKeeps, ChipFacts
<1> QED BY <1>2, <1>3, <1>4 DEF End

\* ram_wait_ready_active: the chip is seen to finish, or it is given up.
LEMMA WaitReadyKeeps == ASSUME IInv, WaitReady PROVE IInv'
<1>1. pc = "WaitReady" /\ Count \in Nat /\ call.kind # "Read" /\ ctrl = 0
  BY CountFacts DEF WaitReady, IInv, LoopInv, ReleaseInv
<1>2. CASE ChipFinishes(Touched(Count), Count) /\ NextChunk(Count) /\ UNCHANGED ctrl
  BY <1>1, <1>2, NextChunkKeeps, FinishFacts
<1>3. CASE RamFail /\ ChipMayFinish(Count)
  BY <1>1, <1>3, RamFailKeeps, ChipFacts
<1> QED BY <1>2, <1>3 DEF WaitReady
-----------------------------------------------------------------------------
(***************************************************************************)
(* The theorems.                                                           *)
(***************************************************************************)
\* The invariant holds for every geometry, whichever wait of the driver
\* times out and whatever the chip has done by then.
THEOREM FlashInvariant == Spec => []IInv
<1>1. Init => IInv
  <2> SUFFICES ASSUME Init PROVE IInv
    OBVIOUS
  <2> USE DEF Init
  <2>1. flash \in [0 .. Cells - 1 -> {0, 1}]
    BY GeometryAssumption
  <2>2. TypeOK
    BY <2>1, ConfigAssumption DEF TypeOK
  <2>3. ReleaseInv /\ LoopInv /\ CellInv /\ OutputInv /\ DoneInv
    BY DEF ReleaseInv, LoopInv, CellInv, OutputInv, DoneInv
  <2> QED BY <2>2, <2>3 DEF IInv
<1>2. IInv /\ [Next]_vars => IInv'
  <2> SUFFICES ASSUME IInv, [Next]_vars PROVE IInv'
    OBVIOUS
  <2>1. CASE Driver
    BY <2>1, ConfigureKeeps, CommandKeeps, ReadByteKeeps, ProgramByteKeeps, EndKeeps,
      WaitReadyKeeps DEF Driver
  <2>2. CASE Next /\ ~Driver
    BY <2>2, CallKeeps DEF Next
  <2>3. CASE UNCHANGED vars
    <3> USE <2>3 DEF vars, driverVars, callerVars
    <3>1. TypeOK'
      BY DEF IInv, TypeOK
    <3>2. ReleaseInv' /\ LoopInv' /\ OutputInv' /\ DoneInv'
      BY DEF IInv, ReleaseInv, LoopInv, OutputInv, DoneInv, Physical
    <3>3. CellInv'
      BY SameCall DEF IInv, CellInv
    <3> QED BY <3>1, <3>2, <3>3 DEF IInv
  <2> QED BY <2>1, <2>2, <2>3
<1> QED BY <1>1, <1>2, PTL DEF Spec

\* The cursor, the cells and the registers have their types.
THEOREM FlashTypes == Spec => []TypeOK
<1>1. IInv => TypeOK
  BY DEF IInv
<1> QED BY <1>1, FlashInvariant, PTL

\* Whatever a call returns, the chip is deselected and GLOBAL_CONFIG is what
\* it was before the first call.
THEOREM FlashReleased == Spec => []InterfaceReleased
<1>1. IInv => InterfaceReleased
  BY DEF IInv, ReleaseInv, InterfaceReleased
<1> QED BY <1>1, FlashInvariant, PTL

\* A call that times out has done everything before its cursor and nothing
\* behind the transaction that failed.
THEOREM FlashPrefix == Spec => []FailureLeavesPrefix
<1>1. IInv => FailureLeavesPrefix
  BY DEF IInv, CellInv, FailureLeavesPrefix
<1> QED BY <1>1, FlashInvariant, PTL

\* Ok means that all of the request was read, erased or written.
THEOREM FlashOk == Spec => []OkMeansDone
<1>1. IInv => OkMeansDone
  <2> SUFFICES ASSUME IInv, pc = "Idle", result = "Ok", call # None
               PROVE  /\ \A a \in Requested : flash[a] = Written(a)
                      /\ call.kind = "Read" =>
                           \A i \in 0 .. call.len - 1 : output[i] = flash[Physical(call.start + i)]
    BY DEF OkMeansDone
  <2>1. cursor = call.len /\ (call.kind = "Read" => index = call.len)
    BY DEF IInv, DoneInv
  <2>2. \A a \in Requested : a < Physical(Address)
    BY <2>1, Served DEF Requested
  <2> QED BY <2>1, <2>2 DEF IInv, CellInv, OutputInv
<1> QED BY <1>1, FlashInvariant, PTL

\* No step changes a cell outside the request or the exposed window.
THEOREM FlashNeighbours == Spec => NeighboursUntouched
<1> DEFINE Untouched == \A a \in DOMAIN flash : flash'[a] # flash[a] => a \in Requested \cap Window
<1>1. IInv /\ [Next]_vars => [Untouched]_vars
  <2> SUFFICES ASSUME IInv, Next PROVE Untouched
    OBVIOUS
  <2>1. CASE UNCHANGED flash
    BY <2>1
  <2>2. CASE \E n \in 0 .. Count : pc # "Idle" /\ ChipMayFinish(n)
    <3>1. ChangesReach /\ flash \in [0 .. Cells - 1 -> {0, 1}] /\ pc # "Idle"
      BY <2>2, ChipFacts DEF IInv, TypeOK
    <3>2. CASE call.kind = "Read"
      BY <3>1, <3>2 DEF ChangesReach
    <3>3. CASE call.kind # "Read"
      BY <3>1, <3>3, ReachFacts DEF ChangesReach
    <3> QED BY <3>2, <3>3
  <2>3. CASE WaitReady /\ ChipFinishes(Touched(Count), Count)
    <3>1. ChangesReach /\ flash \in [0 .. Cells - 1 -> {0, 1}] /\ pc # "Idle" /\ call.kind # "Read"
      BY <2>3, FinishFacts DEF WaitReady, IInv, TypeOK, LoopInv
    <3> QED BY <3>1, ReachFacts DEF ChangesReach
  <2>4. CASE Driver /\ flash' # flash
    <3>1. pc # "Idle"
      BY <2>4 DEF Driver, Configure, Prepare, WriteEnable, SendAddress, ReadByte, ProgramByte,
        End, WaitReady
    <3>2. Count \in Nat /\ index \in Nat
      BY <3>1, CountFacts DEF IInv, TypeOK
    <3>3. CASE ProgramByte
      BY <2>2, <2>4, <3>1, <3>2, <3>3 DEF ProgramByte
    <3>4. CASE End
      BY <2>2, <2>4, <3>1, <3>2, <3>4 DEF End
    <3>5. CASE WaitReady
      <4>1. Count \in 0 .. Count
        BY <3>2
      <4> QED BY <2>2, <2>3, <3>1, <3>5, <4>1 DEF WaitReady
    <3> QED BY <2>4, <3>3, <3>4, <3>5
          DEF Driver, Configure, Prepare, WriteEnable, SendAddress, ReadByte, callerVars
  <2> QED BY <2>1, <2>4 DEF Next, Read, Erase, Write, Called
<1> QED BY <1>1, FlashInvariant, PTL DEF Spec, NeighboursUntouched
=============================================================================
