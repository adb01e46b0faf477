--------------------------- MODULE EventTxProofs ---------------------------
(***************************************************************************)
(* Proofs about EventTx for every number of payloads.                      *)
(***************************************************************************)
EXTENDS EventTx, TLAPS

-----------------------------------------------------------------------------
(***************************************************************************)
(* The inductive invariant.  Released is the number of payloads completed  *)
(* towards the Host, so Released is also the payload_id to send next.      *)
(***************************************************************************)
Released == Len(released)

\* The slots hold exactly the payloads Released .. next_payload_id - 1.
SlotsInv ==
  /\ Released <= next_payload_id
  /\ next_payload_id <= PayloadCount
  /\ next_payload_id <= Released + 2
  /\ Released < PayloadCount => Released < next_payload_id
  /\ \A s \in Slot : slots[s] # None =>
       Released <= slots[s].payload_id /\ slots[s].payload_id < next_payload_id
  /\ next_payload_id = Released + 1 => slots[0] = None <=> slots[1] # None
  /\ next_payload_id = Released + 2 =>
       /\ slots[0] # None /\ slots[1] # None
       /\ slots[0].payload_id # slots[1].payload_id

\* The unacknowledged owner is the payload to be released next, still in its
\* slot, and the payload after it (if any) is already staged.
OwnerInv ==
  outstanding # None =>
    /\ outstanding.token = slots[outstanding.slot]
    /\ outstanding.token # None =>
         /\ outstanding.token.payload_id = Released
         /\ next_payload_id = Released + 1 => next_payload_id = PayloadCount

\* The slot and the refill that preview_select chooses with nothing outstanding.
FreshSlot == ResponseSlot(FALSE)
FreshRefill == RefillAfter(FALSE)

\* What the PDU that carries transmit_sn contains.
CurrentToken ==
  IF outstanding # None THEN outstanding.token ELSE slots[FreshSlot]

\* The plan is what preview_select would still choose, and belongs to the
\* radio operation in progress; a plan that is gone has been committed.
PlanInv ==
  /\ inflight = None => planned = None
  /\ inflight # None =>
       /\ inflight.sn = transmit_sn /\ inflight.nesn = expected_sn
       /\ inflight.decision.response_token = CurrentToken
       /\ planned = inflight.decision \/ (planned = None /\ outstanding # None)
       /\ inflight.decision.response_slot =
            IF outstanding # None THEN outstanding.slot ELSE FreshSlot
       /\ planned # None =>
            planned.refill_after_transmit =
              IF outstanding # None THEN None ELSE FreshRefill

EventInv == inflight = None /\ event = "open" => outstanding # None

\* The Central is ahead of the Peripheral by the current PDU or by nothing.
DeliveryInv ==
  /\ Counts(delivered) /\ Counts(released)
  /\ central_nesn = transmit_sn => Len(delivered) = Released
  /\ central_nesn # transmit_sn =>
       Len(delivered) = IF CurrentToken = None THEN Released ELSE Released + 1

ReceptionInv ==
  /\ Counts(received)
  /\ central_sent <= CentralPayloads
  /\ central_sn = expected_sn => Len(received) = central_sent
  /\ central_sn # expected_sn =>
       Len(received) = IF central_sent < CentralPayloads
                       THEN central_sent + 1 ELSE central_sent

IInv ==
  /\ TypeOK /\ SlotsInv /\ OwnerInv /\ PlanInv /\ EventInv
  /\ DeliveryInv /\ ReceptionInv /\ MoreDataPromiseExact
-----------------------------------------------------------------------------
\* The lowest staged payload is the one selected.
LEMMA StagedSlotChoice ==
  ASSUME NEW sl \in [Slot -> Token \cup {None}]
  PROVE  /\ StagedSlot(sl) \in Slot \cup {None}
         /\ StagedSlot(sl) = None <=> sl[0] = None /\ sl[1] = None
         /\ StagedSlot(sl) # None =>
              /\ sl[StagedSlot(sl)] # None
              /\ \A s \in Slot : sl[s] # None =>
                   sl[StagedSlot(sl)].payload_id <= sl[s].payload_id
BY NoneAssumption DEF StagedSlot, Slot, Token

-----------------------------------------------------------------------------
(***************************************************************************)
(* Type correctness.                                                       *)
(***************************************************************************)
LEMMA HeldSlotsType ==
  ASSUME TypeOK, NEW ack \in BOOLEAN, ack => outstanding # None
  PROVE  HeldSlots(ack) \in [Slot -> Token \cup {None}]
BY DEF TypeOK, HeldSlots, Owner

LEMMA ResponseSlotType ==
  ASSUME TypeOK, NEW ack \in BOOLEAN, ack => outstanding # None
  PROVE  ResponseSlot(ack) \in Slot
BY HeldSlotsType, StagedSlotChoice, NoneAssumption DEF TypeOK, ResponseSlot, Owner

LEMMA RefillAfterType ==
  ASSUME TypeOK, NEW ack \in BOOLEAN, ack => outstanding # None
  PROVE  RefillAfter(ack) \in Refill \cup {None}
<1> DEFINE free == IF ack THEN outstanding.slot ELSE Other(ResponseSlot(ack))
<1>1. free \in Slot
  <2>1. ResponseSlot(ack) \in Slot
    BY ResponseSlotType
  <2>2. outstanding # None => outstanding.slot \in Slot
    BY DEF TypeOK, Owner
  <2> QED
    BY <2>1, <2>2 DEF Slot, Other
<1>2. (generations[free] + 1) % GenerationModulus \in 0 .. GenerationModulus - 1
  <2>1. generations[free] \in 0 .. GenerationModulus - 1
    BY <1>1 DEF TypeOK
  <2>2. \A g \in Nat : (g + 1) % 256 \in 0 .. 255
    OBVIOUS
  <2> QED
    BY <2>1, <2>2 DEF GenerationModulus
<1> QED
  BY <1>1, <1>2 DEF RefillAfter, Refill, Token, TypeOK

LEMMA PreviewType ==
  ASSUME TypeOK, NEW ack \in BOOLEAN, ack => outstanding # None
  PROVE  PreviewSelect(ack) \in Decision
<1>1. CASE outstanding # None /\ ~ack
  BY <1>1 DEF PreviewSelect, RetryDecision, Decision, TypeOK, Owner
<1>2. CASE ~(outstanding # None /\ ~ack)
  <2>1. HeldSlots(ack)[ResponseSlot(ack)] \in Token \cup {None}
    BY HeldSlotsType, ResponseSlotType
  <2>2. (IF ack THEN outstanding.token ELSE None) \in Token \cup {None}
    BY DEF TypeOK, Owner
  <2>3. FreshDecision(ack) \in Decision
    BY <2>1, <2>2, ResponseSlotType, RefillAfterType DEF FreshDecision, Decision
  <2> QED
    BY <1>2, <2>3 DEF PreviewSelect
<1> QED
  BY <1>1, <1>2

-----------------------------------------------------------------------------
(***************************************************************************)
(* What the fresh selection finds under the invariant.                     *)
(***************************************************************************)
FreshSlotExact ==
  /\ FreshSlot \in Slot
  /\ slots[FreshSlot] = None <=> Released = next_payload_id
  /\ slots[FreshSlot] # None => slots[FreshSlot].payload_id = Released

LEMMA FreshSelection == TypeOK /\ SlotsInv => FreshSlotExact
<1> SUFFICES ASSUME TypeOK, SlotsInv PROVE FreshSlotExact
  OBVIOUS
<1> DEFINE st == StagedSlot(slots)
<1>1. slots \in [Slot -> Token \cup {None}]
  BY DEF TypeOK
<1>2. /\ st \in Slot \cup {None}
      /\ st = None <=> slots[0] = None /\ slots[1] = None
      /\ st # None => /\ slots[st] # None
                      /\ \A s \in Slot : slots[s] # None =>
                           slots[st].payload_id <= slots[s].payload_id
  BY <1>1, StagedSlotChoice
<1>3. FreshSlot = IF st # None THEN st ELSE last_released_slot
  BY DEF FreshSlot, ResponseSlot, HeldSlots
<1>4. Released \in Nat /\ next_payload_id \in Nat /\ PayloadCount \in Nat
  BY CountAssumption DEF TypeOK, Released
<1>5. \A s \in Slot : slots[s] # None => slots[s].payload_id \in Nat
  BY <1>1 DEF Token
<1>6. next_payload_id = Released <=> slots[0] = None /\ slots[1] = None
  BY <1>4, <1>5 DEF SlotsInv, TypeOK, Slot
<1>7. FreshSlot \in Slot
  BY <1>2, <1>3, NoneAssumption DEF TypeOK
<1>8. slots[FreshSlot] = None <=> Released = next_payload_id
  <2>1. CASE st = None
    BY <2>1, <1>2, <1>3, <1>6, <1>7 DEF Slot
  <2>2. CASE st # None
    BY <2>2, <1>2, <1>3, <1>6
  <2> QED BY <2>1, <2>2
<1>9. slots[FreshSlot] # None =>
        slots[FreshSlot].payload_id = Released
  <2> SUFFICES ASSUME slots[FreshSlot] # None
               PROVE  slots[FreshSlot].payload_id = Released
    OBVIOUS
  <2>1. st # None /\ FreshSlot = st
    BY <1>2, <1>3, <1>7 DEF Slot
  <2>2. CASE next_payload_id = Released + 1
    <3>1. /\ slots[st].payload_id \in Nat
          /\ Released <= slots[st].payload_id
          /\ slots[st].payload_id < next_payload_id
      BY <2>1, <1>5, <1>7 DEF SlotsInv
    <3>2. \A p \in Nat : Released <= p /\ p < Released + 1 => p = Released
      BY <1>4
    <3> QED BY <3>1, <3>2, <2>1, <2>2
  <2>3. CASE next_payload_id = Released + 2
    <3>1. /\ slots[0] # None /\ slots[1] # None
          /\ slots[0].payload_id # slots[1].payload_id
      BY <2>3 DEF SlotsInv
    <3>2. \A s \in Slot : slots[s].payload_id \in Released .. Released + 1
      BY <3>1, <2>3, <1>4, <1>5 DEF SlotsInv, Slot
    <3>3. slots[st].payload_id <= slots[0].payload_id
          /\ slots[st].payload_id <= slots[1].payload_id
          /\ st \in {0, 1}
      BY <2>1, <3>1, <1>2 DEF Slot
    <3>4. \A a, b, c \in Released .. Released + 1 :
            a # b /\ c <= a /\ c <= b => c = Released
      BY <1>4
    <3> QED BY <3>1, <3>2, <3>3, <3>4, <2>1 DEF Slot
  <2>4. next_payload_id \in {Released + 1, Released + 2}
    <3>1. Released # next_payload_id
      BY <1>8
    <3> QED BY <3>1, <1>4 DEF SlotsInv
  <2> QED BY <2>2, <2>3, <2>4
<1> QED BY <1>7, <1>8, <1>9 DEF FreshSlotExact

FreshRefillExact ==
  /\ FreshRefill # None <=>
       slots[Other(FreshSlot)] = None /\ next_payload_id < PayloadCount
  /\ FreshRefill # None =>
       /\ FreshRefill \in Refill
       /\ FreshRefill.slot = Other(FreshSlot)
       /\ FreshRefill.token =
            [payload_id |-> next_payload_id,
             generation |-> (generations[Other(FreshSlot)] + 1) % GenerationModulus]

LEMMA FreshRefillFacts == TypeOK /\ SlotsInv => FreshRefillExact
<1> SUFFICES ASSUME TypeOK, SlotsInv PROVE FreshRefillExact
  OBVIOUS
<1>0. PICK rs \in Slot : rs = FreshSlot
  BY FreshSelection DEF FreshSlotExact
<1> DEFINE tok == [payload_id |-> next_payload_id,
                   generation |-> (generations[Other(rs)] + 1) % GenerationModulus]
           rf == [slot |-> Other(rs), token |-> tok]
<1>1. FreshRefill = IF slots[Other(rs)] = None /\ next_payload_id < PayloadCount
                           THEN rf ELSE None
  BY <1>0 DEF FreshRefill, FreshSlot, RefillAfter, HeldSlots
<1>2. FreshRefill \in Refill \cup {None}
  BY RefillAfterType DEF FreshRefill
<1>3. rf # None
  <2>1. Other(rs) \in Slot
    BY DEF Other, Slot
  <2>2. generations[Other(rs)] \in 0 .. 255 /\ next_payload_id \in Nat
    BY <2>1 DEF TypeOK, GenerationModulus
  <2>3. \A g \in 0 .. 255 : (g + 1) % 256 \in 0 .. 255
    OBVIOUS
  <2>4. rf \in Refill
    BY <2>1, <2>2, <2>3 DEF Refill, Token, GenerationModulus
  <2> QED BY <2>4, NoneAssumption
<1> QED BY <1>0, <1>1, <1>2, <1>3 DEF FreshRefillExact

-----------------------------------------------------------------------------
(***************************************************************************)
(* complete_transmit: the commit of an accepted decision.                  *)
(***************************************************************************)
TxTypeOK ==
  /\ slots \in [Slot -> Token \cup {None}]
  /\ generations \in [Slot -> 0 .. GenerationModulus - 1]
  /\ outstanding \in Owner \cup {None}
  /\ planned \in Decision \cup {None}
  /\ next_payload_id \in Nat
  /\ last_released_slot \in Slot

LEMMA CommitInv ==
  ASSUME IInv, NEW d \in Decision, CompletionOk(d), CompleteTransmit(d),
         UNCHANGED released
  PROVE  /\ TxTypeOK' /\ SlotsInv' /\ OwnerInv'
         /\ CurrentToken' = CurrentToken
         /\ planned' = None
         /\ inflight # None
         /\ outstanding' = [slot |-> inflight.decision.response_slot,
                            token |-> inflight.decision.response_token]
<1> DEFINE RS == FreshSlot
           rf == d.refill_after_transmit
<1>0. /\ planned = d /\ d # None
      /\ inflight # None /\ inflight.decision = d
      /\ d.response_token = CurrentToken
      /\ d.response_slot = IF outstanding # None THEN outstanding.slot ELSE RS
      /\ rf = IF outstanding # None THEN None ELSE FreshRefill
  BY NoneAssumption DEF CompletionOk, IInv, PlanInv
<1>1. CommitTransmit(d) /\ last_released_slot' = last_released_slot
  BY DEF CompleteTransmit
<1>2. /\ planned' = None
      /\ outstanding' = [slot |-> d.response_slot, token |-> d.response_token]
      /\ outstanding' \in Owner /\ outstanding' # None
  BY <1>1, NoneAssumption DEF CommitTransmit, Owner, Decision
<1>3. Released' = Released
  BY DEF Released
<1>4. CurrentToken' = CurrentToken
  <2>1. CurrentToken' = outstanding'.token
    BY <1>2 DEF CurrentToken
  <2> QED BY <2>1, <1>0, <1>2
<1>5. CASE outstanding # None
  <2>1. rf = None
    BY <1>0, <1>5
  <2>2. UNCHANGED <<slots, generations, next_payload_id>>
    BY <1>1, <2>1 DEF CommitTransmit
  <2>3. outstanding' = outstanding
    BY <1>0, <1>2, <1>5 DEF IInv, TypeOK, Owner, CurrentToken
  <2> QED
    BY <1>0, <1>1, <1>2, <1>3, <1>4, <2>2, <2>3
       DEF IInv, TypeOK, TxTypeOK, SlotsInv, OwnerInv
<1>6. CASE outstanding = None
  <2>1. /\ RS \in Slot
        /\ slots[RS] = None <=> Released = next_payload_id
        /\ slots[RS] # None => slots[RS].payload_id = Released
    BY FreshSelection DEF IInv, FreshSlotExact
  <2>2. /\ d.response_slot = RS /\ d.response_token = slots[RS]
        /\ rf = FreshRefill
    BY <1>0, <1>6 DEF CurrentToken
  <2>7. /\ rf # None <=> slots[Other(RS)] = None /\ next_payload_id < PayloadCount
        /\ rf # None => /\ rf \in Refill
                        /\ rf.slot = Other(RS)
                        /\ rf.token.payload_id = next_payload_id
    BY <2>2, FreshRefillFacts DEF IInv, FreshRefillExact
  <2> HIDE DEF RS, rf
  <2>3. /\ Released \in Nat /\ next_payload_id \in Nat /\ PayloadCount \in Nat
        /\ slots \in [Slot -> Token \cup {None}]
    BY CountAssumption DEF IInv, TypeOK, Released
  <2>4. Other(RS) \in Slot /\ Other(RS) # RS /\ Slot = {RS, Other(RS)}
    BY <2>1 DEF Other, Slot
  <2>5. CASE rf = None
    <3>1. UNCHANGED <<slots, generations, next_payload_id>>
      BY <1>1, <2>5 DEF CommitTransmit, rf
    <3>2. slots[Other(RS)] # None \/ ~(next_payload_id < PayloadCount)
      BY <2>7, <2>5
    <3>3. next_payload_id = Released + 1 /\ slots[RS] # None
            => slots[Other(RS)] = None
      BY <2>1, <2>4 DEF IInv, SlotsInv, Slot, Other
    <3>4. OwnerInv'
      BY <1>2, <1>3, <2>1, <2>2, <2>3, <3>1, <3>2, <3>3 DEF OwnerInv, IInv, SlotsInv
    <3> QED
      BY <1>0, <1>1, <1>2, <1>3, <1>4, <3>1, <3>4
         DEF IInv, TypeOK, TxTypeOK, SlotsInv
  <2>6. CASE rf # None
    <3>1. /\ slots[Other(RS)] = None /\ next_payload_id < PayloadCount
          /\ rf.slot = Other(RS)
          /\ rf.token.payload_id = next_payload_id
          /\ rf.token \in Token
      BY <2>7, <2>6 DEF Refill
    <3>2. /\ slots' = [slots EXCEPT ![Other(RS)] = rf.token]
          /\ generations' = [generations EXCEPT ![Other(RS)] = rf.token.generation]
          /\ next_payload_id' = next_payload_id + 1
      BY <1>1, <2>6, <3>1 DEF CommitTransmit, rf
    <3>3. slots[RS] # None /\ next_payload_id = Released + 1
      BY <2>1, <2>3, <2>4, <3>1 DEF IInv, SlotsInv, Slot
    <3>4. slots'[RS] = slots[RS] /\ slots'[Other(RS)] = rf.token
      BY <2>1, <2>3, <2>4, <3>2
    <3>5. TxTypeOK'
      BY <1>1, <1>2, <2>3, <2>4, <3>1, <3>2 DEF IInv, TypeOK, TxTypeOK, Token
    <3>6. OwnerInv'
      BY <1>2, <1>3, <2>1, <2>2, <2>3, <3>2, <3>3, <3>4 DEF OwnerInv
    <3>7. SlotsInv'
      <4>1. /\ slots'[RS].payload_id = Released
            /\ slots'[Other(RS)].payload_id = Released + 1
            /\ slots'[RS] # None /\ slots'[Other(RS)] # None
            /\ next_payload_id' = Released + 2
        BY <2>1, <2>3, <3>1, <3>2, <3>3, <3>4, NoneAssumption
      <4> QED BY <4>1, <1>3, <2>3, <2>4, <3>1, <3>3 DEF SlotsInv, Slot
    <3> QED BY <1>0, <1>2, <1>4, <3>5, <3>6, <3>7
  <2> QED BY <2>5, <2>6
<1> QED BY <1>5, <1>6

-----------------------------------------------------------------------------
(***************************************************************************)
(* select: the three cases of preview_select.                              *)
(***************************************************************************)
Settled(d) ==
  IF d.response_token = None THEN Released ELSE d.response_token.payload_id + 1

\* What every selection establishes.
Selected ==
  /\ TxTypeOK /\ SlotsInv /\ OwnerInv
  /\ planned \in Decision
  /\ planned.response_token = CurrentToken
  /\ planned.response_slot =
       IF outstanding # None THEN outstanding.slot ELSE FreshSlot
  /\ planned.refill_after_transmit =
       IF outstanding # None THEN None ELSE FreshRefill
  /\ planned.more_payloads_after_response <=> Settled(planned) < PayloadCount

\* A retry of the outstanding owner.
LEMMA RetryCase ==
  ASSUME IInv, outstanding # None, planned' = RetryDecision,
         UNCHANGED <<slots, outstanding, last_released_slot, released,
                     generations, next_payload_id>>
  PROVE  Selected' /\ CurrentToken' = CurrentToken
<1>1. outstanding \in Owner /\ outstanding.slot \in Slot
      /\ outstanding.token \in Token \cup {None}
  BY DEF IInv, TypeOK, Owner
<1>2. planned' \in Decision
  BY <1>1 DEF RetryDecision, Decision
<1>3. TxTypeOK' /\ SlotsInv' /\ OwnerInv'
  BY <1>2 DEF IInv, TypeOK, TxTypeOK, SlotsInv, OwnerInv, Released
<1>4. CurrentToken' = CurrentToken /\ CurrentToken = outstanding.token
  BY DEF CurrentToken
<1>5. RetryDecision.more_payloads_after_response <=>
        Settled(RetryDecision) < PayloadCount
  <2>1. Other(outstanding.slot) \in Slot /\ Slot = {outstanding.slot, Other(outstanding.slot)}
    BY <1>1 DEF Other, Slot
  <2>2. /\ Released \in Nat /\ next_payload_id \in Nat /\ PayloadCount \in Nat
        /\ slots \in [Slot -> Token \cup {None}]
    BY CountAssumption DEF IInv, TypeOK, Released
  <2>3. outstanding.token = slots[outstanding.slot] /\ SlotsInv
    BY DEF IInv, OwnerInv
  <2>4. CASE outstanding.token = None
    <3>1. slots[Other(outstanding.slot)] # None \/ next_payload_id < PayloadCount
            <=> Released < PayloadCount
      <4>1. slots[Other(outstanding.slot)] = None <=> slots[0] = None /\ slots[1] = None
        <5>1. \A s \in Slot : slots[s] = None =>
                (slots[Other(s)] = None <=> slots[0] = None /\ slots[1] = None)
          BY DEF Other, Slot
        <5> QED BY <5>1, <1>1, <2>3, <2>4
      <4>2. slots[0] = None /\ slots[1] = None => next_payload_id = Released
        BY <2>2, <2>3 DEF SlotsInv
      <4>3. slots[Other(outstanding.slot)] # None => Released < next_payload_id
        BY <2>1, <2>2, <2>3 DEF SlotsInv, Token
      <4> QED BY <2>2, <2>3, <4>1, <4>2, <4>3 DEF SlotsInv
    <3> QED BY <3>1, <2>4 DEF RetryDecision, Settled
  <2>5. CASE outstanding.token # None
    <3>1. outstanding.token.payload_id = Released
          /\ (next_payload_id = Released + 1 => next_payload_id = PayloadCount)
      BY <2>5 DEF IInv, OwnerInv
    <3>2. slots[Other(outstanding.slot)] # None \/ next_payload_id < PayloadCount
            <=> Released + 1 < PayloadCount
      BY <2>1, <2>2, <2>3, <2>5, <3>1 DEF SlotsInv, Token, Slot
    <3> QED BY <3>1, <3>2, <2>5 DEF RetryDecision, Settled
  <2> QED BY <2>4, <2>5
<1>6. Released' = Released
  BY DEF Released
<1>7. /\ planned'.response_token = outstanding.token
      /\ planned'.response_slot = outstanding.slot
      /\ planned'.refill_after_transmit = None
      /\ planned'.more_payloads_after_response <=> Settled(planned)' < PayloadCount
  BY <1>5, <1>6 DEF RetryDecision, Settled
<1> QED BY <1>2, <1>3, <1>4, <1>7 DEF Selected

\* With nothing outstanding, the more-payloads flag that preview_select computes
\* is exact.
FreshMoreExact ==
  (slots[Other(FreshSlot)] # None \/ FreshRefill # None
     \/ next_payload_id < PayloadCount)
  <=> (IF slots[FreshSlot] = None THEN Released
       ELSE slots[FreshSlot].payload_id + 1) < PayloadCount

LEMMA FreshMore == TypeOK /\ SlotsInv => FreshMoreExact
<1> SUFFICES ASSUME TypeOK, SlotsInv PROVE FreshMoreExact
  OBVIOUS
<1>1. /\ FreshSlot \in Slot
      /\ slots[FreshSlot] = None <=> Released = next_payload_id
      /\ slots[FreshSlot] # None => slots[FreshSlot].payload_id = Released
  BY FreshSelection DEF FreshSlotExact
<1>2. FreshRefill # None <=>
        slots[Other(FreshSlot)] = None /\ next_payload_id < PayloadCount
  BY FreshRefillFacts DEF FreshRefillExact
<1>3. Other(FreshSlot) \in Slot /\ Slot = {FreshSlot, Other(FreshSlot)}
  BY <1>1 DEF Other, Slot
<1>4. /\ Released \in Nat /\ next_payload_id \in Nat /\ PayloadCount \in Nat
      /\ slots \in [Slot -> Token \cup {None}]
  BY CountAssumption DEF TypeOK, Released
<1>5. CASE slots[FreshSlot] = None
  BY <1>1, <1>2, <1>3, <1>4, <1>5 DEF FreshMoreExact, SlotsInv, Token, Slot
<1>6. CASE slots[FreshSlot] # None
  BY <1>1, <1>2, <1>3, <1>4, <1>6 DEF FreshMoreExact, SlotsInv, Token, Slot
<1> QED BY <1>5, <1>6

\* A decision built from the primed slots satisfies Selected.
LEMMA FreshCase ==
  ASSUME TypeOK', SlotsInv', outstanding' = None,
         planned' \in Decision,
         planned'.response_slot = FreshSlot',
         planned'.response_token = slots'[FreshSlot'],
         planned'.refill_after_transmit = FreshRefill',
         planned'.more_payloads_after_response <=>
           (slots'[Other(FreshSlot')] # None \/ FreshRefill' # None
              \/ next_payload_id' < PayloadCount)
  PROVE  Selected'
<1>1. FreshMoreExact'
  BY FreshMore, PTL
<1>2. CurrentToken' = slots'[FreshSlot'] /\ OwnerInv'
  BY DEF CurrentToken, OwnerInv
<1>3. TxTypeOK'
  BY DEF TypeOK, TxTypeOK
<1> QED BY <1>1, <1>2, <1>3 DEF Selected, Settled, FreshMoreExact, Other

\* The outstanding owner is acknowledged and its slot released.
LEMMA AckCase ==
  ASSUME IInv, outstanding # None, TypeOK',
         slots' = [slots EXCEPT ![outstanding.slot] = None],
         outstanding' = None, last_released_slot' = outstanding.slot,
         UNCHANGED <<generations, next_payload_id>>,
         released' = IF outstanding.token # None
                     THEN Append(released, outstanding.token.payload_id)
                     ELSE released,
         planned' = FreshDecision(TRUE)
  PROVE  /\ Selected' /\ Counts(released)'
         /\ Released' = IF CurrentToken = None THEN Released ELSE Released + 1
<1> DEFINE os == outstanding.slot
           ot == outstanding.token
<1>1. os \in Slot /\ ot \in Token \cup {None}
  BY DEF IInv, TypeOK, Owner
<1>2. /\ ot = slots[os]
      /\ ot # None => /\ ot.payload_id = Released
                      /\ next_payload_id = Released + 1 => next_payload_id = PayloadCount
      /\ SlotsInv /\ Counts(released)
  BY DEF IInv, OwnerInv, DeliveryInv
<1>3. /\ Released \in Nat /\ next_payload_id \in Nat /\ PayloadCount \in Nat
      /\ slots \in [Slot -> Token \cup {None}]
      /\ released \in Seq(Nat)
  BY CountAssumption DEF IInv, TypeOK, Released
<1>4. /\ Counts(released)'
      /\ Released' = IF ot = None THEN Released ELSE Released + 1
  <2>1. CASE ot = None
    BY <2>1, <1>2 DEF Released, Counts
  <2>2. CASE ot # None
    <3>1. released' = Append(released, Released)
      BY <2>2, <1>2
    <3>2. Released' = Released + 1
      BY <3>1, <1>3 DEF Released
    <3>3. Counts(released)'
      BY <3>1, <1>2, <1>3 DEF Counts, Released
    <3> QED BY <3>2, <3>3, <2>2
  <2> QED BY <2>1, <2>2
<1>5. CurrentToken = ot
  BY DEF CurrentToken
<1> HIDE DEF os, ot
<1>6. /\ Other(os) \in Slot /\ Other(os) # os /\ Slot = {os, Other(os)}
      /\ slots'[os] = None /\ slots'[Other(os)] = slots[Other(os)]
  BY <1>1, <1>3 DEF Other, Slot, os
<1>7. SlotsInv'
  <2>1. CASE ot = None
    <3>1. slots' = slots
      BY <2>1, <1>1, <1>2, <1>3 DEF os, ot
    <3> QED BY <3>1, <2>1, <1>2, <1>4 DEF SlotsInv
  <2>2. CASE ot # None
    <3>1. Released' = Released + 1 /\ next_payload_id' = next_payload_id
      BY <2>2, <1>4
    <3>2. slots[os] # None /\ slots[os].payload_id = Released
      BY <2>2, <1>2
    <3>3. slots[Other(os)] # None =>
            /\ slots[Other(os)].payload_id = Released + 1
            /\ next_payload_id = Released + 2
      <4> SUFFICES ASSUME slots[Other(os)] # None
                   PROVE  /\ slots[Other(os)].payload_id = Released + 1
                          /\ next_payload_id = Released + 2
        OBVIOUS
      <4>1. slots[0] # None /\ slots[1] # None
        BY <3>2, <1>6 DEF Slot
      <4>2. next_payload_id # Released + 1
        BY <4>1, <1>2 DEF SlotsInv
      <4>3. /\ slots[Other(os)].payload_id \in Nat
            /\ Released <= slots[Other(os)].payload_id
            /\ slots[Other(os)].payload_id < next_payload_id
        BY <1>2, <1>3, <1>6 DEF SlotsInv, Token
      <4>4. next_payload_id = Released + 2
        BY <4>2, <4>3, <1>2, <1>3 DEF SlotsInv
      <4>5. slots[os].payload_id # slots[Other(os)].payload_id
        BY <4>4, <1>1, <1>2 DEF SlotsInv, Slot, Other
      <4>6. \A p \in Nat : Released <= p /\ p < Released + 2 /\ p # Released
                            => p = Released + 1
        BY <1>3
      <4> QED BY <3>2, <4>3, <4>4, <4>5, <4>6
    <3>4. slots[Other(os)] = None => next_payload_id = Released + 1
      BY <3>2, <1>1, <1>2, <1>3, <1>6 DEF SlotsInv, Token, Slot, Other
    <3>5. \A s \in Slot : slots'[s] # None =>
            s = Other(os) /\ slots'[s].payload_id = Released + 1
      BY <1>6, <3>3
    <3>6. next_payload_id = Released + 2 => slots[Other(os)] # None
      BY <3>4, <1>3
    <3>7. next_payload_id = Released + 2 => (slots'[0] = None <=> slots'[1] # None)
      BY <3>6, <1>1, <1>6 DEF Slot, Other
    <3> QED
      BY <3>1, <3>2, <3>3, <3>4, <3>5, <3>7, <1>2, <1>3, <2>2 DEF SlotsInv
  <2> QED BY <2>1, <2>2
<1>8. HeldSlots(TRUE) = slots'
  BY DEF HeldSlots
<1>9. ResponseSlot(TRUE) = FreshSlot'
  BY <1>8 DEF FreshSlot, ResponseSlot, HeldSlots
<1>10. FreshSlotExact' /\ FreshRefillExact'
  BY <1>7, FreshSelection, FreshRefillFacts, PTL
<1>11. RefillAfter(TRUE) = FreshRefill'
  <2> DEFINE rf == [slot |-> os,
                    token |-> [payload_id |-> next_payload_id,
                               generation |-> (generations[os] + 1) % GenerationModulus]]
  <2>1. RefillAfter(TRUE) = IF next_payload_id < PayloadCount THEN rf ELSE None
    <3>1. HeldSlots(TRUE)[os] = None
      BY <1>6, <1>8
    <3> QED BY <3>1 DEF RefillAfter, os
  <2>2. CASE ~(next_payload_id < PayloadCount)
    BY <2>1, <2>2, <1>10 DEF FreshRefillExact
  <2>3. CASE next_payload_id < PayloadCount
    <3>1. slots'[FreshSlot'] # None
      BY <2>3, <1>3, <1>7, <1>10 DEF FreshSlotExact, SlotsInv
    <3>2. FreshSlot' = Other(os)
      BY <3>1, <1>6, <1>10 DEF FreshSlotExact
    <3>3. Other(FreshSlot') = os
      BY <3>2, <1>1 DEF Other, Slot
    <3>4. /\ FreshRefill' \in Refill
          /\ FreshRefill'.slot = os
          /\ FreshRefill'.token =
               [payload_id |-> next_payload_id,
                generation |-> (generations[os] + 1) % GenerationModulus]
      BY <3>3, <2>3, <1>6, <1>10 DEF FreshRefillExact, Other
    <3>5. FreshRefill' = rf
      BY <3>4 DEF Refill
    <3> QED BY <3>5, <2>1, <2>3
  <2> QED BY <2>2, <2>3
<1>12. Selected'
  <2>1. /\ planned'.response_slot = FreshSlot'
        /\ planned'.response_token = slots'[FreshSlot']
        /\ planned'.refill_after_transmit = FreshRefill'
        /\ planned'.more_payloads_after_response <=>
             (slots'[Other(FreshSlot')] # None \/ FreshRefill' # None
                \/ next_payload_id' < PayloadCount)
    BY <1>8, <1>9, <1>11 DEF FreshDecision
  <2>2. planned' \in Decision
    BY PreviewType DEF IInv, PreviewSelect
  <2> QED BY <2>1, <2>2, <1>7, FreshCase
<1> QED BY <1>4, <1>5, <1>12

-----------------------------------------------------------------------------
(***************************************************************************)
(* The invariant is inductive.                                             *)
(***************************************************************************)
LEMMA ReceiveType ==
  ASSUME IInv, NEW md \in BOOLEAN, ReceivePacket(md)
  PROVE  TypeOK' /\ inflight' \in Inflight
<1> DEFINE ack == AcknowledgesOwner
<1>1. ack \in BOOLEAN /\ Observe(ack) /\ Select(ack) /\ UNCHANGED <<event, late, centralVars>>
      /\ inflight' = [decision |-> planned', sn |-> transmit_sn',
                      nesn |-> expected_sn', peer_md |-> md, on_air |-> FALSE]
  BY DEF ReceivePacket, AcknowledgesOwner
<1> HIDE DEF ack
<1>2. ack => outstanding # None
  BY <1>1 DEF Select, SelectError
<1>3. TypeOK
  BY DEF IInv
<1>4. planned' \in Decision
  BY <1>1, <1>2, <1>3, PreviewType DEF Select
<1>5. transmit_sn' \in Bit /\ expected_sn' \in Bit /\ received' \in Seq(Nat)
  <2>1. /\ transmit_sn \in Bit /\ expected_sn \in Bit /\ received \in Seq(Nat)
        /\ central_sent \in Nat
    BY <1>3 DEF TypeOK
  <2>2. \A b \in Bit : Flip(b) \in Bit
    BY DEF Bit, Flip
  <2>3. transmit_sn' \in {transmit_sn, Flip(transmit_sn)}
    BY <1>1 DEF Observe
  <2>4. /\ expected_sn' \in {expected_sn, Flip(expected_sn)}
        /\ received' \in {received, Append(received, central_sent)}
    BY <1>1 DEF Observe
  <2>5. Append(received, central_sent) \in Seq(Nat)
    BY <2>1
  <2> QED BY <2>1, <2>2, <2>3, <2>4, <2>5
<1>6. inflight' \in Inflight
  BY <1>1, <1>4, <1>5 DEF Inflight
<1>7. /\ slots' \in [Slot -> Token \cup {None}]
      /\ outstanding' \in Owner \cup {None}
      /\ last_released_slot' \in Slot
      /\ UNCHANGED <<generations, next_payload_id>>
  <2>1. slots' = HeldSlots(ack)
    BY <1>1 DEF Select, ReleaseOutstanding
  <2>2. outstanding' \in Owner \cup {None}
    BY <1>1, <1>3 DEF Select, ReleaseOutstanding, TypeOK
  <2>3. last_released_slot' \in Slot
    BY <1>1, <1>2, <1>3 DEF Select, ReleaseOutstanding, TypeOK, Owner
  <2> QED BY <1>1, <1>2, <1>3, <2>1, <2>2, <2>3, HeldSlotsType DEF Select
<1>8. released' \in Seq(Nat)
  <2>1. CASE ack /\ outstanding.token # None
    <3>1. outstanding.token.payload_id \in Nat
      BY <2>1, <1>2, <1>3 DEF TypeOK, Owner, Token
    <3> QED BY <3>1, <2>1, <1>1, <1>3 DEF Select, TypeOK
  <2>2. CASE ~(ack /\ outstanding.token # None)
    BY <2>2, <1>1, <1>3 DEF Select, TypeOK
  <2> QED BY <2>1, <2>2
<1> QED
  BY <1>1, <1>3, <1>4, <1>5, <1>6, <1>7, <1>8 DEF TypeOK, centralVars

LEMMA ReceiveInv ==
  ASSUME IInv, NEW md \in BOOLEAN, ReceivePacket(md)
  PROVE  IInv'
<1>1. TypeOK' /\ inflight' \in Inflight
  BY ReceiveType
<1>2. /\ inflight = None
      /\ inflight' = [decision |-> planned', sn |-> transmit_sn',
                      nesn |-> expected_sn', peer_md |-> md, on_air |-> FALSE]
      /\ UNCHANGED <<event, late, centralVars>>
      /\ Select(AcknowledgesOwner) /\ Observe(AcknowledgesOwner)
  BY DEF ReceivePacket
<1>3. inflight' # None
  BY <1>1, NoneAssumption
<1>4. /\ Selected'
      /\ Counts(released)'
      /\ AcknowledgesOwner =>
           Released' = IF CurrentToken = None THEN Released ELSE Released + 1
      /\ ~AcknowledgesOwner => Released' = Released /\ CurrentToken' = CurrentToken
  <2>1. CASE AcknowledgesOwner
    <3>1. outstanding # None
      BY <1>2, <2>1 DEF Select, SelectError
    <3>2. /\ slots' = [slots EXCEPT ![outstanding.slot] = None]
          /\ outstanding' = None /\ last_released_slot' = outstanding.slot
          /\ UNCHANGED <<generations, next_payload_id>>
          /\ released' = IF outstanding.token # None
                         THEN Append(released, outstanding.token.payload_id)
                         ELSE released
      BY <1>2, <2>1 DEF Select, ReleaseOutstanding, HeldSlots
    <3>3. planned' = FreshDecision(TRUE)
      BY <1>2, <2>1 DEF Select, PreviewSelect
    <3> QED BY <2>1, <3>1, <3>2, <3>3, <1>1, AckCase
  <2>2. CASE ~AcknowledgesOwner
    <3>1. UNCHANGED <<slots, outstanding, last_released_slot, released,
                      generations, next_payload_id>>
      BY <1>2, <2>2 DEF Select, ReleaseOutstanding, HeldSlots
    <3>2. Counts(released)' /\ Released' = Released
      BY <3>1 DEF IInv, DeliveryInv, Counts, Released
    <3>3. CASE outstanding # None
      <4>1. planned' = RetryDecision
        BY <1>2, <2>2, <3>3 DEF Select, PreviewSelect
      <4> QED BY <4>1, <3>1, <3>2, <3>3, <2>2, RetryCase
    <3>4. CASE outstanding = None
      <4>1. planned' = FreshDecision(FALSE)
        <5>1. AcknowledgesOwner = FALSE
          BY <2>2 DEF AcknowledgesOwner
        <5>2. planned' = PreviewSelect(FALSE)
          BY <1>2, <5>1 DEF Select
        <5> QED BY <5>2, <3>4 DEF PreviewSelect
      <4>2. planned' \in Decision
        BY <3>4, <4>1, PreviewType DEF IInv, PreviewSelect
      <4>3. FreshSlot' = FreshSlot /\ FreshRefill' = FreshRefill /\ SlotsInv'
        BY <3>1 DEF FreshSlot, FreshRefill, ResponseSlot, RefillAfter, HeldSlots,
                    IInv, SlotsInv, Released
      <4>4. /\ planned'.response_slot = FreshSlot
            /\ planned'.response_token = slots[FreshSlot]
            /\ planned'.refill_after_transmit = FreshRefill
            /\ planned'.more_payloads_after_response <=>
                 (slots[Other(FreshSlot)] # None \/ FreshRefill # None
                    \/ next_payload_id < PayloadCount)
        BY <4>1 DEF FreshDecision, HeldSlots, FreshSlot, FreshRefill
      <4>5. Selected'
        BY <1>1, <3>1, <3>4, <4>2, <4>3, <4>4, FreshCase
      <4>6. CurrentToken' = CurrentToken
        BY <3>1, <3>4, <4>3 DEF CurrentToken
      <4> QED BY <4>5, <4>6, <3>2, <2>2
    <3> QED BY <3>3, <3>4
  <2> QED BY <2>1, <2>2
<1>5. SlotsInv' /\ OwnerInv'
  BY <1>4 DEF Selected
<1>6. PlanInv'
  BY <1>2, <1>3, <1>4, NoneAssumption DEF Selected, PlanInv
<1>7. EventInv'
  BY <1>3 DEF EventInv
<1>8. MoreDataPromiseExact'
  BY <1>2, <1>4 DEF Selected, MoreDataPromiseExact, Settled, Released
<1>9. DeliveryInv'
  <2>1. /\ delivered' = delivered /\ central_nesn' = central_nesn
        /\ Counts(delivered)'
    BY <1>2 DEF centralVars, IInv, DeliveryInv, Counts
  <2>2. transmit_sn \in Bit /\ central_nesn \in Bit
    BY DEF IInv, TypeOK
  <2>3. CASE AcknowledgesOwner
    <3>1. central_nesn # transmit_sn /\ transmit_sn' = Flip(transmit_sn)
      BY <2>3, <1>2 DEF AcknowledgesOwner, Observe
    <3>2. central_nesn = transmit_sn'
      BY <3>1, <2>2 DEF Bit, Flip
    <3> QED BY <2>1, <2>3, <3>1, <3>2, <1>4 DEF DeliveryInv, IInv
  <2>4. CASE ~AcknowledgesOwner
    <3>1. transmit_sn' = transmit_sn
      BY <2>4, <1>2 DEF Observe
    <3> QED BY <2>1, <2>4, <3>1, <1>4 DEF DeliveryInv, IInv
  <2> QED BY <2>3, <2>4
<1>10. ReceptionInv'
  <2>1. /\ UNCHANGED <<central_sn, central_sent>> /\ central_sent \in Nat
        /\ expected_sn \in Bit /\ central_sn \in Bit /\ received \in Seq(Nat)
        /\ ReceptionInv /\ CentralPayloads \in Nat
    BY <1>2, CountAssumption DEF centralVars, IInv, TypeOK
  <2>2. CASE central_sn = expected_sn
    <3>1. /\ expected_sn' = Flip(expected_sn)
          /\ received' = IF central_sent < CentralPayloads
                         THEN Append(received, central_sent) ELSE received
      BY <1>2, <2>2 DEF Observe
    <3> QED BY <2>1, <2>2, <3>1 DEF ReceptionInv, Counts, Bit, Flip
  <2>3. CASE central_sn # expected_sn
    BY <1>2, <2>1, <2>3 DEF Observe, ReceptionInv, Counts
  <2> QED BY <2>2, <2>3
<1> QED BY <1>1, <1>5, <1>6, <1>7, <1>8, <1>9, <1>10 DEF IInv

LEMMA RadioInv ==
  ASSUME IInv, NEW heard \in BOOLEAN, RadioSends(heard)
  PROVE  IInv'
<1>1. /\ inflight # None
      /\ inflight' = [inflight EXCEPT !.on_air = TRUE]
      /\ UNCHANGED <<txVars, seqVars, event, late, released, received>>
  BY DEF RadioSends
<1>2. /\ inflight \in Inflight /\ inflight' \in Inflight /\ inflight' # None
      /\ inflight'.sn = inflight.sn /\ inflight'.nesn = inflight.nesn
      /\ inflight'.decision = inflight.decision
  BY <1>1, NoneAssumption DEF IInv, TypeOK, Inflight
<1>3. /\ UNCHANGED <<slots, generations, outstanding, planned, next_payload_id,
                     last_released_slot, transmit_sn, expected_sn>>
      /\ Released' = Released /\ FreshSlot' = FreshSlot /\ FreshRefill' = FreshRefill
      /\ CurrentToken' = CurrentToken
  BY <1>1 DEF txVars, seqVars, Released, FreshSlot, FreshRefill, CurrentToken,
              ResponseSlot, RefillAfter, HeldSlots
<1>4. SlotsInv' /\ OwnerInv'
  BY <1>3 DEF IInv, SlotsInv, OwnerInv
<1>5. PlanInv' /\ EventInv' /\ MoreDataPromiseExact'
  BY <1>1, <1>2, <1>3 DEF IInv, PlanInv, EventInv, MoreDataPromiseExact
<1>6. TypeOK' /\ DeliveryInv' /\ ReceptionInv'
  <2>1. CASE ~heard
    <3>1. UNCHANGED centralVars
      BY <2>1 DEF RadioSends
    <3> QED
      BY <1>1, <1>2, <1>3, <3>1 DEF IInv, TypeOK, DeliveryInv, ReceptionInv, Counts,
                                   centralVars, seqVars, txVars
  <2>2. CASE heard
    <3>1. CentralHears
      BY <2>2 DEF RadioSends
    <3>2. /\ inflight.sn = transmit_sn /\ inflight.nesn = expected_sn
          /\ inflight.decision.response_token = CurrentToken
          /\ CurrentToken # None => CurrentToken.payload_id = Released
          /\ CurrentToken # None => CurrentToken.payload_id \in Nat
      <4>1. /\ inflight.sn = transmit_sn /\ inflight.nesn = expected_sn
            /\ inflight.decision.response_token = CurrentToken
        BY <1>1 DEF IInv, PlanInv
      <4>2. CurrentToken # None => CurrentToken.payload_id = Released
        BY FreshSelection DEF IInv, OwnerInv, CurrentToken, FreshSlotExact
      <4>3. Released \in Nat
        BY DEF IInv, TypeOK, Released
      <4> QED BY <4>1, <4>2, <4>3
    <3>3. /\ transmit_sn \in Bit /\ expected_sn \in Bit /\ central_nesn \in Bit
          /\ central_sn \in Bit /\ central_sent \in Nat /\ delivered \in Seq(Nat)
          /\ received \in Seq(Nat) /\ Released \in Nat /\ CentralPayloads \in Nat
          /\ DeliveryInv /\ ReceptionInv
      BY CountAssumption DEF IInv, TypeOK, Released
    <3>4. /\ central_nesn' \in Bit /\ delivered' \in Seq(Nat)
          /\ DeliveryInv'
      <4>1. Counts(released)'
        BY <1>1, <3>3 DEF DeliveryInv, Counts
      <4>2. CASE transmit_sn = central_nesn
        <5>1. /\ central_nesn' = Flip(central_nesn)
              /\ delivered' = IF CurrentToken = None THEN delivered
                              ELSE Append(delivered, Released)
          BY <4>2, <3>1, <3>2 DEF CentralHears
        <5>2. central_nesn' \in Bit /\ central_nesn' # transmit_sn'
          BY <5>1, <4>2, <3>3, <1>3 DEF Bit, Flip
        <5>3. Len(delivered) = Released /\ Counts(delivered)
          BY <4>2, <3>3 DEF DeliveryInv
        <5>4. /\ Len(delivered') = IF CurrentToken = None THEN Released ELSE Released + 1
              /\ delivered' \in Seq(Nat)
              /\ Counts(delivered)'
          BY <5>1, <5>3, <3>3 DEF Counts
        <5> QED BY <4>1, <5>2, <5>4, <1>3 DEF DeliveryInv
      <4>3. CASE transmit_sn # central_nesn
        <5>1. UNCHANGED <<central_nesn, delivered>>
          BY <4>3, <3>1, <3>2 DEF CentralHears
        <5> QED BY <4>1, <5>1, <3>3, <1>3 DEF DeliveryInv, Counts
      <4> QED BY <4>2, <4>3
    <3>5. /\ central_sn' \in Bit /\ central_sent' \in Nat
          /\ ReceptionInv'
      <4>1. received' = received /\ Counts(received)' /\ expected_sn' = expected_sn
        BY <1>1, <1>3, <3>3 DEF ReceptionInv, Counts
      <4>2. CASE expected_sn # central_sn
        <5>1. /\ central_sn' = Flip(central_sn)
              /\ central_sent' = IF central_sent < CentralPayloads
                                 THEN central_sent + 1 ELSE central_sent
          BY <4>2, <3>1, <3>2 DEF CentralHears
        <5>2. central_sn' \in Bit /\ central_sn' = expected_sn
          BY <5>1, <4>2, <3>3 DEF Bit, Flip
        <5> QED BY <4>1, <4>2, <5>1, <5>2, <3>3 DEF ReceptionInv
      <4>3. CASE expected_sn = central_sn
        <5>1. UNCHANGED <<central_sn, central_sent>>
          BY <4>3, <3>1, <3>2 DEF CentralHears
        <5> QED BY <4>1, <5>1, <3>3 DEF ReceptionInv
      <4> QED BY <4>2, <4>3
    <3> QED
      BY <1>1, <1>2, <1>3, <3>4, <3>5 DEF IInv, TypeOK
  <2> QED BY <2>1, <2>2
<1> QED BY <1>4, <1>5, <1>6 DEF IInv

\* complete_transmit of any decision: committed, or refused without a change.
LEMMA CompleteInv ==
  ASSUME IInv, NEW d \in Decision, CompleteTransmit(d),
         UNCHANGED <<seqVars, centralVars, released, received>>
  PROVE  /\ TxTypeOK' /\ SlotsInv' /\ OwnerInv' /\ DeliveryInv' /\ ReceptionInv'
         /\ CurrentToken' = CurrentToken
         /\ CompletionOk(d) =>
              /\ planned' = None /\ inflight # None
              /\ outstanding' = [slot |-> inflight.decision.response_slot,
                                 token |-> inflight.decision.response_token]
         /\ ~CompletionOk(d) =>
              UNCHANGED <<slots, generations, outstanding, planned, next_payload_id,
                          last_released_slot>>
<1>1. CASE CompletionOk(d)
  <2>1. /\ TxTypeOK' /\ SlotsInv' /\ OwnerInv'
        /\ CurrentToken' = CurrentToken
        /\ planned' = None /\ inflight # None
        /\ outstanding' = [slot |-> inflight.decision.response_slot,
                           token |-> inflight.decision.response_token]
    BY <1>1, CommitInv
  <2>2. DeliveryInv' /\ ReceptionInv'
    BY <2>1 DEF IInv, DeliveryInv, ReceptionInv, Counts, Released, seqVars, centralVars
  <2> QED BY <1>1, <2>1, <2>2
<1>2. CASE ~CompletionOk(d)
  <2>1. UNCHANGED <<slots, generations, outstanding, planned, next_payload_id,
                    last_released_slot>>
    BY <1>2 DEF CompleteTransmit
  <2>2. CurrentToken' = CurrentToken /\ Released' = Released
    BY <2>1 DEF CurrentToken, FreshSlot, ResponseSlot, HeldSlots, Released
  <2>3. TxTypeOK' /\ SlotsInv' /\ OwnerInv'
    BY <2>1, <2>2 DEF IInv, TypeOK, TxTypeOK, SlotsInv, OwnerInv
  <2>4. DeliveryInv' /\ ReceptionInv'
    BY <2>2 DEF IInv, DeliveryInv, ReceptionInv, Counts, Released, seqVars, centralVars
  <2> QED BY <1>2, <2>1, <2>2, <2>3, <2>4
<1> QED BY <1>1, <1>2

\* complete_transmit accepts every pending plan.
LEMMA PlanAccepted ==
  ASSUME IInv, planned # None
  PROVE  CompletionOk(planned)
<1>1. /\ inflight # None /\ planned = inflight.decision
      /\ planned.response_token = CurrentToken
      /\ planned.response_slot = IF outstanding # None THEN outstanding.slot ELSE FreshSlot
      /\ planned.refill_after_transmit =
           IF outstanding # None THEN None ELSE FreshRefill
  BY DEF IInv, PlanInv
<1>2. CASE outstanding # None
  BY <1>1, <1>2 DEF CompletionOk, CurrentToken
<1>3. CASE outstanding = None
  <2>1. FreshSlotExact /\ FreshRefillExact
    BY FreshSelection, FreshRefillFacts DEF IInv
  <2>2. planned.refill_after_transmit = FreshRefill
    BY <1>1, <1>3
  <2> QED BY <1>3, <2>1, <2>2 DEF CompletionOk, FreshRefillExact
<1> QED BY <1>2, <1>3

LEMMA TxDoneInv ==
  ASSUME IInv, NEW in_time \in BOOLEAN, NEW resources \in BOOLEAN,
         TxDone(in_time, resources)
  PROVE  IInv'
<1> DEFINE d == inflight.decision
<1>1. /\ inflight # None /\ inflight' = None
      /\ CompleteTransmit(d)
      /\ event' \in {"open", "closed"}
      /\ UNCHANGED <<seqVars, late, centralVars, released, received>>
  BY DEF TxDone
<1>2. d \in Decision
  BY <1>1 DEF IInv, TypeOK, Inflight
<1>3. /\ TxTypeOK' /\ SlotsInv' /\ OwnerInv' /\ DeliveryInv' /\ ReceptionInv'
      /\ CompletionOk(d) => planned' = None /\ outstanding' \in Owner
      /\ ~CompletionOk(d) => UNCHANGED <<outstanding, planned>>
  BY <1>1, <1>2, CompleteInv DEF Owner, Decision
<1>4. planned' = None /\ outstanding' # None
  <2>1. CASE CompletionOk(d)
    BY <2>1, <1>3, NoneAssumption
  <2>2. CASE ~CompletionOk(d)
    <3>1. planned # d
      BY <2>2, <1>2, PlanAccepted, NoneAssumption
    <3>2. planned = None /\ outstanding # None
      BY <3>1, <1>1 DEF IInv, PlanInv
    <3> QED BY <2>2, <3>2, <1>3
  <2> QED BY <2>1, <2>2
<1>5. TypeOK'
  BY <1>1, <1>3 DEF IInv, TypeOK, TxTypeOK, seqVars, centralVars
<1>6. PlanInv' /\ EventInv' /\ MoreDataPromiseExact'
  BY <1>1, <1>4 DEF PlanInv, EventInv, MoreDataPromiseExact
<1> QED BY <1>3, <1>5, <1>6 DEF IInv

LEMMA LateInv ==
  ASSUME IInv, NEW d \in late, LateTxDone(d)
  PROVE  IInv'
<1>1. /\ CompleteTransmit(d) /\ late' = late \ {d}
      /\ UNCHANGED <<seqVars, event, inflight, centralVars, released, received>>
  BY DEF LateTxDone
<1>2. d \in Decision
  BY DEF IInv, TypeOK
<1>3. /\ TxTypeOK' /\ SlotsInv' /\ OwnerInv' /\ DeliveryInv' /\ ReceptionInv'
      /\ CurrentToken' = CurrentToken
      /\ CompletionOk(d) =>
              /\ planned' = None /\ inflight # None
              /\ outstanding' = [slot |-> inflight.decision.response_slot,
                                 token |-> inflight.decision.response_token]
      /\ ~CompletionOk(d) =>
              UNCHANGED <<slots, generations, outstanding, planned, next_payload_id,
                          last_released_slot>>
  BY <1>1, <1>2, CompleteInv
<1>4. TypeOK'
  BY <1>1, <1>3 DEF IInv, TypeOK, TxTypeOK, seqVars, centralVars
<1>5. MoreDataPromiseExact'
  BY <1>1 DEF IInv, MoreDataPromiseExact
<1>6. PlanInv' /\ EventInv'
  <2>1. CASE CompletionOk(d)
    <3>1. outstanding' # None
      <4>1. inflight.decision \in Decision
        BY <2>1, <1>3 DEF IInv, TypeOK, Inflight
      <4> QED BY <4>1, <2>1, <1>3, NoneAssumption DEF Owner, Decision
    <3>2. /\ inflight.sn = transmit_sn /\ inflight.nesn = expected_sn
          /\ inflight.decision.response_token = CurrentToken
      BY <2>1, <1>3 DEF IInv, PlanInv
    <3> QED BY <2>1, <3>1, <3>2, <1>1, <1>3 DEF PlanInv, EventInv, seqVars
  <2>2. CASE ~CompletionOk(d)
    <3>1. FreshSlot' = FreshSlot /\ FreshRefill' = FreshRefill
      BY <2>2, <1>3 DEF FreshSlot, FreshRefill, ResponseSlot, RefillAfter, HeldSlots
    <3> QED BY <2>2, <3>1, <1>1, <1>3 DEF IInv, PlanInv, EventInv, seqVars
  <2> QED BY <2>1, <2>2
<1> QED BY <1>3, <1>4, <1>5, <1>6 DEF IInv

LEMMA AbortInv ==
  ASSUME IInv, AbortTransmit
  PROVE  IInv'
<1>1. /\ inflight # None /\ inflight' = None /\ event' = "closed"
      /\ planned' = IF planned = inflight.decision THEN None ELSE planned
      /\ late' = IF inflight.on_air THEN late \cup {inflight.decision} ELSE late
      /\ UNCHANGED <<slots, generations, outstanding, next_payload_id,
                     last_released_slot, seqVars, centralVars, released, received>>
  BY DEF AbortTransmit
<1>2. inflight.decision \in Decision /\ planned' = None
  BY <1>1 DEF IInv, TypeOK, Inflight, PlanInv
<1>3. TypeOK'
  BY <1>1, <1>2 DEF IInv, TypeOK, seqVars, centralVars
<1>4. CurrentToken' = CurrentToken /\ Released' = Released
  BY <1>1 DEF CurrentToken, FreshSlot, ResponseSlot, HeldSlots, Released
<1>5. SlotsInv' /\ OwnerInv' /\ DeliveryInv' /\ ReceptionInv'
  BY <1>1, <1>4 DEF IInv, SlotsInv, OwnerInv, DeliveryInv, ReceptionInv, Counts,
                    seqVars, centralVars
<1>6. PlanInv' /\ EventInv' /\ MoreDataPromiseExact'
  BY <1>1, <1>2 DEF PlanInv, EventInv, MoreDataPromiseExact
<1> QED BY <1>3, <1>5, <1>6 DEF IInv

\* A step that touches only `event` (closing it), or nothing.
LEMMA CloseInv ==
  ASSUME IInv, CloseEvent \/ UNCHANGED vars
  PROVE  IInv'
<1>1. /\ event' \in {event, "closed"}
      /\ UNCHANGED <<slots, generations, outstanding, planned, next_payload_id,
                     last_released_slot, transmit_sn, expected_sn, inflight, late,
                     central_sn, central_nesn, central_sent, delivered, released,
                     received>>
  BY DEF CloseEvent, vars, txVars, seqVars, centralVars
<1>2. TypeOK'
  BY <1>1 DEF IInv, TypeOK
<1>3. /\ CurrentToken' = CurrentToken /\ Released' = Released
      /\ FreshSlot' = FreshSlot /\ FreshRefill' = FreshRefill
  BY <1>1 DEF CurrentToken, FreshSlot, FreshRefill, ResponseSlot, RefillAfter,
              HeldSlots, Released
<1>4. SlotsInv' /\ OwnerInv' /\ DeliveryInv' /\ ReceptionInv'
  BY <1>1, <1>3 DEF IInv, SlotsInv, OwnerInv, DeliveryInv, ReceptionInv, Counts
<1>5. PlanInv' /\ EventInv' /\ MoreDataPromiseExact'
  BY <1>1, <1>3 DEF IInv, PlanInv, EventInv, MoreDataPromiseExact
<1> QED BY <1>2, <1>4, <1>5 DEF IInv

LEMMA NextInv == IInv /\ [Next]_vars => IInv'
<1> SUFFICES ASSUME IInv, [Next]_vars PROVE IInv'
  OBVIOUS
<1>1. ASSUME NEW md \in BOOLEAN, ReceivePacket(md) PROVE IInv'
  BY <1>1, ReceiveInv
<1>2. ASSUME NEW heard \in BOOLEAN, RadioSends(heard) PROVE IInv'
  BY <1>2, RadioInv
<1>3. ASSUME NEW in_time \in BOOLEAN, NEW resources \in BOOLEAN,
             TxDone(in_time, resources)
      PROVE  IInv'
  BY <1>3, TxDoneInv
<1>4. CASE AbortTransmit
  BY <1>4, AbortInv
<1>5. ASSUME NEW d \in late, LateTxDone(d) PROVE IInv'
  BY <1>5, LateInv
<1>6. CASE CloseEvent \/ UNCHANGED vars
  BY <1>6, CloseInv
<1> QED BY <1>1, <1>2, <1>3, <1>4, <1>5, <1>6 DEF Next

LEMMA InitInv == Init => IInv
<1> SUFFICES ASSUME Init PROVE IInv
  OBVIOUS
<1>1. /\ generations = [s \in Slot |-> 0] /\ planned = None /\ last_released_slot = 0
      /\ transmit_sn = 0 /\ expected_sn = 0 /\ event = "closed"
      /\ inflight = None /\ late = {} /\ central_sn = 0 /\ central_sent = 0
      /\ delivered = << >> /\ released = << >> /\ received = << >>
      /\ central_nesn \in Bit
  BY DEF Init, InitCommon, FromOwnerTokens, WithEmptyRetry, Bit
<1>2. \A p \in Nat : FirstToken(p) \in Token \cup {None}
  BY DEF FirstToken, Token, GenerationModulus
<1>3. Released = 0 /\ PayloadCount \in Nat
  BY <1>1, CountAssumption DEF Released
<1>4. \A p \in Nat : /\ FirstToken(p) = None <=> ~(p < PayloadCount)
                     /\ FirstToken(p) # None => FirstToken(p).payload_id = p
  <2>1. \A p \in Nat : [payload_id |-> p, generation |-> 0] \in Token
    BY DEF Token, GenerationModulus
  <2> QED BY <2>1, NoneAssumption DEF FirstToken
<1>5. /\ slots \in [Slot -> Token \cup {None}] /\ next_payload_id \in Nat
      /\ outstanding \in Owner \cup {None}
      /\ SlotsInv /\ OwnerInv
      /\ outstanding = None => central_nesn = 0
      /\ outstanding # None => outstanding.token = None
  <2>1. CASE FromOwnerTokens
    <3>1. slots = [s \in Slot |-> FirstToken(s)] /\ outstanding = None /\ central_nesn = 0
          /\ next_payload_id = IF PayloadCount > 1 THEN 2 ELSE PayloadCount
      BY <2>1 DEF FromOwnerTokens
    <3>2. slots[0] = FirstToken(0) /\ slots[1] = FirstToken(1)
      BY <3>1 DEF Slot
    <3>3. SlotsInv
      BY <3>1, <3>2, <1>3, <1>4 DEF SlotsInv, Slot
    <3> QED BY <3>1, <3>3, <1>2, <1>3 DEF OwnerInv, Slot
  <2>2. CASE WithEmptyRetry
    <3>1. /\ slots = [s \in Slot |-> IF s = 0 THEN None ELSE FirstToken(0)]
          /\ next_payload_id = IF PayloadCount > 0 THEN 1 ELSE 0
          /\ outstanding = [slot |-> 0, token |-> None]
      BY <2>2 DEF WithEmptyRetry
    <3>2. slots[0] = None /\ slots[1] = FirstToken(0)
      BY <3>1 DEF Slot
    <3>3. SlotsInv
      BY <3>1, <3>2, <1>3, <1>4 DEF SlotsInv, Slot
    <3>4. outstanding \in Owner /\ outstanding # None
      BY <3>1, NoneAssumption DEF Owner, Slot
    <3>5. OwnerInv
      BY <3>1, <3>2 DEF OwnerInv
    <3>6. slots \in [Slot -> Token \cup {None}]
      BY <3>1, <1>2
    <3> QED BY <3>1, <3>3, <3>4, <3>5, <3>6
  <2> QED BY <2>1, <2>2 DEF Init
<1>6. TypeOK
  BY <1>1, <1>5 DEF TypeOK, Slot, Bit, GenerationModulus
<1>7. PlanInv /\ EventInv /\ MoreDataPromiseExact /\ ReceptionInv
  BY <1>1, CountAssumption DEF PlanInv, EventInv, MoreDataPromiseExact, ReceptionInv, Counts
<1>8. DeliveryInv
  <2>1. Counts(delivered) /\ Counts(released) /\ Len(delivered) = Released
    BY <1>1, <1>3 DEF Counts
  <2>2. central_nesn # transmit_sn => CurrentToken = None
    BY <1>1, <1>5 DEF CurrentToken
  <2> QED BY <2>1, <2>2 DEF DeliveryInv
<1> QED BY <1>5, <1>6, <1>7, <1>8 DEF IInv

-----------------------------------------------------------------------------
(***************************************************************************)
(* The theorems.                                                           *)
(***************************************************************************)
\* Every reachable state satisfies the inductive invariant.
THEOREM InductiveInvariant == Spec => []IInv
<1>1. Init => IInv
  BY InitInv
<1>2. IInv /\ [Next]_vars => IInv'
  BY NextInv
<1> QED BY <1>1, <1>2, PTL DEF Spec

\* The variables of ConnectionEventTxState, DataSequenceState and their
\* environment keep their types for any number of payloads.
THEOREM TypeCorrect == Spec => []TypeOK
<1>1. IInv => TypeOK
  BY DEF IInv
<1> QED BY <1>1, InductiveInvariant, PTL

\* Whatever is lost, aborted or completed late, Host payloads reach the
\* Central exactly once and in order, and none is released undelivered.
THEOREM DeliveredExactlyOnce == Spec => []PayloadsExactlyOnce
<1>1. IInv => PayloadsExactlyOnce
  <2> SUFFICES ASSUME IInv PROVE PayloadsExactlyOnce
    OBVIOUS
  <2>1. Released \in Nat /\ Len(delivered) \in {Released, Released + 1}
    BY DEF IInv, TypeOK, Released, DeliveryInv
  <2> QED BY <2>1 DEF IInv, DeliveryInv, PayloadsExactlyOnce, Released
<1> QED BY <1>1, InductiveInvariant, PTL

\* Central data PDUs are accepted exactly once and in order.
THEOREM ReceivedExactlyOnce == Spec => []CentralDataExactlyOnce
<1>1. IInv => CentralDataExactlyOnce
  <2> SUFFICES ASSUME IInv PROVE CentralDataExactlyOnce
    OBVIOUS
  <2>1. central_sent \in Nat /\ Len(received) \in {central_sent, central_sent + 1}
    BY DEF IInv, TypeOK, ReceptionInv
  <2> QED BY <2>1 DEF IInv, ReceptionInv, CentralDataExactlyOnce
<1> QED BY <1>1, InductiveInvariant, PTL

\* select never returns an error to a caller that gates the acknowledgement
\* with acknowledges_transmit_owner.
THEOREM SelectTotal == Spec => []SelectNeverFails
<1>1. IInv => SelectNeverFails
  BY DEF IInv, PlanInv, EventInv, SelectNeverFails, SelectError, AcknowledgesOwner
<1> QED BY <1>1, InductiveInvariant, PTL

\* The more-payloads flag that drives MD is exact.
THEOREM MoreDataExact == Spec => []MoreDataPromiseExact
<1>1. IInv => MoreDataPromiseExact
  BY DEF IInv
<1> QED BY <1>1, InductiveInvariant, PTL

\* complete_transmit keeps an outstanding owner, and refills only a slot that
\* is empty and not the response's.
LEMMA CompleteKeeps ==
  ASSUME IInv, NEW d \in Decision, CompleteTransmit(d)
  PROVE  /\ outstanding # None => outstanding' = outstanding
         /\ \A s \in Slot : slots'[s] # slots[s] =>
              /\ slots[s] = None
              /\ inflight # None /\ inflight.decision.response_slot # s
              /\ outstanding' # None => outstanding'.slot # s
<1>1. CASE ~CompletionOk(d)
  BY <1>1 DEF CompleteTransmit
<1>2. CASE CompletionOk(d)
  <2>1. /\ planned = d /\ d # None /\ CommitTransmit(d)
        /\ inflight # None /\ inflight.decision = d
        /\ d.response_slot = IF outstanding # None THEN outstanding.slot ELSE FreshSlot
        /\ d.refill_after_transmit = IF outstanding # None THEN None ELSE FreshRefill
    BY <1>2, NoneAssumption DEF CompleteTransmit, CompletionOk, IInv, PlanInv
  <2>2. outstanding' = [slot |-> d.response_slot, token |-> d.response_token]
    BY <2>1 DEF CommitTransmit
  <2>3. CASE outstanding # None
    <3>1. outstanding' = outstanding
      BY <1>2, <2>2, <2>3 DEF CompletionOk, IInv, TypeOK, Owner
    <3>2. slots' = slots
      BY <2>1, <2>3 DEF CommitTransmit
    <3> QED BY <3>1, <3>2
  <2>4. CASE outstanding = None
    <3>1. FreshSlotExact /\ FreshRefillExact
      BY FreshSelection, FreshRefillFacts DEF IInv
    <3>2. d.response_slot = FreshSlot /\ d.refill_after_transmit = FreshRefill
      BY <2>1, <2>4
    <3>3. CASE FreshRefill = None
      BY <2>1, <2>4, <3>2, <3>3 DEF CommitTransmit
    <3>4. CASE FreshRefill # None
      <4>1. /\ FreshRefill.slot = Other(FreshSlot)
            /\ slots[Other(FreshSlot)] = None
            /\ slots' = [slots EXCEPT ![Other(FreshSlot)] = FreshRefill.token]
        BY <2>1, <3>1, <3>2, <3>4 DEF CommitTransmit, FreshRefillExact
      <4>2. Other(FreshSlot) # FreshSlot
        BY <3>1 DEF FreshSlotExact, Other, Slot
      <4>3. \A s \in Slot : slots'[s] # slots[s] => s = Other(FreshSlot)
        BY <4>1 DEF IInv, TypeOK
      <4> QED BY <2>1, <2>2, <2>4, <3>2, <4>1, <4>2, <4>3
    <3> QED BY <3>3, <3>4
  <2> QED BY <2>3, <2>4
<1> QED BY <1>1, <1>2

\* An unacknowledged owner is never dropped or replaced: not by an abort, a
\* retry or a late TX_DONE.
THEOREM OwnerKept == Spec => OwnerKeptUntilAcked
<1>1. IInv /\ [Next]_vars =>
        [outstanding # None /\ outstanding' # outstanding =>
           transmit_sn' # transmit_sn]_vars
  <2> SUFFICES ASSUME IInv, Next, outstanding # None, outstanding' # outstanding
               PROVE  transmit_sn' # transmit_sn
    OBVIOUS
  <2>1. ASSUME NEW md \in BOOLEAN, ReceivePacket(md) PROVE transmit_sn' # transmit_sn
    <3>1. AcknowledgesOwner
      BY <2>1 DEF ReceivePacket, Select, ReleaseOutstanding
    <3>2. transmit_sn' = Flip(transmit_sn) /\ transmit_sn \in Bit
      BY <2>1, <3>1 DEF ReceivePacket, Observe, IInv, TypeOK
    <3> QED BY <3>2 DEF Flip, Bit
  <2>2. ~\E heard \in BOOLEAN : RadioSends(heard)
    BY DEF RadioSends, txVars
  <2>3. ~\E in_time, resources \in BOOLEAN : TxDone(in_time, resources)
    BY CompleteKeeps DEF TxDone, IInv, TypeOK, Inflight
  <2>4. ~AbortTransmit
    BY DEF AbortTransmit
  <2>5. ~\E d \in late : LateTxDone(d)
    BY CompleteKeeps DEF LateTxDone, IInv, TypeOK
  <2>6. ~CloseEvent
    BY DEF CloseEvent, txVars
  <2> QED BY <2>1, <2>2, <2>3, <2>4, <2>5, <2>6 DEF Next
<1> QED BY <1>1, InductiveInvariant, PTL DEF Spec, OwnerKeptUntilAcked

\* A DMA slot is refilled only while it is empty and neither on air nor
\* outstanding.
THEOREM RefillSafe == Spec => RefillsOnlyFreeSlot
<1> DEFINE Free(s) == /\ slots[s] = None
                      /\ inflight # None => inflight.decision.response_slot # s
                      /\ outstanding' # None => outstanding'.slot # s
<1>1. IInv /\ [Next]_vars =>
        [\A s \in Slot : slots'[s] # None /\ slots'[s] # slots[s] => Free(s)]_vars
  <2> SUFFICES ASSUME IInv, Next, NEW s \in Slot, slots'[s] # None, slots'[s] # slots[s]
               PROVE  Free(s)
    OBVIOUS
  <2>1. ~\E md \in BOOLEAN : ReceivePacket(md)
    BY DEF ReceivePacket, Select, ReleaseOutstanding, HeldSlots, IInv, TypeOK
  <2>2. ~\E heard \in BOOLEAN : RadioSends(heard)
    BY DEF RadioSends, txVars
  <2>3. ASSUME NEW in_time \in BOOLEAN, NEW resources \in BOOLEAN, TxDone(in_time, resources)
        PROVE  Free(s)
    BY <2>3, CompleteKeeps DEF TxDone, IInv, TypeOK, Inflight
  <2>4. ~AbortTransmit
    BY DEF AbortTransmit
  <2>5. ASSUME NEW d \in late, LateTxDone(d) PROVE Free(s)
    BY <2>5, CompleteKeeps DEF LateTxDone, IInv, TypeOK
  <2>6. ~CloseEvent
    BY DEF CloseEvent, txVars
  <2> QED BY <2>1, <2>2, <2>3, <2>4, <2>5, <2>6 DEF Next
<1> QED BY <1>1, InductiveInvariant, PTL DEF Spec, RefillsOnlyFreeSlot
=============================================================================
