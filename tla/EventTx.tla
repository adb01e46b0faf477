------------------------------ MODULE EventTx ------------------------------
(***************************************************************************)
(* The portable ownership policy of a hardware-chained connection event:   *)
(* ConnectionEventTxState and DataSequenceState of ble-controller.  Two    *)
(* DMA slots carry PayloadCount logical payloads; a payload leaves its     *)
(* slot only when the Central's NESN acknowledges it.                      *)
(*                                                                         *)
(* The sequence numbers advance behind acknowledges_transmit_owner, as     *)
(* connection_event of the CH585 backend does it.  DataSequenceState's     *)
(* observe makes the same two assignments without the gate; the two differ *)
(* only while no owner is outstanding, the case SelectNeverFails is about. *)
(*                                                                         *)
(* The environment is the radio (a response may fail, reach the air        *)
(* unheard, or complete with its TX_DONE callback late) and the Central's  *)
(* half of the one-bit ARQ.  The owner token of a payload is a function of *)
(* its payload_id (owner_tokens never changes) and is left out of Token.   *)
(***************************************************************************)
EXTENDS Naturals, Sequences, FiniteSets

CONSTANTS
  PayloadCount,     \* payload_count: Host payloads staged for the event
  CentralPayloads,  \* data PDUs the Central has to send (bounds the model)
  MaxLate,          \* TX_DONE callbacks that may be late at once (bounds the model)
  None              \* the absent value of an Option

Slot == {0, 1}
Bit == {0, 1}
GenerationModulus == 256   \* generations are u8 and wrap
Token == [payload_id : Nat, generation : 0 .. GenerationModulus - 1]
Refill == [slot : Slot, token : Token]
Owner == [slot : Slot, token : Token \cup {None}]
Decision ==
  [response_slot : Slot,
   response_token : Token \cup {None},
   response_is_retry : BOOLEAN,
   acknowledged_response : BOOLEAN,
   acknowledged_token : Token \cup {None},
   refill_after_transmit : Refill \cup {None},
   more_payloads_after_response : BOOLEAN]

\* A radio operation: the response, its header bits, and whether it is on air.
Inflight ==
  [decision : Decision, sn : Bit, nesn : Bit, peer_md : BOOLEAN, on_air : BOOLEAN]

ASSUME CountAssumption == PayloadCount \in Nat /\ CentralPayloads \in Nat /\ MaxLate \in Nat
ASSUME NoneAssumption ==
  /\ None \notin Slot
  /\ None \notin Token
  /\ None \notin Refill
  /\ None \notin Owner
  /\ None \notin Decision
  /\ None \notin Inflight

VARIABLES
  slots,          \* the token staged in each DMA slot
  generations,    \* reuse count of each slot
  outstanding,    \* the transmitted, not yet acknowledged response
  planned,        \* the selected, not yet completed response
  next_payload_id,
  last_released_slot,
  transmit_sn,    \* DataSequenceState
  expected_sn,
  event,          \* "open" once a response of this event has completed
  inflight,       \* the radio operation in progress
  late,           \* decisions whose TX_DONE callback is still to come
  central_sn,     \* the Central's half of the ARQ
  central_nesn,
  central_sent,   \* Central data PDUs that the Peripheral acknowledged
  delivered,      \* payload_ids the Central accepted, in order
  released,       \* payload_ids completed towards the Host, in order
  received        \* Central data PDUs accepted by the Peripheral, in order

txVars == <<slots, generations, outstanding, planned, next_payload_id,
            last_released_slot>>
seqVars == <<transmit_sn, expected_sn>>
centralVars == <<central_sn, central_nesn, central_sent, delivered>>
vars == <<txVars, seqVars, event, inflight, late, centralVars, released,
          received>>

Other(s) == 1 - s

Flip(bit) == 1 - bit
-----------------------------------------------------------------------------
(***************************************************************************)
(* Initial states: from_owner_tokens, and with_empty_retry, which resumes  *)
(* an Empty PDU sent in an earlier event that the Central heard or missed. *)
(***************************************************************************)
FirstToken(p) ==
  IF p < PayloadCount THEN [payload_id |-> p, generation |-> 0] ELSE None

InitCommon ==
  /\ generations = [s \in Slot |-> 0]
  /\ planned = None
  /\ last_released_slot = 0
  /\ transmit_sn = 0 /\ expected_sn = 0
  /\ event = "closed"
  /\ inflight = None /\ late = {}
  /\ central_sn = 0 /\ central_sent = 0
  /\ delivered = << >> /\ released = << >> /\ received = << >>

FromOwnerTokens ==
  /\ slots = [s \in Slot |-> FirstToken(s)]
  /\ next_payload_id = IF PayloadCount > 1 THEN 2 ELSE PayloadCount
  /\ outstanding = None
  /\ central_nesn = 0

WithEmptyRetry ==
  /\ slots = [s \in Slot |-> IF s = 0 THEN None ELSE FirstToken(0)]
  /\ next_payload_id = IF PayloadCount > 0 THEN 1 ELSE 0
  /\ outstanding = [slot |-> 0, token |-> None]
  /\ central_nesn \in Bit

Init == InitCommon /\ (FromOwnerTokens \/ WithEmptyRetry)
-----------------------------------------------------------------------------
(***************************************************************************)
(* preview_select and select.                                              *)
(***************************************************************************)
\* Mutant of StagedSlot: the highest payload_id first.
StagedSlotHighest(sl) ==
  IF sl[1] # None /\ (sl[0] = None \/ sl[1].payload_id > sl[0].payload_id)
  THEN 1
  ELSE IF sl[0] # None THEN 0 ELSE None

\* The slot that holds the lowest staged payload_id.
StagedSlot(sl) ==
  IF sl[1] # None /\ (sl[0] = None \/ sl[1].payload_id < sl[0].payload_id)
  THEN 1
  ELSE IF sl[0] # None THEN 0 ELSE None

RetryDecision ==
  [response_slot |-> outstanding.slot,
   response_token |-> outstanding.token,
   response_is_retry |-> TRUE,
   acknowledged_response |-> FALSE,
   acknowledged_token |-> None,
   refill_after_transmit |-> None,
   more_payloads_after_response |->
     \/ slots[Other(outstanding.slot)] # None
     \/ next_payload_id < PayloadCount]

\* The slots left once an acknowledgement has released the outstanding one.
HeldSlots(ack) ==
  IF ack THEN [slots EXCEPT ![outstanding.slot] = None] ELSE slots

ResponseSlot(ack) ==
  LET staged == StagedSlot(HeldSlots(ack))
  IN  IF staged # None THEN staged
      ELSE IF ack THEN outstanding.slot ELSE last_released_slot

\* The released slot, or else the empty one the response does not use.
RefillAfter(ack) ==
  LET free == IF ack THEN outstanding.slot ELSE Other(ResponseSlot(ack))
  IN  IF HeldSlots(ack)[free] = None /\ next_payload_id < PayloadCount
      THEN [slot |-> free,
            token |-> [payload_id |-> next_payload_id,
                       generation |-> (generations[free] + 1) % GenerationModulus]]
      ELSE None

\* Mutant of FreshDecision: the payloads not staged yet are forgotten.
FreshDecisionForgetsUnstaged(ack) ==
  [response_slot |-> ResponseSlot(ack),
   response_token |-> HeldSlots(ack)[ResponseSlot(ack)],
   response_is_retry |-> FALSE,
   acknowledged_response |-> ack,
   acknowledged_token |-> IF ack THEN outstanding.token ELSE None,
   refill_after_transmit |-> RefillAfter(ack),
   more_payloads_after_response |-> HeldSlots(ack)[Other(ResponseSlot(ack))] # None]

FreshDecision(ack) ==
  [response_slot |-> ResponseSlot(ack),
   response_token |-> HeldSlots(ack)[ResponseSlot(ack)],
   response_is_retry |-> FALSE,
   acknowledged_response |-> ack,
   acknowledged_token |-> IF ack THEN outstanding.token ELSE None,
   refill_after_transmit |-> RefillAfter(ack),
   more_payloads_after_response |->
     \/ HeldSlots(ack)[Other(ResponseSlot(ack))] # None
     \/ RefillAfter(ack) # None
     \/ next_payload_id < PayloadCount]

SelectError(ack) == planned # None \/ (ack /\ outstanding = None)

PreviewSelect(ack) ==
  IF outstanding # None /\ ~ack THEN RetryDecision ELSE FreshDecision(ack)

\* Mutant of AcknowledgesOwner: the ungated comparison of NESN with SN.
AcknowledgesBySnAlone == central_nesn # transmit_sn

\* A packet heard before this event's first response acknowledges only an
\* owner carried into the event; a follow-RX also the fresh response.
AcknowledgesOwner ==
  /\ outstanding # None \/ event = "open"
  /\ central_nesn # transmit_sn

ReleaseOutstanding(ack) ==
  /\ slots' = HeldSlots(ack)
  /\ outstanding' = IF ack THEN None ELSE outstanding
  /\ last_released_slot' = IF ack THEN outstanding.slot ELSE last_released_slot

Select(ack) ==
  /\ ~SelectError(ack)
  /\ planned' = PreviewSelect(ack)
  /\ ReleaseOutstanding(ack)
  /\ released' = IF ack /\ outstanding.token # None
                 THEN Append(released, outstanding.token.payload_id)
                 ELSE released
  /\ UNCHANGED <<generations, next_payload_id>>

\* Mutant of Observe: a packet is accepted whatever its SN.
ObserveAcceptsDuplicate(ack) ==
  /\ transmit_sn' = IF ack THEN Flip(transmit_sn) ELSE transmit_sn
  /\ expected_sn' = Flip(central_sn)
  /\ received' = IF central_sent < CentralPayloads
                 THEN Append(received, central_sent) ELSE received

\* The packet's SN/NESN commit behind the gate; a data PDU with the expected
\* SN is delivered.
Observe(ack) ==
  /\ transmit_sn' = IF ack THEN Flip(transmit_sn) ELSE transmit_sn
  /\ IF central_sn = expected_sn
     THEN /\ expected_sn' = Flip(expected_sn)
          /\ received' = IF central_sent < CentralPayloads
                         THEN Append(received, central_sent) ELSE received
     ELSE UNCHANGED <<expected_sn, received>>

(***************************************************************************)
(* The Central's packet arrives with a valid CRC and the response to it is *)
(* selected within the inter-frame space.  The burst backend that makes    *)
(* these calls is not part of the snapshot.                                *)
(***************************************************************************)
ReceivePacket(peer_more_data) ==
  LET ack == AcknowledgesOwner
  IN  /\ inflight = None
      /\ Observe(ack)
      /\ Select(ack)
      /\ inflight' = [decision |-> planned', sn |-> transmit_sn',
                      nesn |-> expected_sn', peer_md |-> peer_more_data,
                      on_air |-> FALSE]
      /\ UNCHANGED <<event, late, centralVars>>

(***************************************************************************)
(* The radio sends the response; the Central hears it or not.              *)
(***************************************************************************)
CentralHears ==
  /\ IF inflight.sn = central_nesn
     THEN /\ central_nesn' = Flip(central_nesn)
          /\ delivered' = IF inflight.decision.response_token = None
                          THEN delivered
                          ELSE Append(delivered,
                                 inflight.decision.response_token.payload_id)
     ELSE UNCHANGED <<central_nesn, delivered>>
  /\ IF inflight.nesn # central_sn
     THEN /\ central_sn' = Flip(central_sn)
          /\ central_sent' = IF central_sent < CentralPayloads
                             THEN central_sent + 1 ELSE central_sent
     ELSE UNCHANGED <<central_sn, central_sent>>

RadioSends(heard) ==
  /\ inflight # None /\ ~inflight.on_air
  /\ inflight' = [inflight EXCEPT !.on_air = TRUE]
  /\ IF heard THEN CentralHears ELSE UNCHANGED centralVars
  /\ UNCHANGED <<txVars, seqVars, event, late, released, received>>
-----------------------------------------------------------------------------
(***************************************************************************)
(* complete_transmit, abort_transmit and their callers.                    *)
(***************************************************************************)
\* complete_transmit accepts d: d equals the plan, and its refill is still
\* the next payload for an empty slot.
CompletionOk(d) ==
  /\ planned = d
  /\ outstanding # None =>
       /\ outstanding.slot = d.response_slot
       /\ outstanding.token = d.response_token
  /\ d.refill_after_transmit # None =>
       LET refill == d.refill_after_transmit
       IN  /\ slots[refill.slot] = None
           /\ refill.token.payload_id = next_payload_id
           /\ refill.token.generation =
                (generations[refill.slot] + 1) % GenerationModulus

\* Mutant of CommitTransmit: the refill is not written.
CommitForgetsRefill(d) ==
  /\ planned' = None
  /\ outstanding' = [slot |-> d.response_slot, token |-> d.response_token]
  /\ UNCHANGED <<slots, generations, next_payload_id>>

CommitTransmit(d) ==
  /\ planned' = None
  /\ outstanding' = [slot |-> d.response_slot, token |-> d.response_token]
  /\ IF d.refill_after_transmit # None
     THEN LET refill == d.refill_after_transmit
          IN  /\ slots' = [slots EXCEPT ![refill.slot] = refill.token]
              /\ generations' = [generations EXCEPT
                                   ![refill.slot] = refill.token.generation]
              /\ next_payload_id' = next_payload_id + 1
     ELSE UNCHANGED <<slots, generations, next_payload_id>>

CompleteTransmit(d) ==
  /\ IF CompletionOk(d)
     THEN CommitTransmit(d)
     ELSE UNCHANGED <<slots, generations, outstanding, planned, next_payload_id>>
  /\ UNCHANGED last_released_slot

\* response_advertises_more_data with require_final_ack.
ResponseMd(d, resources) ==
  /\ resources
  /\ \/ d.more_payloads_after_response
     \/ d.response_token # None /\ ~d.response_is_retry

\* connection_event_decision: either side's MD keeps the event open while
\* its deadline and the backend's resources allow.
MayContinue(op, before_deadline, resources) ==
  /\ before_deadline
  /\ ResponseMd(op.decision, resources) \/ op.peer_md
  /\ resources

TxDone(before_deadline, resources) ==
  /\ inflight # None /\ inflight.on_air
  /\ CompleteTransmit(inflight.decision)
  /\ event' = IF MayContinue(inflight, before_deadline, resources)
              THEN "open" ELSE "closed"
  /\ inflight' = None
  /\ UNCHANGED <<seqVars, late, centralVars, released, received>>

\* The response failed (settle or TX timeout): the event is closed and the
\* plan withdrawn.  A response that did reach the air owes a late callback.
AbortTransmit ==
  /\ inflight # None
  /\ planned' = IF planned = inflight.decision THEN None ELSE planned
  /\ inflight.on_air => Cardinality(late) < MaxLate
  /\ late' = IF inflight.on_air THEN late \cup {inflight.decision} ELSE late
  /\ inflight' = None
  /\ event' = "closed"
  /\ UNCHANGED <<slots, generations, outstanding, next_payload_id,
                 last_released_slot, seqVars, centralVars, released, received>>

LateTxDone(d) ==
  /\ late' = late \ {d}
  /\ CompleteTransmit(d)
  /\ UNCHANGED <<seqVars, event, inflight, centralVars, released, received>>

\* The follow-RX times out, or hears a packet with a bad CRC or MIC.
CloseEvent ==
  /\ event = "open" /\ inflight = None
  /\ event' = "closed"
  /\ UNCHANGED <<txVars, seqVars, inflight, late, centralVars, released, received>>

Next ==
  \/ \E md \in BOOLEAN : ReceivePacket(md)
  \/ \E heard \in BOOLEAN : RadioSends(heard)
  \/ \E in_time, resources \in BOOLEAN : TxDone(in_time, resources)
  \/ AbortTransmit
  \/ \E d \in late : LateTxDone(d)
  \/ CloseEvent

Spec == Init /\ [][Next]_vars

\* Packets keep arriving, and neither the air nor the radio fails forever.
Fairness ==
  /\ WF_vars(\E md \in BOOLEAN : ReceivePacket(md))
  /\ SF_vars(RadioSends(TRUE))
  /\ SF_vars(\E in_time, resources \in BOOLEAN : TxDone(in_time, resources))

FairSpec == Spec /\ Fairness
-----------------------------------------------------------------------------
\* Type invariant.
TypeOK ==
  /\ slots \in [Slot -> Token \cup {None}]
  /\ generations \in [Slot -> 0 .. GenerationModulus - 1]
  /\ outstanding \in Owner \cup {None}
  /\ planned \in Decision \cup {None}
  /\ next_payload_id \in Nat
  /\ last_released_slot \in Slot
  /\ transmit_sn \in Bit /\ expected_sn \in Bit
  /\ event \in {"open", "closed"}
  /\ inflight \in Inflight \cup {None}
  /\ late \in SUBSET Decision
  /\ central_sn \in Bit /\ central_nesn \in Bit
  /\ central_sent \in Nat
  /\ delivered \in Seq(Nat) /\ released \in Seq(Nat) /\ received \in Seq(Nat)

Counts(log) == \A i \in 1 .. Len(log) : log[i] = i - 1

\* Host payloads reach the Central once each and in order, whatever is lost,
\* aborted or completed late; a payload is completed towards the Host (its
\* slot released by select) only after the Central accepted it.
PayloadsExactlyOnce ==
  /\ Counts(delivered) /\ Counts(released)
  /\ Len(released) <= Len(delivered)
  /\ Len(delivered) <= Len(released) + 1

\* The Peripheral accepts each Central data PDU once and in order, and the
\* Central moves on only when observe has accepted the PDU.
CentralDataExactlyOnce ==
  /\ Counts(received)
  /\ central_sent <= Len(received)
  /\ Len(received) <= central_sent + 1

\* With the owner gate of acknowledges_transmit_owner no packet can make
\* select fail with AckWithoutOutstandingResponse or ResponsePlanAlreadyPending.
SelectNeverFails == inflight = None => ~SelectError(AcknowledgesOwner)

\* The response's more_payloads flag is exact: set if and only if a payload
\* other than the response is still to be delivered (it drives MD).
MoreDataPromiseExact ==
  inflight # None =>
    LET d == inflight.decision
        settled == IF d.response_token = None THEN Len(released)
                   ELSE d.response_token.payload_id + 1
    IN  d.more_payloads_after_response <=> settled < PayloadCount

\* A refill is written only into an empty slot that neither the radio
\* operation in progress nor the unacknowledged owner uses.
RefillsOnlyFreeSlot ==
  [][\A s \in Slot :
       slots'[s] # None /\ slots'[s] # slots[s] =>
         /\ slots[s] = None
         /\ inflight # None => inflight.decision.response_slot # s
         /\ outstanding' # None => outstanding'.slot # s]_vars

\* An owner leaves `outstanding` only on the packet that acknowledges it: an
\* abort, a retry or a late TX_DONE keeps slot and token.
OwnerKeptUntilAcked ==
  [][outstanding # None /\ outstanding' # outstanding =>
       transmit_sn' # transmit_sn]_vars

\* Every staged payload is eventually completed towards the Host.
AllPayloadsReleased == <>[](Len(released) = PayloadCount)

\* What abort_transmit's comment promises: the late TX_DONE of an aborted
\* response commits no owner and no refill.
LateTxDoneCommitsNothing ==
  [][\A d \in late \ late' : UNCHANGED <<slots, outstanding>>]_vars
=============================================================================
