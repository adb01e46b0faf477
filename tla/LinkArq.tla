------------------------------ MODULE LinkArq ------------------------------
(***************************************************************************)
(* The data plane of one connection in the CH585 backend: the ACL queue    *)
(* and its credits, the transmit frame with its owner, and the one-bit     *)
(* sequence numbers of connection_event, against a radio that loses        *)
(* packets in both directions and a Central that retransmits.              *)
(*                                                                         *)
(* ACL packets carry the number the Host gave them.  Control PDUs are      *)
(* numbered too; what they say is the subject of module Connection.  The   *)
(* response's SN and NESN are fixed before the Central's packet of the     *)
(* same event is received.  The source never fills priority_control, so    *)
(* control PDUs leave in the order of the one control queue.               *)
(***************************************************************************)
EXTENDS Integers, Sequences

CONSTANTS
  Credits,          \* ACL_CREDITS
  QueueCapacity,    \* ACL_QUEUE_CAPACITY: slots behind `pending`
  HostPackets,      \* ACL packets the Host sends (bounds the model)
  ControlPdus,      \* control PDUs the backend queues (bounds the model)
  CentralPackets,   \* data PDUs the Central sends (bounds the model)
  None              \* the absent value of an Option

ASSUME CreditsAssumption ==
  /\ QueueCapacity \in Nat \ {0}
  /\ Credits \in 1 .. QueueCapacity + 1
ASSUME BoundsAssumption ==
  HostPackets \in Nat /\ ControlPdus \in Nat /\ CentralPackets \in Nat

QueueSlots == 0 .. QueueCapacity - 1
Bit == {0, 1}
Owners == {"Control", "Acl", "Empty"}
Frame == [owner : Owners, id : Nat \cup {None}]

ASSUME NoneAssumption == None \notin Nat /\ None \notin Frame

VARIABLES
  submitted,         \* Host: packets handed to the transport
  completed,         \* Host: credits received back
  hci,               \* HOST_TO_CONTROLLER, capacity 1
  pending,           \* the ACL packet to send next
  queued_acl,        \* the packets behind it
  released,          \* completed_acl events sent to the Host
  control_queued,    \* control PDUs queued so far
  pending_control,
  queued_control,
  frame,             \* tx_frame and `transmitted`: None when nothing is staged
  fresh,             \* tx_frame_fresh: not yet confirmed on air
  transmit_sn,
  expected_sn,
  received,          \* Central data passed to the Host, in order
  central_sn,
  central_nesn,
  central_sent,      \* Central data the Peripheral has acknowledged
  delivered,         \* ACL packets the Central accepted, in order
  control_delivered  \* control PDUs the Central accepted, in order

hostVars == <<submitted, completed, hci>>
aclVars == <<pending, queued_acl, released>>
controlVars == <<control_queued, pending_control, queued_control>>
txVars == <<frame, fresh, transmit_sn>>
rxVars == <<expected_sn, received>>
centralVars == <<central_sn, central_nesn, central_sent, delivered, control_delivered>>
vars == <<hostVars, aclVars, controlVars, txVars, rxVars, centralVars>>

Flip(bit) == 1 - bit

Init ==
  /\ submitted = 0 /\ completed = 0 /\ hci = None
  /\ pending = None /\ queued_acl = [k \in QueueSlots |-> None] /\ released = 0
  /\ control_queued = 0 /\ pending_control = None /\ queued_control = None
  /\ frame = None /\ fresh = FALSE
  /\ transmit_sn = 0 /\ expected_sn = 0 /\ received = << >>
  /\ central_sn = 0 /\ central_nesn = 0 /\ central_sent = 0
  /\ delivered = << >> /\ control_delivered = << >>
-----------------------------------------------------------------------------
(***************************************************************************)
(* The Host and the backend's queues.                                      *)
(***************************************************************************)
\* The Host sends only with a credit in hand, one packet in the transport.
HostSends ==
  /\ submitted < HostPackets
  /\ submitted - completed < Credits
  /\ hci = None
  /\ hci' = submitted
  /\ submitted' = submitted + 1
  /\ UNCHANGED <<completed, aclVars, controlVars, txVars, rxVars, centralVars>>

HostReadsCompletion ==
  /\ completed < released
  /\ completed' = completed + 1
  /\ UNCHANGED <<submitted, hci, aclVars, controlVars, txVars, rxVars, centralVars>>

FreeSlots == {k \in QueueSlots : queued_acl[k] = None}

\* Mutant of QueueAcl: the free slot found is the last one.
QueueAclLastSlot ==
  /\ hci # None
  /\ IF pending = None
     THEN pending' = hci /\ UNCHANGED queued_acl
     ELSE /\ UNCHANGED pending
          /\ queued_acl' = [k \in QueueSlots |->
               IF k \in FreeSlots /\ \A j \in FreeSlots : j <= k THEN hci ELSE queued_acl[k]]
  /\ hci' = None
  /\ UNCHANGED <<submitted, completed, released, controlVars, txVars, rxVars, centralVars>>

\* queue_acl: `pending` if it is free, else the first free slot behind it,
\* else the packet is dropped without a word to the Host.
QueueAcl ==
  /\ hci # None
  /\ IF pending = None
     THEN pending' = hci /\ UNCHANGED queued_acl
     ELSE /\ UNCHANGED pending
          /\ queued_acl' = [k \in QueueSlots |->
               IF k \in FreeSlots /\ \A j \in FreeSlots : k <= j THEN hci ELSE queued_acl[k]]
  /\ hci' = None
  /\ UNCHANGED <<submitted, completed, released, controlVars, txVars, rxVars, centralVars>>

QueueControl ==
  /\ control_queued < ControlPdus
  /\ pending_control = None \/ queued_control = None
  /\ IF pending_control = None
     THEN pending_control' = control_queued /\ UNCHANGED queued_control
     ELSE queued_control' = control_queued /\ UNCHANGED pending_control
  /\ control_queued' = control_queued + 1
  /\ UNCHANGED <<hostVars, aclVars, txVars, rxVars, centralVars>>
-----------------------------------------------------------------------------
(***************************************************************************)
(* connection_event.                                                       *)
(***************************************************************************)
\* Mutant of StagedFrame: a waiting control PDU replaces an unacknowledged frame.
StagedFrameControlFirst ==
  IF pending_control # None THEN [owner |-> "Control", id |-> pending_control]
  ELSE IF frame # None THEN frame
  ELSE IF pending # None THEN [owner |-> "Acl", id |-> pending]
  ELSE [owner |-> "Empty", id |-> None]

\* The unacknowledged frame, or else a new one: control before ACL.
StagedFrame ==
  IF frame # None THEN frame
  ELSE IF pending_control # None THEN [owner |-> "Control", id |-> pending_control]
  ELSE IF pending # None THEN [owner |-> "Acl", id |-> pending]
  ELSE [owner |-> "Empty", id |-> None]

StagedFresh == frame = None \/ fresh

\* Mutant of Acknowledged: any packet after the transmission counts.
AcknowledgedByAnyPacket == ~StagedFresh

\* The packet's NESN acknowledges an owner carried into the event.
Acknowledged == ~StagedFresh /\ central_nesn # transmit_sn

\* Mutant of ReleaseOwner: the slots behind `pending` do not move up.
ReleaseOwnerWithoutShift ==
  /\ IF StagedFrame.owner = "Control"
     THEN pending_control' = queued_control /\ queued_control' = None
     ELSE UNCHANGED <<pending_control, queued_control>>
  /\ IF StagedFrame.owner = "Acl"
     THEN pending' = queued_acl[0] /\ released' = released + 1 /\ UNCHANGED queued_acl
     ELSE UNCHANGED aclVars
  /\ frame' = None /\ fresh' = FALSE
  /\ transmit_sn' = Flip(transmit_sn)
  /\ UNCHANGED control_queued

\* The owner of the acknowledged frame leaves its queue.
ReleaseOwner ==
  /\ IF StagedFrame.owner = "Control"
     THEN pending_control' = queued_control /\ queued_control' = None
     ELSE UNCHANGED <<pending_control, queued_control>>
  /\ IF StagedFrame.owner = "Acl"
     THEN /\ pending' = queued_acl[0]
          /\ queued_acl' = [k \in QueueSlots |->
                              IF k + 1 \in QueueSlots THEN queued_acl[k + 1] ELSE None]
          /\ released' = released + 1
     ELSE UNCHANGED aclVars
  /\ frame' = None /\ fresh' = FALSE
  /\ transmit_sn' = Flip(transmit_sn)
  /\ UNCHANGED control_queued

\* Mutant of KeepOwner: a confirmed transmission leaves the frame fresh.
KeepOwnerStaysFresh(transmitted) ==
  /\ frame' = StagedFrame
  /\ fresh' = StagedFresh
  /\ UNCHANGED <<aclVars, controlVars, transmit_sn>>

\* The frame stays staged; its confirmed transmission makes it outstanding.
KeepOwner(transmitted) ==
  /\ frame' = StagedFrame
  /\ fresh' = (StagedFresh /\ ~transmitted)
  /\ UNCHANGED <<aclVars, controlVars, transmit_sn>>

\* A packet with the expected SN is new; has_data if it is not empty.
AcceptData(has_data) ==
  IF central_sn = expected_sn
  THEN /\ expected_sn' = Flip(expected_sn)
       /\ received' = IF has_data THEN Append(received, central_sent) ELSE received
  ELSE UNCHANGED rxVars

\* The Central hears the response, whose header was staged before its own
\* packet was received.
CentralHears(has_data) ==
  /\ IF transmit_sn = central_nesn
     THEN /\ central_nesn' = Flip(central_nesn)
          /\ delivered' = IF StagedFrame.owner = "Acl"
                          THEN Append(delivered, StagedFrame.id) ELSE delivered
          /\ control_delivered' = IF StagedFrame.owner = "Control"
                                  THEN Append(control_delivered, StagedFrame.id)
                                  ELSE control_delivered
     ELSE UNCHANGED <<central_nesn, delivered, control_delivered>>
  /\ IF expected_sn # central_sn
     THEN /\ central_sn' = Flip(central_sn)
          /\ central_sent' = IF has_data THEN central_sent + 1 ELSE central_sent
     ELSE UNCHANGED <<central_sn, central_sent>>

CentralMayHear(hears, has_data) ==
  IF hears THEN CentralHears(has_data) ELSE UNCHANGED centralVars

\* The Central repeats a data packet until it is acknowledged, then an empty one.
CentralHasData == central_sent < CentralPackets

\* No packet is received in the window: the staged frame is not sent.
MissedEvent ==
  /\ KeepOwner(FALSE)
  /\ UNCHANGED <<hostVars, rxVars, centralVars>>

\* A packet is received and refused for its CRC, length or LLID.
RefusedEvent(transmitted, hears) ==
  /\ KeepOwner(transmitted)
  /\ CentralMayHear(hears, CentralHasData)
  /\ UNCHANGED <<hostVars, rxVars>>

\* A valid packet is received.  `transmitted` is what the radio could confirm
\* of the response; the Central may have heard one that was not confirmed.
ReceivedEvent(transmitted, hears) ==
  /\ IF Acknowledged THEN ReleaseOwner ELSE KeepOwner(transmitted)
  /\ AcceptData(CentralHasData)
  /\ CentralMayHear(hears, CentralHasData)
  /\ UNCHANGED hostVars

Next ==
  \/ HostSends
  \/ HostReadsCompletion
  \/ QueueAcl
  \/ QueueControl
  \/ MissedEvent
  \/ \E transmitted, hears \in BOOLEAN : RefusedEvent(transmitted, hears)
  \/ \E transmitted, hears \in BOOLEAN : ReceivedEvent(transmitted, hears)

Spec == Init /\ [][Next]_vars

\* The runner drains the transport and the Host reads its events; the air
\* lets some exchanges through in both directions.
Fairness ==
  /\ WF_vars(HostSends) /\ WF_vars(HostReadsCompletion) /\ WF_vars(QueueAcl)
  /\ SF_vars(ReceivedEvent(TRUE, TRUE))

FairSpec == Spec /\ Fairness
-----------------------------------------------------------------------------
\* Type invariant.
TypeOK ==
  /\ submitted \in Nat /\ completed \in Nat /\ released \in Nat
  /\ hci \in Nat \cup {None} /\ pending \in Nat \cup {None}
  /\ queued_acl \in [QueueSlots -> Nat \cup {None}]
  /\ control_queued \in Nat
  /\ pending_control \in Nat \cup {None} /\ queued_control \in Nat \cup {None}
  /\ frame \in Frame \cup {None} /\ fresh \in BOOLEAN
  /\ transmit_sn \in Bit /\ expected_sn \in Bit
  /\ central_sn \in Bit /\ central_nesn \in Bit
  /\ central_sent \in Nat /\ received \in Seq(Nat)
  /\ delivered \in Seq(Nat) /\ control_delivered \in Seq(Nat)

Counts(log) == \A i \in 1 .. Len(log) : log[i] = i - 1

\* The detailed data plane implements the abstract channel: in order, exactly
\* once, credits only for delivered packets.
Channel ==
  INSTANCE AclChannel WITH Credits <- Credits, submitted <- submitted,
                           delivered <- delivered, completed <- completed
ChannelSpec == Channel!Spec

\* queue_acl never has to drop a packet of a Host that respects the five
\* credits, although slots are freed and credits read at different times.
NoAclDropped == hci # None => pending = None \/ FreeSlots # {}

\* Control PDUs reach the Central once each and in the order queued, and a
\* PDU leaves the queue only after the Central accepted it.
ControlExactlyOnce ==
  /\ Counts(control_delivered)
  /\ \A n \in 0 .. control_queued - 1 :
       n < Len(control_delivered) \/ n \in {pending_control, queued_control}

\* New Central data is passed to the Host once and in order although every
\* acknowledgement is an event late, so every packet is heard twice.
CentralDataOnce ==
  /\ Counts(received)
  /\ central_sent <= Len(received) /\ Len(received) <= central_sent + 1

\* A sequence number that may have been on air is never reused for another
\* frame: the staged frame changes only with transmit_sn.
FrameKeepsSequenceNumber ==
  [][frame # None /\ frame' # frame => transmit_sn' # transmit_sn]_vars

\* Every packet the Host wants to send is delivered and its credit returned.
AllCreditsReturned == <>[](completed = HostPackets)
=============================================================================
