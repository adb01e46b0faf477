--------------------------- MODULE LinkArqProofs ---------------------------
(***************************************************************************)
(* Proofs about the data plane of module LinkArq, for every number of      *)
(* credits, queue slots and packets.  The invariant says what each queue   *)
(* holds in terms of three counters: packets submitted by the Host,        *)
(* packets released and PDUs accepted by the Central.                      *)
(***************************************************************************)
EXTENDS LinkArq, TLAPS

-----------------------------------------------------------------------------
(***************************************************************************)
(* The inductive invariant.                                                *)
(***************************************************************************)
\* Packets that have left the transport.
Accepted == IF hci = None THEN submitted ELSE submitted - 1

\* What the slot for packet n holds.
Packet(n) == IF n < Accepted THEN n ELSE None

\* The Central has accepted the staged frame, the Peripheral does not know.
InFlight == central_nesn # transmit_sn

\* The Host's counters: it never has more packets out than credits.
HostInv ==
  /\ completed <= released /\ released <= Accepted
  /\ submitted <= completed + Credits
  /\ hci # None => submitted > 0 /\ hci = submitted - 1

\* The queue holds the packets between released and Accepted, without gaps.
QueueInv ==
  /\ pending = Packet(released)
  /\ \A k \in QueueSlots : queued_acl[k] = Packet(released + 1 + k)

\* A staged frame is the head of its queue.
FrameInv ==
  /\ InFlight => frame # None
  /\ frame # None =>
       /\ frame.owner = "Acl" => pending # None /\ frame.id = pending
       /\ frame.owner = "Control" => pending_control # None /\ frame.id = pending_control

\* The Central has the released packets, and the one in flight.
AclInv ==
  /\ Counts(delivered)
  /\ Len(delivered) = IF InFlight /\ frame.owner = "Acl" THEN released + 1 ELSE released

\* Control PDUs the Peripheral has released.
ControlReleased ==
  IF InFlight /\ frame.owner = "Control" THEN Len(control_delivered) - 1
  ELSE Len(control_delivered)

ControlInv ==
  /\ Counts(control_delivered)
  /\ ControlReleased >= 0 /\ ControlReleased <= control_queued
  /\ control_queued <= ControlReleased + 2
  /\ pending_control = IF ControlReleased < control_queued THEN ControlReleased ELSE None
  /\ queued_control = IF ControlReleased + 1 < control_queued
                      THEN ControlReleased + 1 ELSE None

\* The Host has what the Central knows to be received, and the packet whose
\* acknowledgement the Central has not heard.
RxInv ==
  /\ Counts(received)
  /\ Len(received) = IF central_sn # expected_sn /\ CentralHasData
                     THEN central_sent + 1 ELSE central_sent

IInv == TypeOK /\ HostInv /\ QueueInv /\ FrameInv /\ AclInv /\ ControlInv /\ RxInv
-----------------------------------------------------------------------------
(***************************************************************************)
(* The steps of connection_event, by what they do to the queues.           *)
(***************************************************************************)
\* The acknowledged owner leaves; the Central sees at most a repeat.
Releases ==
  /\ frame # None /\ InFlight
  /\ ReleaseOwner
  /\ UNCHANGED <<central_nesn, delivered, control_delivered>>

\* The frame stays and the Central accepts it.
Delivers ==
  /\ ~InFlight
  /\ frame' = StagedFrame
  /\ central_nesn' = Flip(central_nesn)
  /\ delivered' = IF StagedFrame.owner = "Acl"
                  THEN Append(delivered, StagedFrame.id) ELSE delivered
  /\ control_delivered' = IF StagedFrame.owner = "Control"
                          THEN Append(control_delivered, StagedFrame.id)
                          ELSE control_delivered
  /\ UNCHANGED <<aclVars, controlVars, transmit_sn>>

\* The frame stays and the Central learns nothing new of it.
Repeats ==
  /\ frame' = StagedFrame
  /\ UNCHANGED <<aclVars, controlVars, transmit_sn>>
  /\ UNCHANGED <<central_nesn, delivered, control_delivered>>

\* New data is passed to the Host; the Central's counters stay.
Accepts ==
  /\ central_sn = expected_sn
  /\ expected_sn' = Flip(expected_sn)
  /\ received' = IF CentralHasData THEN Append(received, central_sent) ELSE received
  /\ UNCHANGED <<central_sn, central_sent>>

\* The Central hears that its packet was received.
Confirms ==
  /\ central_sn # expected_sn
  /\ central_sn' = Flip(central_sn)
  /\ central_sent' = IF CentralHasData THEN central_sent + 1 ELSE central_sent
  /\ UNCHANGED rxVars

TxStep == Releases \/ Delivers \/ Repeats
RxStep == Accepts \/ Confirms \/ UNCHANGED <<rxVars, central_sn, central_sent>>

Event ==
  \/ MissedEvent
  \/ \E transmitted, hears \in BOOLEAN : RefusedEvent(transmitted, hears)
  \/ \E transmitted, hears \in BOOLEAN : ReceivedEvent(transmitted, hears)

\* What the Host's counters leave alone.
EventStep == TxStep /\ RxStep /\ UNCHANGED hostVars /\ fresh' \in BOOLEAN

LEMMA EventIsStep == TypeOK /\ FrameInv /\ Event => EventStep
<1> SUFFICES ASSUME TypeOK, FrameInv, Event PROVE EventStep
  OBVIOUS
<1> USE DEF InFlight, KeepOwner, TxStep, RxStep, EventStep
<1>0. fresh \in BOOLEAN /\ StagedFresh \in BOOLEAN
  BY DEF TypeOK, StagedFresh
<1>1. CASE MissedEvent
  <2>1. Repeats /\ UNCHANGED <<rxVars, central_sn, central_sent>> /\ UNCHANGED hostVars
    BY <1>1 DEF MissedEvent, Repeats, centralVars
  <2>2. fresh' \in BOOLEAN
    BY <1>1, <1>0 DEF MissedEvent
  <2> QED BY <2>1, <2>2
<1>2. ASSUME NEW transmitted \in BOOLEAN, NEW hears \in BOOLEAN,
             KeepOwner(transmitted), CentralMayHear(hears, CentralHasData)
      PROVE /\ Repeats \/ Delivers
            /\ fresh' \in BOOLEAN
  <2>1. fresh' \in BOOLEAN
    BY <1>2, <1>0
  <2>2. CASE hears /\ transmit_sn = central_nesn
    <3>1. Delivers
      BY <1>2, <2>2 DEF CentralMayHear, CentralHears, Delivers
    <3> QED BY <3>1, <2>1
  <2>3. CASE ~(hears /\ transmit_sn = central_nesn)
    <3>1. Repeats
      BY <1>2, <2>3 DEF CentralMayHear, CentralHears, Repeats, centralVars
    <3> QED BY <3>1, <2>1
  <2> QED BY <2>2, <2>3
<1>3. ASSUME NEW hears \in BOOLEAN, CentralMayHear(hears, CentralHasData)
      PROVE \/ UNCHANGED <<central_sn, central_sent>>
            \/ /\ central_sn # expected_sn
               /\ central_sn' = Flip(central_sn)
               /\ central_sent' = IF CentralHasData THEN central_sent + 1 ELSE central_sent
  BY <1>3 DEF CentralMayHear, CentralHears, centralVars
<1>4. ASSUME NEW transmitted \in BOOLEAN, NEW hears \in BOOLEAN,
             RefusedEvent(transmitted, hears)
      PROVE EventStep
  <2>1. (Repeats \/ Delivers) /\ fresh' \in BOOLEAN
    BY <1>4, <1>2 DEF RefusedEvent
  <2>2. RxStep
    BY <1>4, <1>3 DEF RefusedEvent, Confirms
  <2> QED BY <2>1, <2>2, <1>4 DEF RefusedEvent
<1>5. ASSUME NEW transmitted \in BOOLEAN, NEW hears \in BOOLEAN,
             ReceivedEvent(transmitted, hears)
      PROVE EventStep
  <2>1. TxStep /\ fresh' \in BOOLEAN
    <3>1. CASE Acknowledged
      <4>1. frame # None /\ central_nesn # transmit_sn
        BY <3>1 DEF Acknowledged, StagedFresh
      <4>2. ReleaseOwner
        BY <3>1, <1>5 DEF ReceivedEvent
      <4>3. UNCHANGED <<central_nesn, delivered, control_delivered>>
        BY <4>1, <1>5 DEF ReceivedEvent, CentralMayHear, CentralHears, centralVars
      <4>4. fresh' \in BOOLEAN
        BY <4>2 DEF ReleaseOwner
      <4> QED BY <4>1, <4>2, <4>3, <4>4 DEF Releases
    <3>2. CASE ~Acknowledged
      BY <3>2, <1>5, <1>2 DEF ReceivedEvent
    <3> QED BY <3>1, <3>2
  <2>2. RxStep
    <3>1. AcceptData(CentralHasData) /\ CentralMayHear(hears, CentralHasData)
      BY <1>5 DEF ReceivedEvent
    <3>2. CASE central_sn = expected_sn
      BY <3>1, <3>2, <1>3 DEF AcceptData, Accepts
    <3>3. CASE central_sn # expected_sn
      BY <3>1, <3>3, <1>3 DEF AcceptData, Confirms
    <3> QED BY <3>2, <3>3
  <2> QED BY <2>1, <2>2, <1>5 DEF ReceivedEvent
<1> QED BY <1>1, <1>4, <1>5 DEF Event
-----------------------------------------------------------------------------
(***************************************************************************)
(* Lemmas on the operators.                                                *)
(***************************************************************************)
\* Appending the next number keeps a log of consecutive numbers.
LEMMA CountsAppend ==
  ASSUME NEW log \in Seq(Nat), Counts(log)
  PROVE  /\ Append(log, Len(log)) \in Seq(Nat)
         /\ Len(Append(log, Len(log))) = Len(log) + 1
         /\ Counts(Append(log, Len(log)))
<1> Len(log) \in Nat
  OBVIOUS
<1>1. Append(log, Len(log)) \in Seq(Nat) /\ Len(Append(log, Len(log))) = Len(log) + 1
  OBVIOUS
<1>2. ASSUME NEW i \in 1 .. Len(log) + 1
      PROVE Append(log, Len(log))[i] = i - 1
  <2>1. CASE i \in 1 .. Len(log)
    BY <2>1 DEF Counts
  <2>2. CASE i = Len(log) + 1
    BY <2>2
  <2> QED BY <2>1, <2>2
<1> QED BY <1>1, <1>2 DEF Counts

\* Toggling a sequence number gives the other one.
LEMMA FlipToggles ==
  ASSUME NEW a \in Bit, NEW b \in Bit
  PROVE  Flip(a) \in Bit /\ Flip(a) # a /\ (a # b => Flip(a) = b)
BY DEF Bit, Flip

\* The frame an event stages is the head of the queue of its owner.
LEMMA StagedHead ==
  TypeOK /\ FrameInv =>
    /\ StagedFrame \in Frame /\ StagedFrame # None
    /\ frame # None => StagedFrame = frame
    /\ StagedFrame.owner = "Acl" => pending \in Nat /\ StagedFrame.id = pending
    /\ StagedFrame.owner = "Control" =>
         pending_control \in Nat /\ StagedFrame.id = pending_control
<1> SUFFICES ASSUME TypeOK, FrameInv
             PROVE  /\ StagedFrame \in Frame /\ StagedFrame # None
                    /\ frame # None => StagedFrame = frame
                    /\ StagedFrame.owner = "Acl" => pending \in Nat /\ StagedFrame.id = pending
                    /\ StagedFrame.owner = "Control" =>
                         pending_control \in Nat /\ StagedFrame.id = pending_control
  OBVIOUS
<1>1. /\ frame \in Frame \cup {None} /\ pending \in Nat \cup {None}
      /\ pending_control \in Nat \cup {None}
  BY DEF TypeOK
<1>2. CASE frame # None
  BY <1>1, <1>2, NoneAssumption DEF FrameInv, StagedFrame
<1>3. CASE frame = None
  BY <1>1, <1>3, NoneAssumption DEF StagedFrame, Frame, Owners
<1> QED BY <1>2, <1>3
\* The limits on the queue that the credits imply.
LEMMA HostBounds ==
  TypeOK /\ HostInv =>
    /\ submitted \in Nat /\ completed \in Nat /\ released \in Nat
    /\ Accepted \in Nat
    /\ hci # None => hci = Accepted /\ Accepted < released + Credits
<1> SUFFICES ASSUME TypeOK, HostInv
             PROVE  /\ submitted \in Nat /\ completed \in Nat /\ released \in Nat
                    /\ Accepted \in Nat
                    /\ hci # None => hci = Accepted /\ Accepted < released + Credits
  OBVIOUS
<1>1. submitted \in Nat /\ completed \in Nat /\ released \in Nat
  BY DEF TypeOK
<1>2. Credits \in Nat
  BY CreditsAssumption
<1> QED BY <1>1, <1>2 DEF HostInv, Accepted
-----------------------------------------------------------------------------
(***************************************************************************)
(* Steps of the Host and of the queues.                                    *)
(***************************************************************************)
LEMMA HostSendsStep == IInv /\ HostSends => IInv'
<1> SUFFICES ASSUME IInv, HostSends PROVE IInv'
  OBVIOUS
<1>0. TypeOK /\ HostInv /\ QueueInv /\ FrameInv /\ AclInv /\ ControlInv /\ RxInv
  BY DEF IInv
<1>1. /\ submitted \in Nat /\ completed \in Nat /\ released \in Nat /\ Credits \in Nat
      /\ None \notin Nat
  BY <1>0, HostBounds, CreditsAssumption, NoneAssumption
<1>2. /\ hci = None /\ hci' = submitted /\ submitted' = submitted + 1
      /\ submitted - completed < Credits
      /\ UNCHANGED completed
  BY DEF HostSends
<1>3. /\ UNCHANGED <<pending, queued_acl, released>>
      /\ UNCHANGED <<control_queued, pending_control, queued_control>>
      /\ UNCHANGED <<frame, fresh, transmit_sn>> /\ UNCHANGED <<expected_sn, received>>
      /\ UNCHANGED <<central_sn, central_nesn, central_sent, delivered, control_delivered>>
  BY DEF HostSends, aclVars, controlVars, txVars, rxVars, centralVars
<1>4. Accepted' = Accepted
  BY <1>1, <1>2 DEF Accepted
<1>5. TypeOK'
  BY <1>0, <1>1, <1>2, <1>3 DEF TypeOK
<1>6. HostInv'
  BY <1>0, <1>1, <1>2, <1>3, <1>4 DEF HostInv
<1>7. QueueInv'
  BY <1>0, <1>3, <1>4 DEF QueueInv, Packet
<1>8. FrameInv' /\ AclInv' /\ ControlInv' /\ RxInv'
  BY <1>0, <1>3 DEF FrameInv, AclInv, ControlInv, ControlReleased, RxInv, InFlight,
     CentralHasData, Counts
<1> QED BY <1>5, <1>6, <1>7, <1>8 DEF IInv

LEMMA HostReadsStep == IInv /\ HostReadsCompletion => IInv'
<1> SUFFICES ASSUME IInv, HostReadsCompletion PROVE IInv'
  OBVIOUS
<1>0. TypeOK /\ HostInv /\ QueueInv /\ FrameInv /\ AclInv /\ ControlInv /\ RxInv
  BY DEF IInv
<1>1. submitted \in Nat /\ completed \in Nat /\ released \in Nat /\ Credits \in Nat
  BY <1>0, HostBounds, CreditsAssumption
<1>2. completed < released /\ completed' = completed + 1 /\ UNCHANGED <<submitted, hci>>
  BY DEF HostReadsCompletion
<1>3. /\ UNCHANGED <<pending, queued_acl, released>>
      /\ UNCHANGED <<control_queued, pending_control, queued_control>>
      /\ UNCHANGED <<frame, fresh, transmit_sn>> /\ UNCHANGED <<expected_sn, received>>
      /\ UNCHANGED <<central_sn, central_nesn, central_sent, delivered, control_delivered>>
  BY DEF HostReadsCompletion, aclVars, controlVars, txVars, rxVars, centralVars
<1>4. Accepted' = Accepted
  BY <1>2 DEF Accepted
<1>5. TypeOK'
  BY <1>0, <1>1, <1>2, <1>3 DEF TypeOK
<1>6. HostInv'
  BY <1>0, <1>1, <1>2, <1>3, <1>4 DEF HostInv
<1>7. QueueInv'
  BY <1>0, <1>3, <1>4 DEF QueueInv, Packet
<1>8. FrameInv' /\ AclInv' /\ ControlInv' /\ RxInv'
  BY <1>0, <1>3 DEF FrameInv, AclInv, ControlInv, ControlReleased, RxInv, InFlight,
     CentralHasData, Counts
<1> QED BY <1>5, <1>6, <1>7, <1>8 DEF IInv

\* The slot that QueueAcl fills is the one for the packet's number.
LEMMA FirstFreeSlot ==
  ASSUME IInv, hci # None, pending # None
  PROVE  /\ Accepted - released - 1 \in QueueSlots
         /\ \A k \in QueueSlots :
              (k \in FreeSlots /\ \A j \in FreeSlots : k <= j) <=> k = Accepted - released - 1
<1>0. TypeOK /\ HostInv /\ QueueInv
  BY DEF IInv
<1>1. /\ released \in Nat /\ Accepted \in Nat /\ None \notin Nat
      /\ QueueCapacity \in Nat /\ Credits \in Nat /\ Credits <= QueueCapacity + 1
      /\ Accepted < released + Credits
  BY <1>0, HostBounds, CreditsAssumption, NoneAssumption
<1>2. released < Accepted
  BY <1>0 DEF QueueInv, Packet
<1>3. \A k \in QueueSlots : k \in FreeSlots <=> Accepted <= released + 1 + k
  <2> SUFFICES ASSUME NEW k \in QueueSlots
               PROVE k \in FreeSlots <=> Accepted <= released + 1 + k
    OBVIOUS
  <2>1. k \in Nat
    BY <1>1 DEF QueueSlots
  <2>2. queued_acl[k] = Packet(released + 1 + k)
    BY <1>0 DEF QueueInv
  <2> QED BY <2>1, <2>2, <1>1 DEF FreeSlots, Packet
<1>4. Accepted - released - 1 \in QueueSlots
  BY <1>1, <1>2 DEF QueueSlots
<1>5. FreeSlots \subseteq QueueSlots
  BY DEF FreeSlots
<1>6. \A k \in QueueSlots : k \in Int
  BY <1>1 DEF QueueSlots
<1>7. ASSUME NEW k \in QueueSlots
      PROVE (k \in FreeSlots /\ \A j \in FreeSlots : k <= j) <=> k = Accepted - released - 1
  BY <1>1, <1>3, <1>4, <1>5, <1>6
<1> QED BY <1>4, <1>7

LEMMA QueueAclStep == IInv /\ QueueAcl => IInv'
<1> SUFFICES ASSUME IInv, QueueAcl PROVE IInv'
  OBVIOUS
<1>0. TypeOK /\ HostInv /\ QueueInv /\ FrameInv /\ AclInv /\ ControlInv /\ RxInv
  BY DEF IInv
<1>1. /\ submitted \in Nat /\ completed \in Nat /\ released \in Nat /\ Accepted \in Nat
      /\ None \notin Nat /\ Credits \in Nat /\ QueueCapacity \in Nat
      /\ hci = Accepted
  BY <1>0, HostBounds, CreditsAssumption, NoneAssumption DEF QueueAcl
<1>2. /\ hci # None /\ hci' = None /\ UNCHANGED <<submitted, completed, released>>
  BY DEF QueueAcl
<1>3. /\ UNCHANGED <<control_queued, pending_control, queued_control>>
      /\ UNCHANGED <<frame, fresh, transmit_sn>> /\ UNCHANGED <<expected_sn, received>>
      /\ UNCHANGED <<central_sn, central_nesn, central_sent, delivered, control_delivered>>
  BY DEF QueueAcl, controlVars, txVars, rxVars, centralVars
<1>4. Accepted' = Accepted + 1
  BY <1>1, <1>2 DEF Accepted
<1>5. HostInv'
  BY <1>0, <1>1, <1>2, <1>4 DEF HostInv, Accepted
<1>6. QueueInv' /\ (pending # None => pending' = pending)
  <2> USE <1>1, <1>2, <1>4
  <2>1. CASE pending = None
    <3>1. released = Accepted
      BY <2>1, <1>0 DEF QueueInv, Packet, HostInv
    <3>2. pending' = Accepted /\ UNCHANGED queued_acl
      BY <2>1 DEF QueueAcl
    <3>3. pending' = Packet(released)'
      BY <3>1, <3>2 DEF Packet
    <3>4. ASSUME NEW k \in QueueSlots
          PROVE queued_acl'[k] = Packet(released + 1 + k)'
      <4>1. k \in Nat
        BY DEF QueueSlots
      <4>2. queued_acl[k] = None
        BY <4>1, <3>1, <1>0 DEF QueueInv, Packet
      <4> QED BY <4>1, <4>2, <3>1, <3>2 DEF Packet
    <3> QED BY <2>1, <3>3, <3>4 DEF QueueInv
  <2>2. CASE pending # None
    <3>1. /\ pending' = pending
          /\ queued_acl' = [k \in QueueSlots |->
               IF k \in FreeSlots /\ \A j \in FreeSlots : k <= j THEN hci ELSE queued_acl[k]]
      BY <2>2 DEF QueueAcl
    <3>2. pending' = Packet(released)'
      BY <2>2, <3>1, <1>0 DEF QueueInv, Packet
    <3>3. ASSUME NEW k \in QueueSlots
          PROVE queued_acl'[k] = Packet(released + 1 + k)'
      <4>1. k \in Nat
        BY DEF QueueSlots
      <4>2. queued_acl'[k] = IF k = Accepted - released - 1 THEN hci ELSE queued_acl[k]
        BY <3>1, <2>2, FirstFreeSlot
      <4>3. queued_acl[k] = Packet(released + 1 + k)
        BY <1>0 DEF QueueInv
      <4>4. Packet(released + 1 + k)' = IF released + 1 + k < Accepted + 1
                                        THEN released + 1 + k ELSE None
        BY DEF Packet
      <4>5. CASE k = Accepted - released - 1
        BY <4>1, <4>2, <4>4, <4>5
      <4>6. CASE k # Accepted - released - 1
        BY <4>1, <4>2, <4>3, <4>4, <4>6 DEF Packet
      <4> QED BY <4>5, <4>6
    <3> QED BY <2>2, <3>1, <3>2, <3>3 DEF QueueInv
  <2> QED BY <2>1, <2>2
<1>7. TypeOK'
  <2>1. pending' \in Nat \cup {None} /\ queued_acl' \in [QueueSlots -> Nat \cup {None}]
    BY <1>0, <1>1 DEF QueueAcl, TypeOK
  <2> QED BY <2>1, <1>0, <1>2, <1>3 DEF TypeOK
<1>8. FrameInv'
  BY <1>0, <1>3, <1>6 DEF FrameInv, InFlight
<1>9. AclInv' /\ ControlInv' /\ RxInv'
  BY <1>0, <1>2, <1>3 DEF AclInv, ControlInv, ControlReleased, RxInv, InFlight,
     CentralHasData, Counts
<1> QED BY <1>5, <1>6, <1>7, <1>8, <1>9 DEF IInv

LEMMA QueueControlStep == IInv /\ QueueControl => IInv'
<1> SUFFICES ASSUME IInv, QueueControl PROVE IInv'
  OBVIOUS
<1>0. TypeOK /\ HostInv /\ QueueInv /\ FrameInv /\ AclInv /\ ControlInv /\ RxInv
  BY DEF IInv
<1>1. control_queued \in Nat /\ Len(control_delivered) \in Nat /\ None \notin Nat
  BY <1>0, NoneAssumption DEF TypeOK
<1>2. /\ UNCHANGED <<submitted, completed, hci>> /\ UNCHANGED <<pending, queued_acl, released>>
      /\ UNCHANGED <<frame, fresh, transmit_sn>> /\ UNCHANGED <<expected_sn, received>>
      /\ UNCHANGED <<central_sn, central_nesn, central_sent, delivered, control_delivered>>
  BY DEF QueueControl, hostVars, aclVars, txVars, rxVars, centralVars
<1>3. ControlReleased' = ControlReleased /\ ControlReleased \in Int
  BY <1>1, <1>2 DEF ControlReleased, InFlight
<1>4. /\ ControlInv'
      /\ pending_control # None => UNCHANGED pending_control
  BY <1>0, <1>1, <1>2, <1>3 DEF ControlInv, QueueControl, Counts
<1>5. TypeOK'
  <2>1. /\ control_queued' \in Nat /\ pending_control' \in Nat \cup {None}
        /\ queued_control' \in Nat \cup {None}
    BY <1>0, <1>1 DEF TypeOK, QueueControl
  <2> QED BY <2>1, <1>0, <1>2 DEF TypeOK
<1>6. HostInv' /\ QueueInv' /\ AclInv' /\ RxInv'
  BY <1>0, <1>2 DEF HostInv, QueueInv, AclInv, RxInv, InFlight, CentralHasData, Counts,
     Accepted, Packet
<1>7. FrameInv'
  BY <1>0, <1>2, <1>4 DEF FrameInv, InFlight
<1> QED BY <1>4, <1>5, <1>6, <1>7 DEF IInv
-----------------------------------------------------------------------------
(***************************************************************************)
(* Steps of connection_event.                                              *)
(***************************************************************************)
\* What each kind of step does to the sequence numbers and to the frame.
LEMMA FlightAfter ==
  ASSUME TypeOK, FrameInv
  PROVE  /\ Releases => ~InFlight' /\ frame' = None /\ transmit_sn' \in Bit /\ central_nesn' \in Bit
         /\ Delivers => InFlight' /\ transmit_sn' \in Bit /\ central_nesn' \in Bit
         /\ Repeats => InFlight' = InFlight /\ transmit_sn' \in Bit /\ central_nesn' \in Bit
<1>1. transmit_sn \in Bit /\ central_nesn \in Bit
  BY DEF TypeOK
<1>2. Flip(transmit_sn) \in Bit /\ Flip(central_nesn) \in Bit
  BY <1>1, FlipToggles
<1>3. ASSUME Releases
      PROVE  ~InFlight' /\ frame' = None /\ transmit_sn' \in Bit /\ central_nesn' \in Bit
  <2>1. Flip(transmit_sn) = central_nesn
    BY <1>1, <1>3, FlipToggles DEF Releases, InFlight
  <2> QED BY <1>1, <1>3, <2>1 DEF Releases, ReleaseOwner, InFlight
<1>4. ASSUME Delivers
      PROVE  InFlight' /\ transmit_sn' \in Bit /\ central_nesn' \in Bit
  <2>1. Flip(central_nesn) # central_nesn
    BY <1>1, FlipToggles
  <2> QED BY <1>1, <1>2, <1>4, <2>1 DEF Delivers, InFlight
<1>5. ASSUME Repeats
      PROVE  InFlight' = InFlight /\ transmit_sn' \in Bit /\ central_nesn' \in Bit
  BY <1>1, <1>5 DEF Repeats, InFlight
<1> QED BY <1>3, <1>4, <1>5

LEMMA ReleasesStep ==
  ASSUME IInv, Releases, UNCHANGED hostVars
  PROVE  HostInv' /\ QueueInv' /\ FrameInv' /\ AclInv' /\ ControlInv'
<1>0. TypeOK /\ HostInv /\ QueueInv /\ FrameInv /\ AclInv /\ ControlInv
  BY DEF IInv
<1>1. /\ submitted \in Nat /\ completed \in Nat /\ released \in Nat /\ Accepted \in Nat
      /\ None \notin Nat /\ Credits \in Nat /\ QueueCapacity \in Nat \ {0}
      /\ control_queued \in Nat /\ Len(control_delivered) \in Nat
  BY <1>0, HostBounds, CreditsAssumption, NoneAssumption DEF TypeOK
<1>2. frame # None /\ InFlight /\ StagedFrame = frame /\ frame.owner \in Owners
  BY <1>0, StagedHead DEF Releases, Frame
<1>3. ~InFlight' /\ frame' = None
  BY <1>0, FlightAfter
<1>4. UNCHANGED <<submitted, completed, hci>> /\ Accepted' = Accepted
      /\ UNCHANGED <<control_queued, delivered, control_delivered>>
  BY DEF hostVars, Accepted, Releases, ReleaseOwner
<1>5. FrameInv'
  BY <1>3 DEF FrameInv
<1>6. CASE frame.owner = "Acl"
  <2>1. /\ pending' = queued_acl[0] /\ released' = released + 1
        /\ queued_acl' = [k \in QueueSlots |->
                            IF k + 1 \in QueueSlots THEN queued_acl[k + 1] ELSE None]
        /\ UNCHANGED <<pending_control, queued_control>>
    BY <1>2, <1>6 DEF Releases, ReleaseOwner
  <2>2. released < Accepted /\ Accepted <= released + QueueCapacity + 1
    <3>1. pending # None
      BY <1>0, <1>2, <1>6 DEF FrameInv
    <3>2. released < Accepted
      BY <3>1, <1>0 DEF QueueInv, Packet
    <3>3. Credits <= QueueCapacity + 1
      BY CreditsAssumption
    <3>4. Accepted <= submitted
      BY <1>1 DEF Accepted
    <3> QED BY <1>0, <1>1, <3>2, <3>3, <3>4 DEF HostInv
  <2>3. HostInv'
    BY <1>0, <1>1, <1>4, <2>1, <2>2 DEF HostInv
  <2>4. QueueInv'
    <3>1. pending' = Packet(released)'
      <4>1. 0 \in QueueSlots
        BY <1>1 DEF QueueSlots
      <4>2. queued_acl[0] = Packet(released + 1 + 0)
        BY <4>1, <1>0 DEF QueueInv
      <4>3. released + 1 + 0 = released + 1
        BY <1>1
      <4> QED BY <4>2, <4>3, <2>1, <1>4 DEF Packet
    <3>2. ASSUME NEW k \in QueueSlots
          PROVE queued_acl'[k] = Packet(released + 1 + k)'
      <4>1. k \in Nat /\ released' + 1 + k = released + 1 + (k + 1)
        BY <1>1, <2>1 DEF QueueSlots
      <4>2. CASE k + 1 \in QueueSlots
        <5>1. queued_acl'[k] = queued_acl[k + 1]
          BY <2>1, <4>2
        <5>2. queued_acl[k + 1] = Packet(released + 1 + (k + 1))
          BY <1>0, <4>2 DEF QueueInv
        <5> QED BY <5>1, <5>2, <4>1, <1>4 DEF Packet
      <4>3. CASE k + 1 \notin QueueSlots
        <5>1. queued_acl'[k] = None
          BY <2>1, <4>3
        <5>2. k + 1 = QueueCapacity
          BY <1>1, <4>3 DEF QueueSlots
        <5>3. ~(released' + 1 + k < Accepted')
          BY <1>1, <1>4, <2>1, <2>2, <5>2, <4>1
        <5> QED BY <5>1, <5>3 DEF Packet
      <4> QED BY <4>2, <4>3
    <3> QED BY <3>1, <3>2 DEF QueueInv
  <2>5. AclInv'
    BY <1>0, <1>2, <1>3, <1>4, <1>6, <2>1 DEF AclInv, Counts
  <2>6. ControlReleased' = ControlReleased
    BY <1>2, <1>3, <1>4, <1>6 DEF ControlReleased
  <2>7. ControlInv'
    BY <1>0, <1>4, <2>1, <2>6 DEF ControlInv, Counts
  <2> QED BY <1>5, <2>3, <2>4, <2>5, <2>7
<1>7. CASE frame.owner # "Acl"
  <2>1. UNCHANGED <<pending, queued_acl, released>>
    BY <1>2, <1>7 DEF Releases, ReleaseOwner, aclVars
  <2>2. HostInv' /\ QueueInv'
    BY <1>0, <1>4, <2>1 DEF HostInv, QueueInv, Packet
  <2>3. AclInv'
    BY <1>0, <1>2, <1>3, <1>4, <1>7, <2>1 DEF AclInv, Counts
  <2>4. ControlInv'
    <3>1. CASE frame.owner = "Control"
      <4>1. pending_control' = queued_control /\ queued_control' = None
        BY <1>2, <3>1 DEF Releases, ReleaseOwner
      <4>2. ControlReleased = Len(control_delivered) - 1 /\ ControlReleased' = Len(control_delivered)
        BY <1>2, <1>3, <1>4, <3>1 DEF ControlReleased
      <4>3. ControlReleased < control_queued
        BY <1>0, <1>2, <3>1 DEF FrameInv, ControlInv
      <4>4. Counts(control_delivered)'
        BY <1>0, <1>4 DEF ControlInv, Counts
      <4> QED BY <1>0, <1>1, <1>4, <4>1, <4>2, <4>3, <4>4 DEF ControlInv
    <3>2. CASE frame.owner # "Control"
      <4>1. UNCHANGED <<pending_control, queued_control>>
        BY <1>2, <3>2 DEF Releases, ReleaseOwner
      <4>2. ControlReleased' = ControlReleased
        BY <1>2, <1>3, <1>4, <3>2 DEF ControlReleased
      <4> QED BY <1>0, <1>4, <4>1, <4>2 DEF ControlInv, Counts
    <3> QED BY <3>1, <3>2
  <2> QED BY <1>5, <2>2, <2>3, <2>4
<1> QED BY <1>6, <1>7

LEMMA KeepsStep ==
  ASSUME IInv, Delivers \/ Repeats, UNCHANGED hostVars
  PROVE  HostInv' /\ QueueInv' /\ FrameInv' /\ AclInv' /\ ControlInv'
<1>0. TypeOK /\ HostInv /\ QueueInv /\ FrameInv /\ AclInv /\ ControlInv
  BY DEF IInv
<1>1. /\ released \in Nat /\ Accepted \in Nat /\ None \notin Nat
      /\ control_queued \in Nat
      /\ delivered \in Seq(Nat) /\ control_delivered \in Seq(Nat)
      /\ Len(delivered) \in Nat /\ Len(control_delivered) \in Nat
  BY <1>0, HostBounds, NoneAssumption DEF TypeOK
<1>2. /\ frame' = StagedFrame
      /\ UNCHANGED <<pending, queued_acl, released>>
      /\ UNCHANGED <<control_queued, pending_control, queued_control>>
      /\ UNCHANGED <<submitted, completed, hci>>
  BY DEF Delivers, Repeats, aclVars, controlVars, hostVars
<1>3. /\ StagedFrame \in Frame /\ StagedFrame # None
      /\ frame # None => StagedFrame = frame
      /\ StagedFrame.owner = "Acl" => pending \in Nat /\ StagedFrame.id = pending
      /\ StagedFrame.owner = "Control" =>
           pending_control \in Nat /\ StagedFrame.id = pending_control
  BY <1>0, StagedHead
<1>4. HostInv' /\ QueueInv'
  BY <1>0, <1>2 DEF HostInv, QueueInv, Accepted, Packet
<1>5. FrameInv'
  BY <1>1, <1>2, <1>3 DEF FrameInv
<1>6. CASE Delivers
  <2>1. ~InFlight /\ InFlight'
    BY <1>0, <1>6, FlightAfter DEF Delivers
  <2>2. Len(delivered) = released /\ Counts(delivered)
    BY <1>0, <2>1 DEF AclInv
  <2>3. ControlReleased = Len(control_delivered) /\ Counts(control_delivered)
    BY <1>0, <2>1 DEF ControlReleased, ControlInv
  <2>4. AclInv'
    <3>1. CASE StagedFrame.owner = "Acl"
      <4>1. StagedFrame.id = released
        BY <1>0, <1>1, <1>3, <3>1 DEF QueueInv, Packet
      <4>2. delivered' = Append(delivered, Len(delivered))
        BY <1>6, <2>2, <3>1, <4>1 DEF Delivers
      <4>3. Counts(delivered') /\ Len(delivered') = released + 1
        BY <4>2, <1>1, <2>2, CountsAppend
      <4> QED BY <4>3, <1>2, <2>1, <3>1 DEF AclInv, Counts
    <3>2. CASE StagedFrame.owner # "Acl"
      <4>1. delivered' = delivered
        BY <1>6, <3>2 DEF Delivers
      <4> QED BY <4>1, <1>2, <2>1, <2>2, <3>2 DEF AclInv, Counts
    <3> QED BY <3>1, <3>2
  <2>5. /\ ControlReleased' = ControlReleased /\ Counts(control_delivered')
    <3>1. CASE StagedFrame.owner = "Control"
      <4>1. StagedFrame.id = Len(control_delivered)
        BY <1>0, <1>1, <1>3, <2>3, <3>1 DEF ControlInv
      <4>2. control_delivered' = Append(control_delivered, Len(control_delivered))
        BY <1>6, <3>1, <4>1 DEF Delivers
      <4>3. /\ Counts(control_delivered')
            /\ Len(control_delivered') = Len(control_delivered) + 1
        BY <4>2, <1>1, <2>3, CountsAppend
      <4> QED BY <4>3, <1>1, <1>2, <2>1, <2>3, <3>1 DEF ControlReleased
    <3>2. CASE StagedFrame.owner # "Control"
      <4>1. control_delivered' = control_delivered
        BY <1>6, <3>2 DEF Delivers
      <4> QED BY <4>1, <1>2, <2>1, <2>3, <3>2 DEF ControlReleased
    <3> QED BY <3>1, <3>2
  <2>6. ControlInv'
    BY <1>0, <1>2, <2>5 DEF ControlInv, Counts
  <2> QED BY <1>4, <1>5, <2>4, <2>6
<1>7. CASE Repeats
  <2>1. UNCHANGED <<delivered, control_delivered>> /\ InFlight' = InFlight
    BY <1>0, <1>7, FlightAfter DEF Repeats
  <2>2. InFlight => frame' = frame
    BY <1>0, <1>2, <1>3 DEF FrameInv
  <2>3. AclInv'
    BY <1>0, <1>2, <2>1, <2>2 DEF AclInv, Counts
  <2>4. ControlReleased' = ControlReleased
    BY <2>1, <2>2 DEF ControlReleased
  <2>5. ControlInv'
    BY <1>0, <1>2, <2>1, <2>4 DEF ControlInv, Counts
  <2> QED BY <1>4, <1>5, <2>3, <2>5
<1> QED BY <1>6, <1>7

LEMMA RxStepKeeps ==
  ASSUME IInv, RxStep
  PROVE  /\ RxInv'
         /\ expected_sn' \in Bit /\ central_sn' \in Bit
         /\ central_sent' \in Nat /\ received' \in Seq(Nat)
<1>1. /\ expected_sn \in Bit /\ central_sn \in Bit /\ central_sent \in Nat
      /\ received \in Seq(Nat) /\ Len(received) \in Nat /\ CentralPackets \in Nat
  BY BoundsAssumption DEF IInv, TypeOK
<1>2. RxInv
  BY DEF IInv
<1>3. CASE Accepts
  <2>1. /\ central_sn' # expected_sn' /\ expected_sn' \in Bit /\ central_sn' \in Bit
        /\ CentralHasData' = CentralHasData
    BY <1>1, <1>3, FlipToggles DEF Accepts, CentralHasData
  <2>2. Len(received) = central_sent /\ central_sent' = central_sent
    BY <1>2, <1>3 DEF RxInv, Accepts
  <2>3. CASE CentralHasData
    <3>1. received' = Append(received, Len(received))
      BY <1>3, <2>2, <2>3 DEF Accepts
    <3>2. Counts(received') /\ Len(received') = central_sent + 1 /\ received' \in Seq(Nat)
      BY <3>1, <2>2, <1>1, <1>2, CountsAppend DEF RxInv
    <3> QED BY <3>2, <2>1, <2>2, <2>3, <1>1 DEF RxInv, Counts
  <2>4. CASE ~CentralHasData
    BY <1>1, <1>2, <1>3, <2>1, <2>2, <2>4 DEF RxInv, Accepts, Counts
  <2> QED BY <2>3, <2>4
<1>4. CASE Confirms
  <2>1. central_sn' = expected_sn' /\ expected_sn' \in Bit /\ central_sn' \in Bit
    BY <1>1, <1>4, FlipToggles DEF Confirms, rxVars
  <2>2. received' = received /\ Len(received) = central_sent' /\ central_sent' \in Nat
    BY <1>1, <1>2, <1>4 DEF RxInv, Confirms, rxVars
  <2> QED BY <1>1, <1>2, <2>1, <2>2 DEF RxInv, Counts
<1>5. CASE UNCHANGED <<rxVars, central_sn, central_sent>>
  BY <1>1, <1>2, <1>5 DEF RxInv, rxVars, CentralHasData, Counts
<1> QED BY <1>3, <1>4, <1>5 DEF RxStep
LEMMA EventKeepsTypes ==
  ASSUME IInv, EventStep
  PROVE  TypeOK'
<1>0. TypeOK /\ HostInv /\ FrameInv
  BY DEF IInv
<1>1. TxStep /\ RxStep /\ UNCHANGED <<submitted, completed, hci>> /\ fresh' \in BOOLEAN
  BY DEF EventStep, hostVars
<1>2. submitted' \in Nat /\ completed' \in Nat /\ hci' \in Nat \cup {None}
  BY <1>0, <1>1 DEF TypeOK
<1>3. /\ expected_sn' \in Bit /\ central_sn' \in Bit
      /\ central_sent' \in Nat /\ received' \in Seq(Nat)
  BY <1>1, RxStepKeeps
<1>4. transmit_sn' \in Bit /\ central_nesn' \in Bit
  BY <1>0, <1>1, FlightAfter DEF TxStep
<1>5. StagedFrame \in Frame
  BY <1>0, StagedHead
<1>6. CASE Releases
  <2>1. /\ frame' = None /\ control_queued' = control_queued
        /\ delivered' = delivered /\ control_delivered' = control_delivered
    BY <1>6 DEF Releases, ReleaseOwner
  <2>2. pending_control' \in Nat \cup {None} /\ queued_control' \in Nat \cup {None}
    BY <1>0, <1>6 DEF TypeOK, Releases, ReleaseOwner
  <2>3. /\ pending' \in Nat \cup {None} /\ released' \in Nat
        /\ queued_acl' \in [QueueSlots -> Nat \cup {None}]
    <3>1. /\ pending \in Nat \cup {None} /\ released \in Nat
          /\ queued_acl \in [QueueSlots -> Nat \cup {None}] /\ 0 \in QueueSlots
      BY <1>0, CreditsAssumption DEF TypeOK, QueueSlots
    <3> QED BY <3>1, <1>6 DEF Releases, ReleaseOwner, aclVars
  <2> QED BY <1>0, <1>1, <1>2, <1>3, <1>4, <2>1, <2>2, <2>3 DEF TypeOK
<1>7. CASE Delivers \/ Repeats
  <2>1. /\ frame' = StagedFrame
        /\ UNCHANGED <<pending, queued_acl, released>>
        /\ UNCHANGED <<control_queued, pending_control, queued_control>>
    BY <1>7 DEF Delivers, Repeats, aclVars, controlVars
  <2>2. delivered' \in Seq(Nat) /\ control_delivered' \in Seq(Nat)
    <3>1. delivered \in Seq(Nat) /\ control_delivered \in Seq(Nat)
      BY <1>0 DEF TypeOK
    <3>2. /\ StagedFrame.owner = "Acl" => StagedFrame.id \in Nat
          /\ StagedFrame.owner = "Control" => StagedFrame.id \in Nat
      BY <1>0, StagedHead
    <3>3. \A log \in Seq(Nat), n \in Nat : Append(log, n) \in Seq(Nat)
      OBVIOUS
    <3>4. delivered' \in Seq(Nat)
      <4>1. \/ delivered' = delivered
            \/ StagedFrame.owner = "Acl" /\ delivered' = Append(delivered, StagedFrame.id)
        BY <1>7 DEF Delivers, Repeats
      <4> QED BY <4>1, <3>1, <3>2, <3>3
    <3>5. control_delivered' \in Seq(Nat)
      <4>1. \/ control_delivered' = control_delivered
            \/ /\ StagedFrame.owner = "Control"
               /\ control_delivered' = Append(control_delivered, StagedFrame.id)
        BY <1>7 DEF Delivers, Repeats
      <4> QED BY <4>1, <3>1, <3>2, <3>3
    <3> QED BY <3>4, <3>5
  <2> QED BY <1>0, <1>1, <1>2, <1>3, <1>4, <1>5, <2>1, <2>2 DEF TypeOK
<1> QED BY <1>1, <1>6, <1>7 DEF TxStep

LEMMA EventPreserves == IInv /\ Event => IInv'
<1> SUFFICES ASSUME IInv, Event PROVE IInv'
  OBVIOUS
<1>1. EventStep
  BY EventIsStep DEF IInv
<1>2. TypeOK'
  BY <1>1, EventKeepsTypes
<1>3. RxInv'
  BY <1>1, RxStepKeeps DEF EventStep
<1>4. HostInv' /\ QueueInv' /\ FrameInv' /\ AclInv' /\ ControlInv'
  BY <1>1, ReleasesStep, KeepsStep DEF EventStep, TxStep
<1> QED BY <1>2, <1>3, <1>4 DEF IInv

LEMMA InitHolds == Init => IInv
<1> SUFFICES ASSUME Init PROVE IInv
  OBVIOUS
<1>1. QueueCapacity \in Nat /\ Credits \in Nat /\ None \notin Nat
  BY CreditsAssumption, NoneAssumption
<1>2. TypeOK
  <2>1. queued_acl \in [QueueSlots -> Nat \cup {None}]
    BY DEF Init
  <2>2. received \in Seq(Nat) /\ delivered \in Seq(Nat) /\ control_delivered \in Seq(Nat)
    BY DEF Init
  <2>3. fresh \in BOOLEAN
    BY DEF Init
  <2> QED BY <2>1, <2>2, <2>3 DEF Init, TypeOK, Bit
<1>3. HostInv
  BY <1>1 DEF Init, HostInv, Accepted
<1>4. QueueInv
  <2>1. Accepted = 0
    BY DEF Init, Accepted
  <2> QED BY <1>1, <2>1 DEF Init, QueueInv, Packet, QueueSlots
<1>5. FrameInv /\ AclInv
  BY DEF Init, FrameInv, AclInv, InFlight, Counts
<1>6. ControlInv
  BY DEF Init, ControlInv, ControlReleased, InFlight, Counts
<1>7. RxInv
  BY DEF Init, RxInv, Counts
<1> QED BY <1>2, <1>3, <1>4, <1>5, <1>6, <1>7 DEF IInv

LEMMA StutterKeeps == IInv /\ UNCHANGED vars => IInv'
<1> SUFFICES ASSUME IInv, UNCHANGED vars PROVE IInv'
  OBVIOUS
<1>1. /\ UNCHANGED <<submitted, completed, hci>> /\ UNCHANGED <<pending, queued_acl, released>>
      /\ UNCHANGED <<control_queued, pending_control, queued_control>>
      /\ UNCHANGED <<frame, fresh, transmit_sn>> /\ UNCHANGED <<expected_sn, received>>
      /\ UNCHANGED <<central_sn, central_nesn, central_sent, delivered, control_delivered>>
  BY DEF vars, hostVars, aclVars, controlVars, txVars, rxVars, centralVars
<1>2. TypeOK'
  BY <1>1 DEF IInv, TypeOK
<1>3. HostInv' /\ QueueInv'
  BY <1>1 DEF IInv, HostInv, QueueInv, Accepted, Packet
<1>4. FrameInv' /\ AclInv' /\ ControlInv' /\ RxInv'
  BY <1>1 DEF IInv, FrameInv, AclInv, ControlInv, ControlReleased, RxInv, InFlight,
     CentralHasData, Counts
<1> QED BY <1>2, <1>3, <1>4 DEF IInv

\* The invariant of the data plane holds in every reachable state: the queues
\* of ActiveConnection hold exactly the packets between the Host's credits
\* and the Central's acknowledgements.
THEOREM ArqInvariant == Spec => []IInv
<1>1. Init => IInv
  BY InitHolds
<1>2. IInv /\ [Next]_vars => IInv'
  <2>1. IInv /\ Next => IInv'
    BY HostSendsStep, HostReadsStep, QueueAclStep, QueueControlStep, EventPreserves
       DEF Next, Event
  <2> QED BY <2>1, StutterKeeps
<1> QED BY <1>1, <1>2, PTL DEF Spec
-----------------------------------------------------------------------------
(***************************************************************************)
(* The theorems.                                                           *)
(***************************************************************************)
\* Type correctness of ActiveConnection's data plane.
THEOREM ArqTypeCorrect == Spec => []TypeOK
<1>1. IInv => TypeOK
  BY DEF IInv
<1> QED BY <1>1, ArqInvariant, PTL

\* queue_acl has room for every packet of a Host that keeps to its credits,
\* whatever the number of credits, provided they are at most the slots.
THEOREM CreditsFitQueue == Spec => []NoAclDropped
<1>1. IInv => NoAclDropped
  <2> SUFFICES ASSUME IInv, hci # None, pending # None PROVE FreeSlots # {}
    BY DEF NoAclDropped
  <2>1. /\ Accepted - released - 1 \in QueueSlots
        /\ \A k \in QueueSlots :
             (k \in FreeSlots /\ \A j \in FreeSlots : k <= j) <=> k = Accepted - released - 1
    BY FirstFreeSlot
  <2> QED BY <2>1
<1> QED BY <1>1, ArqInvariant, PTL

\* Control PDUs are accepted by the Central once each and in order, and none
\* leaves pending_control or queued_control before.
THEOREM ControlDeliveredOnce == Spec => []ControlExactlyOnce
<1>1. IInv => ControlExactlyOnce
  <2> SUFFICES ASSUME IInv PROVE ControlExactlyOnce
    OBVIOUS
  <2>1. control_queued \in Nat /\ Len(control_delivered) \in Nat
    BY DEF IInv, TypeOK
  <2>2. ControlInv
    BY DEF IInv
  <2>3. ControlReleased \in Int /\ ControlReleased <= Len(control_delivered)
    BY <2>1 DEF ControlReleased
  <2>4. ASSUME NEW n \in 0 .. control_queued - 1, ~(n < Len(control_delivered))
        PROVE n \in {pending_control, queued_control}
    <3>1. n = ControlReleased \/ n = ControlReleased + 1
      BY <2>1, <2>2, <2>3, <2>4 DEF ControlInv
    <3> QED BY <3>1, <2>1, <2>2, <2>3 DEF ControlInv
  <2> QED BY <2>2, <2>4 DEF ControlInv, ControlExactlyOnce
<1> QED BY <1>1, ArqInvariant, PTL

\* The Host is given every data PDU of the Central once and in order.
THEOREM CentralDataReceivedOnce == Spec => []CentralDataOnce
<1>1. IInv => CentralDataOnce
  <2> SUFFICES ASSUME IInv PROVE CentralDataOnce
    OBVIOUS
  <2>1. central_sent \in Nat /\ RxInv
    BY DEF IInv, TypeOK
  <2> QED BY <2>1 DEF RxInv, CentralDataOnce
<1> QED BY <1>1, ArqInvariant, PTL

\* A sequence number is never reused for another frame: connection_event
\* rebuilds the frame only after the acknowledgement flipped transmit_sn.
THEOREM SequenceNumberKept == Spec => FrameKeepsSequenceNumber
<1>1. IInv /\ [Next]_vars => [frame # None /\ frame' # frame => transmit_sn' # transmit_sn]_vars
  <2> SUFFICES ASSUME IInv, Next, frame # None, frame' # frame
               PROVE transmit_sn' # transmit_sn
    OBVIOUS
  <2>1. Event
    BY DEF Next, Event, HostSends, HostReadsCompletion, QueueAcl, QueueControl, txVars
  <2>2. TxStep
    BY <2>1, EventIsStep DEF IInv, EventStep
  <2>3. StagedFrame = frame
    BY StagedHead DEF IInv
  <2>4. Releases
    BY <2>2, <2>3 DEF TxStep, Delivers, Repeats
  <2>5. transmit_sn \in Bit /\ transmit_sn' = Flip(transmit_sn)
    BY <2>4 DEF Releases, ReleaseOwner, IInv, TypeOK
  <2> QED BY <2>5, FlipToggles
<1> QED BY <1>1, ArqInvariant, PTL DEF Spec, FrameKeepsSequenceNumber

\* The backend's data plane implements the channel promised to the Host:
\* packets delivered in order and once, credits returned after delivery.
THEOREM ImplementsChannel == Spec => ChannelSpec
<1>1. Init => Channel!Init
  BY DEF Init, Channel!Init
<1>2. IInv /\ [Next]_vars => [Channel!Next]_(Channel!vars)
  <2> SUFFICES ASSUME IInv, [Next]_vars
               PROVE  Channel!Next \/ UNCHANGED Channel!vars
    OBVIOUS
  <2>0. TypeOK /\ HostInv /\ QueueInv /\ FrameInv /\ AclInv
    BY DEF IInv
  <2>1. /\ submitted \in Nat /\ completed \in Nat /\ released \in Nat /\ Accepted \in Nat
        /\ Len(delivered) \in Nat
    BY <2>0, HostBounds DEF TypeOK
  <2>2. released <= Len(delivered) /\ Accepted <= submitted
    BY <2>0, <2>1 DEF AclInv, Accepted
  <2>3. CASE HostSends
    BY <2>3 DEF HostSends, centralVars, Channel!Next, Channel!Submit
  <2>4. CASE HostReadsCompletion
    BY <2>4, <2>1, <2>2 DEF HostReadsCompletion, centralVars, Channel!Next, Channel!Complete
  <2>5. CASE QueueAcl \/ QueueControl \/ UNCHANGED vars
    BY <2>5 DEF QueueAcl, QueueControl, vars, hostVars, centralVars, Channel!vars
  <2>6. CASE Event
    <3>1. TxStep /\ UNCHANGED <<submitted, completed, hci>>
      BY <2>0, <2>6, EventIsStep DEF EventStep, hostVars
    <3>2. CASE delivered' = delivered
      BY <3>1, <3>2 DEF Channel!vars
    <3>3. CASE delivered' # delivered
      <4>1. Delivers /\ StagedFrame.owner = "Acl"
        BY <3>1, <3>3 DEF TxStep, Releases, Delivers, Repeats
      <4>2. pending \in Nat /\ StagedFrame.id = pending
        BY <2>0, <4>1, StagedHead
      <4>3. pending = released /\ released < Accepted
        BY <2>0, <4>2, NoneAssumption DEF QueueInv, Packet
      <4>4. Len(delivered) = released
        BY <2>0, <4>1 DEF AclInv, Delivers
      <4>5. delivered' = Append(delivered, Len(delivered))
        BY <4>1, <4>2, <4>3, <4>4 DEF Delivers
      <4>6. Len(delivered) < submitted
        BY <2>1, <2>2, <4>3, <4>4
      <4> QED BY <3>1, <4>5, <4>6 DEF Channel!Next, Channel!Deliver
    <3> QED BY <3>2, <3>3
  <2> QED BY <2>3, <2>4, <2>5, <2>6 DEF Next, Event
<1> QED BY <1>1, <1>2, ArqInvariant, PTL DEF Spec, ChannelSpec, Channel!Spec
=============================================================================
