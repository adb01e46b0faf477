----------------------------- MODULE Connection -----------------------------
(***************************************************************************)
(* The control plane of one Peripheral connection in the CH585 backend:    *)
(* run_connection, connection_event, handle_ll_control and the connected   *)
(* HCI commands, over the ProcedureManager of module Llcp.                 *)
(*                                                                         *)
(* ActiveConnection is the record conn.  The handlers assign its fields    *)
(* one after the other, so each stage of a handler is an operator from     *)
(* record to record and an action composes the stages in the order of the  *)
(* code.  conn.reason is the disconnect reason a handler returned (None    *)
(* while the link is up).                                                  *)
(*                                                                         *)
(* One action is one pass of run_connection's loop: it ends with the       *)
(* deadline checks at the top of the next pass.  A Host packet that the    *)
(* code takes before those checks cannot make a deadline unexpired.        *)
(*                                                                         *)
(* Abstractions.  Time is counted in connection intervals.  The one-bit    *)
(* sequence numbers are replaced by central.heard (the Central has         *)
(* accepted the current frame) and ACL data is one kind of frame: module   *)
(* LinkArq models both.  A token                                           *)
(* is the smallest number no PDU or context holds: the code's counter      *)
(* repeats only after 2^31 control PDUs of one connection.  pending_control*)
(* and queued_control are the only control slots: priority_control is only *)
(* ever swapped with or taken from, never filled, so it stays empty.       *)
(***************************************************************************)
EXTENDS Llcp

CONSTANTS
  SupervisionTicks,  \* the supervision timeout, in intervals
  InstantDeltas,     \* distances of the instants the Central sends (bounds the model)
  CentralOps         \* the control PDUs the Central sends (bounds the model)

Reasons == 0 .. 255
\* A queued control PDU: whether it is LL_TERMINATE_IND is all that is read
\* of its bytes.  A PDU outside every procedure (a reject) has no token: the
\* one the code draws for it matches no context.
Pdu == [terminate : BOOLEAN, token : Tokens \cup {None}]
Indication == [instant : Counters, changed : BOOLEAN]
ConnectionRecord ==
  [event_counter : Counters,
   procedures : Manager,
   pending_control : Pdu \cup {None},
   queued_control : Pdu \cup {None},
   transmitted : {"None", "Control", "Data"},   \* Data: an ACL or an empty PDU
   fresh : BOOLEAN,                       \* tx_frame_fresh
   update : Indication \cup {None},       \* pending_connection_update
   map : Counters \cup {None},            \* pending_channel_map: its instant
   request : BOOLEAN,                     \* local_connection_param_request.is_some()
   host_waits : BOOLEAN,                  \* the Host is owed an update result
   supervision : 0 .. SupervisionTicks,   \* time left to supervision_deadline
   reason : Reasons \cup {None}]

ASSUME ConnectionAssumption ==
  /\ SupervisionTicks \in Nat \ {0}
  /\ InstantDeltas \subseteq Counters
  /\ CentralOps \subseteq Opcodes
  /\ None \notin Pdu /\ None \notin Indication

VARIABLES
  conn,      \* the ActiveConnection
  central,   \* [heard, state]: the Central's view of the link
  last       \* the last step: "heard" (a good event whose response was heard),
             \* "reset" (HCI_Reset) or "other"

vars == <<conn, central, last>>

\* state: "up", "leaving" (it heard LL_TERMINATE_IND, its acknowledgement is
\* still to be sent) or "gone".
CentralView == [heard : BOOLEAN, state : {"up", "leaving", "gone"}]

NewConnection ==
  [event_counter |-> 0, procedures |-> NewManager,
   pending_control |-> None, queued_control |-> None,
   transmitted |-> "None", fresh |-> FALSE, update |-> None, map |-> None,
   request |-> FALSE, host_waits |-> FALSE, supervision |-> SupervisionTicks,
   reason |-> None]

Init ==
  /\ conn = NewConnection
  /\ central = [heard |-> FALSE, state |-> "up"]
  /\ last = "other"

Up == conn.reason = None
\* The ActiveConnection is dropped with everything it holds.
Disconnect(c, reason) == [NewConnection EXCEPT !.reason = reason]
\* Run a stage unless an earlier one has returned a reason.
Then(c, next) == IF c.reason # None THEN c ELSE next

\* The top of run_connection's loop.
CheckDeadlines(c) ==
  IF c.reason # None THEN c
  ELSE IF CheckTimeouts(c.procedures) THEN Disconnect(c, \h22)
  ELSE IF c.supervision = 0 THEN Disconnect(c, \h08)
  ELSE c
-----------------------------------------------------------------------------
(***************************************************************************)
(* Instants.                                                               *)
(***************************************************************************)
\* Mutant of ApplyInstants: the Host is told only of changed parameters.
ApplyInstantsNotifiesChanges(c) ==
  LET applied == c.update # None /\ c.update.instant = c.event_counter
      map_applies == c.map # None /\ c.map = c.event_counter
      notify == applied /\ c.update.changed
  IN  [c EXCEPT !.map = IF map_applies THEN None ELSE @,
                !.update = IF applied THEN None ELSE @,
                !.supervision = IF applied THEN SupervisionTicks ELSE @,
                !.request = IF applied THEN FALSE ELSE @,
                !.host_waits = IF notify THEN FALSE ELSE @,
                !.procedures = OnConnectionEvent(@, c.event_counter)]

\* apply_instants, with the notification its three callers add: the Host is
\* told when the parameters changed or its own request is being answered.
ApplyInstants(c) ==
  LET applied == c.update # None /\ c.update.instant = c.event_counter
      map_applies == c.map # None /\ c.map = c.event_counter
      notify == applied /\ (c.update.changed \/ c.request)
  IN  [c EXCEPT !.map = IF map_applies THEN None ELSE @,
                !.update = IF applied THEN None ELSE @,
                !.supervision = IF applied THEN SupervisionTicks ELSE @,
                !.request = IF applied THEN FALSE ELSE @,
                !.host_waits = IF notify THEN FALSE ELSE @,
                !.procedures = OnConnectionEvent(@, c.event_counter)]

ScheduleFollowingEvent(c) ==
  [c EXCEPT !.event_counter = (@ + 1) % EventModulus]

\* One connection interval passes.
Elapse(c) ==
  [c EXCEPT !.supervision = Elapsed(@), !.procedures = ElapseManager(@)]
-----------------------------------------------------------------------------
(***************************************************************************)
(* Control PDU queue and procedures.                                       *)
(***************************************************************************)
TokensInUse(c) ==
  {x.token : x \in {c.pending_control, c.queued_control,
                    c.procedures.local, c.procedures.remote} \ {None}} \ {None}

AllocateControlToken(c) ==
  CHOOSE t \in Tokens \ TokensInUse(c) :
    \A u \in Tokens \ TokensInUse(c) : t <= u

ControlQueueFull(c) == c.pending_control # None /\ c.queued_control # None

QueueControlWithToken(c, op, token) ==
  LET pdu == [terminate |-> op = "TERMINATE_IND", token |-> token]
  IN  IF c.pending_control = None THEN [c EXCEPT !.pending_control = pdu]
      ELSE IF c.queued_control = None THEN [c EXCEPT !.queued_control = pdu]
      ELSE c

QueueControl(c, op) == QueueControlWithToken(c, op, None)

\* Mutant of QueueRemoteProcedureResponse: a full queue leaves the context active.
QueueResponseKeepsContext(c, kind, op, expected, timeout) ==
  LET token == AllocateControlToken(c)
      ctx == NewContext(kind, token, expected, None, timeout)
      started == [c EXCEPT !.procedures = ResponseQueued(StartRemote(@, ctx), token)]
  IN  IF StartRemoteError(c.procedures, kind) # None
      THEN QueueControl(c, "REJECT_EXT_IND")
      ELSE QueueControlWithToken(started, op, token)

\* A request that another procedure refuses is answered with a reject; a
\* response that finds the queue full fails its new context and is not sent.
QueueRemoteProcedureResponse(c, kind, op, expected, timeout) ==
  LET token == AllocateControlToken(c)
      ctx == NewContext(kind, token, expected, None, timeout)
      started == [c EXCEPT !.procedures = ResponseQueued(StartRemote(@, ctx), token)]
  IN  IF StartRemoteError(c.procedures, kind) # None
      THEN QueueControl(c, "REJECT_EXT_IND")
      ELSE IF ControlQueueFull(c)
           THEN [c EXCEPT !.procedures.remote = None]
           ELSE QueueControlWithToken(started, op, token)

RemoteConnectionParametersActive(c) ==
  ActiveKind(c.procedures.remote, "ConnectionParameters")

LocalProcedureActive(c, kind) == ActiveKind(c.procedures.local, kind)

StartRemoteInstantProcedure(c, kind, instant) ==
  LET error == StartRemoteError(c.procedures, kind)
      ctx == NewContext(kind, AllocateControlToken(c), None, instant, None)
  IN  IF error = None
      THEN [c EXCEPT !.procedures = StartRemote(@, ctx)]
      ELSE Disconnect(c, IF error = Busy THEN \h23 ELSE error)

\* A refused start changes nothing; a full queue fails the new context.
LocalProcedureQueued(c) ==
  StartLocalError(c.procedures) = None /\ ~ControlQueueFull(c)

QueueLocalProcedure(c, kind, op, expected, timeout) ==
  LET token == AllocateControlToken(c)
      started == [c EXCEPT !.procedures =
                    StartLocal(@, NewContext(kind, token, expected, None, timeout))]
  IN  IF StartLocalError(c.procedures) # None THEN c
      ELSE IF ControlQueueFull(c)
           THEN [c EXCEPT !.procedures.local = None]
           ELSE QueueControlWithToken(started, op, token)

\* The contexts that own the PDU at the head of the queue: the code takes the
\* local one first, and no two contexts share a token.
OwnersOfPendingControl(c) ==
  {i \in Initiator : /\ c.pending_control # None /\ c.pending_control.token # None
                     /\ c.procedures[i] # None
                     /\ c.procedures[i].token = c.pending_control.token}

\* A stage on the owner of the pending PDU: nothing for a PDU without
\* procedure; 0x1f when the manager refuses the step.
WithOwner(c, Ready(_, _, _), Step(_, _)) ==
  LET owners == OwnersOfPendingControl(c)
      i == IF "local" \in owners THEN "local" ELSE "remote"
  IN  IF owners = {} THEN c
      ELSE IF Ready(c.procedures, i, c.pending_control.token)
           THEN [c EXCEPT !.procedures = Step(@, i)]
           ELSE Disconnect(c, \h1f)

PlanOnly(p, i) == p
-----------------------------------------------------------------------------
(***************************************************************************)
(* connection_event.                                                       *)
(***************************************************************************)
\* Choose the owner of the transmit frame and build it, unless a frame is
\* still waiting for its acknowledgement.
StageFrame(c) ==
  IF c.transmitted # "None" THEN c
  ELSE LET chosen == IF c.pending_control # None THEN "Control"
                     ELSE "Data"
           staged == [c EXCEPT !.transmitted = chosen, !.fresh = TRUE]
       IN  IF chosen = "Control" THEN WithOwner(staged, TxReady, PlanOnly) ELSE staged

\* The radio reports that the frame was transmitted.
CompleteTransmit(c, transmitted) ==
  IF ~(c.fresh /\ transmitted) THEN c
  ELSE LET done == IF c.transmitted = "Control"
                   THEN WithOwner(c, TxReady, TxDone) ELSE c
       IN  Then(done, [done EXCEPT !.fresh = FALSE])

SentTerminate(c, transmitted) ==
  /\ transmitted /\ c.transmitted = "Control"
  /\ LocalProcedureActive(c, "Termination")
  /\ c.pending_control # None /\ c.pending_control.terminate

\* Mutant of Acknowledge: the queued PDU is lost with the acknowledged one.
AcknowledgeDropsQueue(c) ==
  LET acked == IF c.transmitted = "Control"
               THEN WithOwner(c, NesnAckReady, NesnAck) ELSE c
  IN  Then(acked,
        [acked EXCEPT
           !.pending_control = IF c.transmitted = "Control" THEN None ELSE @,
           !.queued_control = IF c.transmitted = "Control" THEN None ELSE @,
           !.transmitted = "None", !.fresh = FALSE])

\* The Central's NESN acknowledges the frame carried into the event.
Acknowledge(c) ==
  LET acked == IF c.transmitted = "Control"
               THEN WithOwner(c, NesnAckReady, NesnAck) ELSE c
  IN  Then(acked,
        [acked EXCEPT
           !.pending_control = IF c.transmitted = "Control" THEN c.queued_control ELSE @,
           !.queued_control = IF c.transmitted = "Control" THEN None ELSE @,
           !.transmitted = "None", !.fresh = FALSE])
-----------------------------------------------------------------------------
(***************************************************************************)
(* handle_ll_control: one operator per opcode of the Central's PDU.        *)
(***************************************************************************)
\* The local request fails and the Host is told so; its PDU, if it is still
\* queued or unacknowledged, stays where it is.
FailLocalRequest(c) ==
  IF ~c.request THEN c
  ELSE [c EXCEPT !.request = FALSE, !.host_waits = FALSE,
                 !.procedures = Fail(@, "local")]

OwnUpdate(c, instant) ==
  LET i == IF c.request THEN "local" ELSE "remote"
  IN  IF c.request \/ RemoteConnectionParametersActive(c)
      THEN IF ExpectsResponse(c.procedures, i, "UPDATE_IND")
           THEN [c EXCEPT !.procedures = ExpectedResponseWithInstant(@, i, instant)]
           ELSE Disconnect(c, \h3d)
      ELSE StartRemoteInstantProcedure(c, "ConnectionUpdate", instant)

OnUpdateInd(c, pdu) ==
  IF ~pdu.valid THEN Disconnect(c, \h1e)
  ELSE IF IsPassed(c.event_counter, pdu.instant) THEN Disconnect(c, \h28)
  ELSE IF c.update # None THEN Disconnect(c, \h1e)
  ELSE IF c.request /\ ~pdu.accepts THEN Disconnect(c, \h20)
  ELSE LET owned == OwnUpdate(c, pdu.instant)
       IN  Then(owned, [owned EXCEPT !.update = [instant |-> pdu.instant,
                                                 changed |-> pdu.changed]])

OnChannelMapInd(c, pdu) ==
  IF ~pdu.valid THEN Disconnect(c, \h1e)
  ELSE IF IsPassed(c.event_counter, pdu.instant) THEN Disconnect(c, \h28)
  ELSE IF c.map # None THEN Disconnect(c, \h1e)
  ELSE LET owned == StartRemoteInstantProcedure(FailLocalRequest(c),
                                                "ChannelMapUpdate", pdu.instant)
       IN  Then(owned, [owned EXCEPT !.map = pdu.instant])

\* LL_UNKNOWN_RSP and LL_REJECT_EXT_IND: rejected is the opcode they refuse.
OnRejected(c, pdu) ==
  IF pdu.rejected = "PARAM_REQ" /\ c.request THEN FailLocalRequest(c)
  ELSE IF /\ pdu.op = "REJECT_EXT_IND" /\ pdu.rejected = "PARAM_RSP"
          /\ RemoteConnectionParametersActive(c)
       THEN [c EXCEPT !.procedures = Fail(@, "remote"), !.host_waits = FALSE]
       ELSE c

OnParamReq(c, pdu) ==
  IF ~pdu.valid \/ c.map # None \/ c.update # None
  THEN QueueControl(c, "REJECT_EXT_IND")
  ELSE QueueRemoteProcedureResponse(FailLocalRequest(c), "ConnectionParameters",
                                    "PARAM_RSP", "UPDATE_IND", ResponseTimeout)

PlainKind == [FEATURE_REQ |-> "FeatureExchange", VERSION_IND |-> "VersionExchange",
              PING_REQ |-> "Ping"]
PlainResponse == [FEATURE_REQ |-> "FEATURE_RSP", VERSION_IND |-> "VERSION_IND",
                  PING_REQ |-> "PING_RSP"]

HandleLlControl(c, pdu) ==
  CASE pdu.op = "UPDATE_IND" -> OnUpdateInd(c, pdu)
    [] pdu.op = "CHANNEL_MAP_IND" -> OnChannelMapInd(c, pdu)
    [] pdu.op = "TERMINATE_IND" -> Disconnect(c, IF pdu.valid THEN \h13 ELSE \h1e)
    [] pdu.op \in {"UNKNOWN_RSP", "REJECT_EXT_IND"} -> OnRejected(c, pdu)
    [] pdu.op \in DOMAIN PlainKind ->
         QueueRemoteProcedureResponse(c, PlainKind[pdu.op], PlainResponse[pdu.op],
                                      None, None)
    [] pdu.op = "PARAM_REQ" -> OnParamReq(c, pdu)
    [] pdu.op = "PARAM_RSP" -> QueueControl(c, "REJECT_EXT_IND")
    [] OTHER -> QueueControl(c, "UNKNOWN_RSP")
-----------------------------------------------------------------------------
(***************************************************************************)
(* What the Central may send, and one connection event.                    *)
(***************************************************************************)
NoPdu == [op |-> None]   \* an empty PDU, data, or a PDU already received

\* accepts: the update lies in the range of the local request; changed: its
\* parameters are not the current ones.  Both matter only to a request.
CentralPdus(c) ==
  LET instants == {(c.event_counter + d) % EventModulus : d \in InstantDeltas}
      pdus == [op : {"UPDATE_IND"}, valid : {TRUE}, accepts : {TRUE, ~c.request},
               changed : {TRUE, ~c.request}, instant : instants]
        \cup [op : {"CHANNEL_MAP_IND"}, valid : {TRUE}, instant : instants]
        \cup [op : {"UPDATE_IND", "CHANNEL_MAP_IND"}, valid : {FALSE}]
        \cup [op : {"TERMINATE_IND", "PARAM_REQ"}, valid : BOOLEAN]
        \cup [op : {"UNKNOWN_RSP", "REJECT_EXT_IND"}, rejected : {"PARAM_REQ", "PARAM_RSP"}]
        \cup [op : DOMAIN PlainKind \cup {"PARAM_RSP", "UNSUPPORTED"}]
  IN  {NoPdu} \cup {pdu \in pdus : pdu.op \in CentralOps}

\* Software's view of the exchange.  rx: "none" (no packet, the event ends
\* there), "bad" (CRC, length or LLID refused) or "good".  transmitted: the
\* radio confirmed the response.
Exchange(c, rx, transmitted, acked, pdu) ==
  LET staged == StageFrame(ApplyInstants(c))
      sent == Then(staged, IF rx = "none" THEN staged
                           ELSE CompleteTransmit(staged, transmitted))
      terminate == SentTerminate(sent, transmitted)
      valid == [sent EXCEPT !.supervision = SupervisionTicks]
      answered == IF acked THEN Acknowledge(valid) ELSE valid
      handled == Then(answered, IF pdu = NoPdu THEN answered
                                ELSE HandleLlControl(answered, pdu))
      finished == IF terminate THEN Disconnect(handled, \h16)
                  ELSE Then(handled, ApplyInstants(handled))
  IN  IF rx # "good" THEN sent
      ELSE Then(sent, Then(answered, finished))

\* The Central accepts a frame it hears for the first time, and leaves when
\* that frame is LL_TERMINATE_IND: it still sends the acknowledgement.
CentralAfter(frame, hears, acked) ==
  LET leaves == /\ hears /\ ~central.heard
                /\ frame.transmitted = "Control"
                /\ frame.pending_control.terminate
  IN  [heard |-> ~acked /\ (central.heard \/ hears),
       state |-> IF central.state # "up" THEN "gone"
                 ELSE IF leaves THEN "leaving" ELSE "up"]

\* One pass of run_connection's loop through connection_event.  Whether the
\* Central hears the response, one of Hears, is not known to software.
EventEnds(rx, transmitted, Hears, pdu) ==
  LET before == Elapse(conn)
      frame == StageFrame(ApplyInstants(before))
      acked == rx = "good" /\ ~frame.fresh /\ central.heard
      after == Exchange(before, rx, transmitted, acked, pdu)
  IN  /\ Up
      /\ conn' = CheckDeadlines(Then(after, ScheduleFollowingEvent(after)))
      /\ \E hears \in Hears :
           /\ central' = IF frame.reason = None
                         THEN CentralAfter(frame, hears, acked) ELSE central
           /\ last' = IF rx = "good" /\ transmitted /\ hears THEN "heard" ELSE "other"

\* Nothing is received: nothing is transmitted either.
MissedEvent == EventEnds("none", FALSE, {FALSE}, NoPdu)

\* A packet is received and refused.
RefusedEvent(transmitted) ==
  /\ Up /\ central.state # "gone"
  /\ EventEnds("bad", transmitted, BOOLEAN, NoPdu)

\* A packet is received and accepted, with a new control PDU or without.
ReceivedEvent(transmitted, pdu) ==
  /\ Up /\ central.state # "gone"
  /\ pdu # NoPdu => central.state = "up"
  /\ EventEnds("good", transmitted, BOOLEAN, pdu)

\* Mutant of SkipEvent: a skipped event does not look at the instants.
SkipEventForgetsInstants(c) == ScheduleFollowingEvent(Elapse(c))

SkipEvent(c) == ScheduleFollowingEvent(ApplyInstants(Elapse(c)))

\* The receive windows of one or two events elapsed while the Host held the
\* executor: skip_expired_events passes over them without the deadline check.
SkipExpiredEvents(two) ==
  /\ Up
  /\ conn' = CheckDeadlines(IF two THEN SkipEvent(SkipEvent(conn)) ELSE SkipEvent(conn))
  /\ central' = [central EXCEPT !.state = IF @ = "leaving" THEN "gone" ELSE @]
  /\ last' = "other"
-----------------------------------------------------------------------------
(***************************************************************************)
(* Host packets: process_connected_host_packet.                            *)
(***************************************************************************)
\* HCI_Disconnect: refused while a termination is active, BUSY while another
\* local procedure is, or when the control queue is full.
HciDisconnect ==
  /\ Up
  /\ ~LocalProcedureActive(conn, "Termination")
  /\ conn' = QueueLocalProcedure(conn, "Termination", "TERMINATE_IND", None, None)
  /\ last' = "other" /\ UNCHANGED central

\* Mutant of UpdateBusy: only the Host's own request makes the command busy.
UpdateBusyOwnOnly(c) == c.request

UpdateBusy(c) ==
  c.request \/ RemoteConnectionParametersActive(c) \/ c.update # None \/ c.map # None

HciConnectionUpdate ==
  /\ Up
  /\ ~UpdateBusy(conn)
  /\ conn' = [QueueLocalProcedure(conn, "ConnectionParameters", "PARAM_REQ",
                                  "UPDATE_IND", ResponseTimeout)
              EXCEPT !.request = LocalProcedureQueued(conn),
                     !.host_waits = @ \/ LocalProcedureQueued(conn)]
  /\ last' = "other" /\ UNCHANGED central

HciReset ==
  /\ Up
  /\ conn' = Disconnect(conn, \h16)
  /\ last' = "reset" /\ UNCHANGED central

\* The advertiser connects again after the link ended.
Reconnect ==
  /\ ~Up
  /\ conn' = NewConnection
  /\ central' = [heard |-> FALSE, state |-> "up"]
  /\ last' = "other"

Next ==
  \/ MissedEvent
  \/ \E transmitted \in BOOLEAN : RefusedEvent(transmitted)
  \/ \E transmitted \in BOOLEAN, pdu \in CentralPdus(conn) :
       ReceivedEvent(transmitted, pdu)
  \/ \E two \in BOOLEAN : SkipExpiredEvents(two)
  \/ HciDisconnect
  \/ HciConnectionUpdate
  \/ HciReset
  \/ Reconnect

Spec == Init /\ [][Next]_vars

\* While the link is up, connection events keep coming (the event counter
\* keeps going round), and while the Central is there some of its packets
\* arrive and are answered by a frame it hears.
Fairness ==
  /\ []<>(conn.event_counter = 0 \/ ~Up) /\ []<>(conn.event_counter # 0 \/ ~Up)
  /\ []<>(last = "heard" \/ central.state # "up" \/ ~Up)

FairSpec == Spec /\ Fairness
-----------------------------------------------------------------------------
\* Type invariant.
TypeOK ==
  /\ conn \in ConnectionRecord
  /\ central \in CentralView
  /\ last \in {"heard", "reset", "other"}

QueuedTokens == {x.token : x \in {conn.pending_control, conn.queued_control} \ {None}}

\* A procedure that waits for its PDU to be sent or acknowledged has that PDU
\* in the control queue, and at its head once it is on air.  No timer runs in
\* these phases: a procedure without PDU would stay active for ever.
NoOrphanProcedure ==
  \A i \in Initiator :
    LET ctx == conn.procedures[i]
    IN  /\ ctx # None /\ ctx.phase \in HoldsPdu => ctx.token \in QueuedTokens
        /\ ctx # None /\ ctx.phase = "AwaitingTxAck" =>
             /\ conn.transmitted = "Control" /\ ~conn.fresh
             /\ conn.pending_control.token = ctx.token

\* The instant of a stored indication is never passed over, across the wrap
\* of the event counter and skipped events included, and a procedure that
\* waits for an instant has the indication to apply at it.
InstantNeverMissed ==
  /\ conn.update # None => ~IsPassed(conn.event_counter, conn.update.instant)
  /\ conn.map # None => ~IsPassed(conn.event_counter, conn.map)
  /\ \A i \in Initiator :
       LET ctx == conn.procedures[i]
       IN  ctx # None /\ ctx.phase = "AwaitingInstant" =>
             IF ctx.kind = "ChannelMapUpdate"
             THEN conn.map = ctx.instant
             ELSE conn.update # None /\ conn.update.instant = ctx.instant

\* Of the local and the remote procedure at most one bears an instant:
\* the BUSY checks of HCI_LE_Connection_Update and the collision rules of
\* handle_ll_control together keep the other out.
NoInstantOverlap ==
  ~ \A i \in Initiator :
      Active(conn.procedures[i]) /\ conn.procedures[i].kind \in InstantKinds

\* While the link is up the Host is owed an LE Connection Update Complete
\* exactly as long as its request is stored, and the request is stored
\* exactly as long as its procedure is active.
\* Excluded are a request dropped without its answer and one kept after it,
\* which the next applied update would answer again.
UpdateAnswered ==
  /\ conn.host_waits <=> conn.request
  /\ conn.request <=> LocalProcedureActive(conn, "ConnectionParameters")

\* An armed response deadline runs on whatever is received or queued: every
\* interval brings it closer, and no step moves it away.
DeadlineNeverRestarted ==
  [][\A i \in Initiator :
       LET before == conn.procedures[i]
           after == conn'.procedures[i]
       IN  (before # None /\ after # None /\ before.deadline # None
              /\ after.deadline # None) =>
             IF conn'.event_counter # conn.event_counter
             THEN after.deadline < before.deadline
             ELSE after.deadline = before.deadline]_vars

\* An accepted HCI_Disconnect ends the link, even when the Central has left
\* and the acknowledgement is lost.
DisconnectEnds == LocalProcedureActive(conn, "Termination") ~> ~Up

\* An accepted connection update request is answered or the link ends.
UpdateEnds == conn.request ~> ~conn.request

\* What the acceptance contract asks of control collisions: the owner of a
\* transmitted, unacknowledged control PDU is retained.
UnackedOwnerRetained ==
  conn.transmitted = "Control" /\ ~conn.fresh =>
    \A i \in OwnersOfPendingControl(conn) : Active(conn.procedures[i])

\* What the procedure tests ask of local termination: the link is given up
\* only when the Central has taken LL_TERMINATE_IND and could acknowledge it.
TerminationAcknowledged ==
  [][/\ LocalProcedureActive(conn, "Termination")
     /\ last' # "reset" /\ conn'.reason = \h16
     => central.heard]_vars
=============================================================================
