-------------------------------- MODULE Llcp --------------------------------
(***************************************************************************)
(* The ProcedureManager of ble-controller: one local and one remote        *)
(* control procedure, each a context that advances on exact TX, NESN,      *)
(* response, timeout and instant events.                                   *)
(*                                                                         *)
(* A manager is a record p = [local, remote]; every method is an operator  *)
(* from the manager before the call to the manager after it, with its      *)
(* error conditions in an operator of their own.  A context's deadline is  *)
(* the time that is left, in ticks (one tick is one connection interval),  *)
(* so a later deadline is a larger number; None is the code's deadline 0.  *)
(* The fields tx_opcode and error are written and never read: left out.    *)
(*                                                                         *)
(* Nothing of a finished context is read again but its token, to find the  *)
(* owner of a queued PDU.  So a procedure slot is None when no context was *)
(* ever stored in it, or when the one stored is Complete or Failed and its *)
(* PDU has left the queue; a context that failed while its PDU was still   *)
(* queued or unacknowledged is kept, in phase Failed.                      *)
(***************************************************************************)
EXTENDS Integers, FiniteSets

CONSTANTS
  None,             \* the absent value of an Option
  EventModulus,     \* 65536: event counters and instants are u16 and wrap
  ResponseTimeout   \* PROCEDURE_RESPONSE_TIMEOUT_US, in ticks

Initiator == {"local", "remote"}
InstantKinds == {"ConnectionParameters", "ConnectionUpdate", "ChannelMapUpdate"}
Kinds == InstantKinds \cup
         {"Termination", "FeatureExchange", "VersionExchange", "Ping"}
Waiting == {"AwaitingResponse", "AwaitingInstant"}
Unsent == {"Queued", "ResponseQueued"}
HoldsPdu == Unsent \cup {"AwaitingTxAck"}
Phases == Waiting \cup HoldsPdu \cup {"Failed"}

\* At most four tokens are in use: two queued PDUs, two contexts.
Tokens == 0 .. 4
Counters == 0 .. EventModulus - 1
Ticks == 0 .. ResponseTimeout

\* Control PDUs, with the opcodes of LL_CONNECTION_UPDATE_IND and the rest.
Opcodes ==
  {"UPDATE_IND", "CHANNEL_MAP_IND", "TERMINATE_IND", "UNKNOWN_RSP", "REJECT_EXT_IND",
   "FEATURE_REQ", "FEATURE_RSP", "VERSION_IND", "PARAM_REQ", "PARAM_RSP",
   "PING_REQ", "PING_RSP", "UNSUPPORTED"}

Context ==
  [kind : Kinds,
   phase : Phases,
   token : Tokens,
   expected : Opcodes \cup {None},       \* expected_response_opcode
   instant : Counters \cup {None},
   timeout : Ticks \cup {None},          \* response_timeout_us
   deadline : Ticks \cup {None},         \* response_deadline_us
   pending_response : BOOLEAN]

Manager == [local : Context \cup {None}, remote : Context \cup {None}]

ASSUME LlcpAssumption ==
  /\ EventModulus \in Nat /\ EventModulus >= 6 /\ EventModulus % 2 = 0
  /\ ResponseTimeout \in Nat \ {0}
  /\ None \notin Context /\ None \notin Opcodes /\ None \notin Int
-----------------------------------------------------------------------------
NewContext(kind, token, expected, instant, timeout) ==
  [kind |-> kind, phase |-> "Queued", token |-> token, expected |-> expected,
   instant |-> instant, timeout |-> timeout, deadline |-> None,
   pending_response |-> FALSE]

NewManager == [local |-> None, remote |-> None]

Active(ctx) == ctx # None /\ ctx.phase # "Failed"

ActiveKind(ctx, kind) == Active(ctx) /\ ctx.kind = kind

\* 0x23 for the same procedure, or for an update against a parameter
\* request; 0x2a for different ones.
ProcedureCollisionError(a, b) ==
  IF a = b \/ {a, b} = {"ConnectionUpdate", "ConnectionParameters"}
  THEN \h23 ELSE \h2a

Busy == 0   \* ProcedureError::Busy, beside the collision error codes

Collision(owner, kind) ==
  IF owner \in InstantKinds /\ kind \in InstantKinds
  THEN ProcedureCollisionError(owner, kind) ELSE Busy

StartLocalError(p) == IF Active(p.local) THEN Busy ELSE None

StartLocal(p, ctx) == [p EXCEPT !.local = ctx]

\* An active remote procedure refuses every other; an active local one only
\* when both bear an instant.
StartRemoteError(p, kind) ==
  IF Active(p.remote) THEN Collision(p.remote.kind, kind)
  ELSE IF /\ Active(p.local)
          /\ p.local.kind \in InstantKinds /\ kind \in InstantKinds
       THEN Collision(p.local.kind, kind)
       ELSE None

\* A remote indication with an instant needs no local transmission.
StartRemote(p, ctx) ==
  [p EXCEPT !.remote =
     IF ctx.instant # None THEN [ctx EXCEPT !.phase = "AwaitingInstant"] ELSE ctx]

\* The check of tx_planned, and of tx_done, for the context that i names.
TxReady(p, i, token) ==
  /\ p[i] # None /\ p[i].token = token
  /\ p[i].phase \in Unsent

TxDone(p, i) == [p EXCEPT ![i].phase = "AwaitingTxAck"]

NesnAckReady(p, i, token) ==
  /\ p[i] # None /\ p[i].token = token
  /\ p[i].phase = "AwaitingTxAck"

\* Mutant of AckedContext: the response timer is not started.
AckedWithoutDeadline(ctx) ==
  IF ctx.expected # None /\ ~(ctx.pending_response /\ ctx.instant # None)
  THEN [ctx EXCEPT !.phase = "AwaitingResponse", !.pending_response = FALSE]
  ELSE IF ctx.instant # None
       THEN [ctx EXCEPT !.phase = "AwaitingInstant", !.pending_response = FALSE]
       ELSE None

\* An acknowledged request waits for its response first and for its instant
\* after that; an acknowledged response with an instant only for the instant.
AckedContext(ctx) ==
  IF ctx.expected # None /\ ~(ctx.pending_response /\ ctx.instant # None)
  THEN [ctx EXCEPT !.phase = "AwaitingResponse", !.deadline = ctx.timeout,
                   !.pending_response = FALSE]
  ELSE IF ctx.instant # None
       THEN [ctx EXCEPT !.phase = "AwaitingInstant", !.pending_response = FALSE]
       ELSE None

NesnAck(p, i) == [p EXCEPT ![i] = AckedContext(p[i])]

ExpectsResponse(p, i, opcode) ==
  /\ p[i] # None
  /\ p[i].phase = "AwaitingResponse" /\ p[i].expected = opcode

\* Mutant of ExpectedResponseWithInstant: the indication restarts the timer.
ExpectedResponseRestartsTimer(p, i, instant) ==
  [p EXCEPT ![i].phase = "AwaitingInstant", ![i].instant = instant,
            ![i].deadline = ResponseTimeout]

\* The response timer keeps running until the instant.
ExpectedResponseWithInstant(p, i, instant) ==
  [p EXCEPT ![i].phase = "AwaitingInstant", ![i].instant = instant]

ResponseQueued(p, token) ==
  [p EXCEPT !.remote.token = token, !.remote.pending_response = TRUE,
            !.remote.phase = "ResponseQueued"]

Expired(ctx) == ctx # None /\ ctx.phase \in Waiting /\ ctx.deadline = 0

\* check_timeouts: it fails every expired context and reports whether any did.
CheckTimeouts(p) == \E i \in Initiator : Expired(p[i])

\* fail() does not look at the phase: a context may fail while its PDU is
\* queued or on air.
FailedContext(ctx) ==
  IF ctx # None /\ ctx.phase \in HoldsPdu \cup {"Failed"}
  THEN [ctx EXCEPT !.phase = "Failed", !.deadline = None, !.pending_response = FALSE]
  ELSE None

Fail(p, i) == [p EXCEPT ![i] = FailedContext(@)]

\* classify_instant: the distance from the counter to the instant, mod 2^16.
Delta(counter, instant) == (instant - counter) % EventModulus
FutureLimit == EventModulus \div 2 - 2
IsCurrent(counter, instant) == Delta(counter, instant) = 0
IsPassed(counter, instant) == Delta(counter, instant) > FutureLimit

\* An instant that is current completes its procedure, a passed one fails it.
OnConnectionEventContext(ctx, counter) ==
  IF /\ ctx # None /\ ctx.phase = "AwaitingInstant" /\ ctx.instant # None
     /\ IsCurrent(counter, ctx.instant) \/ IsPassed(counter, ctx.instant)
  THEN None ELSE ctx

OnConnectionEvent(p, counter) ==
  [i \in Initiator |-> OnConnectionEventContext(p[i], counter)]

\* Time passes: one tick off every running deadline.
Elapsed(d) == IF d = None \/ d = 0 THEN d ELSE d - 1

ElapseManager(p) ==
  [i \in Initiator |->
     IF p[i] = None THEN None ELSE [p[i] EXCEPT !.deadline = Elapsed(p[i].deadline)]]
=============================================================================
