-------------------------- MODULE ConnectionProofs --------------------------
(***************************************************************************)
(* Proofs about Connection, for every range of the event counter, response *)
(* timeout, supervision timeout and choice of the Central's control PDUs.  *)
(* The handlers are stages from record to record, so the invariant is a    *)
(* predicate of a record: one lemma says of each stage that it keeps it,   *)
(* and the actions compose the stages.                                     *)
(***************************************************************************)
EXTENDS Connection, TLAPS

-----------------------------------------------------------------------------
(***************************************************************************)
(* The inductive invariant.                                                *)
(***************************************************************************)
\* A context without PDU to send has its instant; only a parameter request
\* waits for a response; a timer runs only in the waiting phases.
SoundContext(x) ==
  x # None =>
    /\ x.kind \in {"ConnectionUpdate", "ChannelMapUpdate"} => x.phase = "AwaitingInstant"
    /\ x.phase \in HoldsPdu => x.instant = None
    /\ x.phase = "AwaitingInstant" => x.instant \in Counters
    /\ x.kind = "ConnectionParameters" => x.expected # None
    /\ x.deadline # None => x.phase \in Waiting

\* No two contexts own the same PDU.
TokensApart(x, y) == x # None /\ y # None => x.token # y.token

CarriesToken(pdu, token) == pdu # None /\ pdu.token = token

\* The PDU of a context that waits for its transmission is queued, and at the
\* head once it is on air.
HoldsItsPdu(x, c) ==
  x # None =>
    /\ x.phase \in HoldsPdu => \/ CarriesToken(c.pending_control, x.token)
                               \/ CarriesToken(c.queued_control, x.token)
    /\ x.phase = "AwaitingTxAck" => /\ c.transmitted = "Control" /\ ~c.fresh
                                    /\ CarriesToken(c.pending_control, x.token)

\* A context that waits for an instant has its indication.
HasIndication(x, c) ==
  x # None /\ x.phase = "AwaitingInstant" =>
    IF x.kind = "ChannelMapUpdate" THEN c.map = x.instant
    ELSE c.update # None /\ c.update.instant = x.instant

NotPassed(c) ==
  /\ c.update # None => ~IsPassed(c.event_counter, c.update.instant)
  /\ c.map # None => ~IsPassed(c.event_counter, c.map)

BearsInstant(x) == Active(x) /\ x.kind \in InstantKinds

\* The Host waits as long as its request is stored, that is as long as its
\* procedure is active; with an indication stored it only waits for the instant.
RequestTracked(c) ==
  /\ c.host_waits = c.request
  /\ c.request <=> ActiveKind(c.procedures.local, "ConnectionParameters")
  /\ c.request /\ c.update # None => c.procedures.local.phase = "AwaitingInstant"

SoundProcedures(p) ==
  /\ SoundContext(p.local) /\ SoundContext(p.remote)
  /\ TokensApart(p.local, p.remote)
  /\ ~(BearsInstant(p.local) /\ BearsInstant(p.remote))

Sound(c) ==
  /\ c \in ConnectionRecord
  /\ SoundProcedures(c.procedures)
  /\ HoldsItsPdu(c.procedures.local, c) /\ HoldsItsPdu(c.procedures.remote, c)
  /\ HasIndication(c.procedures.local, c) /\ HasIndication(c.procedures.remote, c)
  /\ NotPassed(c)
  /\ RequestTracked(c)

\* No stored instant is the current event: the counter may advance.
NotDue(c) ==
  /\ c.update # None => c.update.instant # c.event_counter
  /\ c.map # None => c.map # c.event_counter

\* Between two passes of the loop no timer has expired.
Unexpired(p) == \A i \in Initiator : p[i] # None => p[i].deadline # 0

IInv ==
  /\ TypeOK
  /\ Sound(conn)
  /\ Unexpired(conn.procedures)

-----------------------------------------------------------------------------
(***************************************************************************)
(* Event counters and tokens.                                              *)
(***************************************************************************)
\* An integer is its quotient's multiple and its remainder.
LEMMA Division ==
  ASSUME NEW n \in Nat \ {0}, NEW a \in Int
  PROVE  /\ a \div n \in Int /\ a % n \in 0 .. n - 1
         /\ a = n * (a \div n) + (a % n)
  OBVIOUS

\* The remainder is unique.
LEMMA Remainder ==
  ASSUME NEW n \in Nat \ {0}, NEW q \in Int, NEW r \in 0 .. n - 1
  PROVE  (n * q + r) % n = r
  OBVIOUS

\* The distance from a counter to an instant, without the remainder.
LEMMA DeltaFacts ==
  ASSUME NEW e \in Counters, NEW x \in Counters
  PROVE  Delta(e, x) = IF x >= e THEN x - e ELSE x - e + EventModulus
<1> DEFINE n == EventModulus
<1>0. n \in Nat \ {0} /\ e \in 0 .. n - 1 /\ x \in 0 .. n - 1
  BY LlcpAssumption DEF Counters
<1> HIDE DEF n
<1>1. CASE x >= e
  <2> DEFINE r == x - e
             q == 0
  <2>1. r \in 0 .. n - 1 /\ q \in Int /\ n * q + r = r
    BY <1>0, <1>1
  <2> HIDE DEF r, q
  <2>2. (n * q + r) % n = r
    BY <1>0, <2>1, Remainder
  <2>3. r % n = r
    BY <2>1, <2>2
  <2> QED BY <1>1, <2>3 DEF r, n, Delta
<1>2. CASE ~(x >= e)
  <2> DEFINE r == x - e + n
             q == -1
  <2>1. r \in 0 .. n - 1 /\ q \in Int /\ n * q + r = x - e
    BY <1>0, <1>2
  <2> HIDE DEF r, q
  <2>2. (n * q + r) % n = r
    BY <1>0, <2>1, Remainder
  <2>3. (x - e) % n = r
    BY <2>1, <2>2
  <2> QED BY <1>2, <2>3 DEF r, n, Delta
<1> QED BY <1>1, <1>2

\* The counter after this one.
LEMMA NextCounter ==
  ASSUME NEW e \in Counters
  PROVE  /\ (e + 1) % EventModulus \in Counters
         /\ (e + 1) % EventModulus = IF e = EventModulus - 1 THEN 0 ELSE e + 1
<1> DEFINE n == EventModulus
<1>0. n \in Nat \ {0} /\ e \in 0 .. n - 1 /\ n > 1
  BY LlcpAssumption DEF Counters
<1> HIDE DEF n
<1>1. CASE e = n - 1
  <2> DEFINE r == 0
             q == 1
  <2>1. r \in 0 .. n - 1 /\ q \in Int /\ n * q + r = e + 1
    BY <1>0, <1>1
  <2> HIDE DEF r, q
  <2>2. (n * q + r) % n = r
    BY <1>0, <2>1, Remainder
  <2>3. (e + 1) % n = r
    BY <2>1, <2>2
  <2> QED BY <1>0, <1>1, <2>3 DEF r, n, Counters
<1>2. CASE e # n - 1
  <2> DEFINE r == e + 1
             q == 0
  <2>1. r \in 0 .. n - 1 /\ q \in Int /\ n * q + r = r
    BY <1>0, <1>2
  <2> HIDE DEF r, q
  <2>2. (n * q + r) % n = r
    BY <1>0, <2>1, Remainder
  <2>3. r % n = r
    BY <2>1, <2>2
  <2> QED BY <1>0, <1>2, <2>1, <2>3 DEF r, n, Counters
<1> QED BY <1>1, <1>2 DEF n

\* How the future of the counter is bounded.
LEMMA LimitFacts ==
  FutureLimit \in Int /\ FutureLimit < EventModulus - 1
  BY LlcpAssumption DEF FutureLimit

\* The counter reaches an instant exactly when the distance is 0.
LEMMA CurrentIsEqual ==
  ASSUME NEW e \in Counters, NEW x \in Counters
  PROVE  IsCurrent(e, x) <=> x = e
<1>1. Delta(e, x) = IF x >= e THEN x - e ELSE x - e + EventModulus
  BY DeltaFacts
<1> QED BY <1>1, LlcpAssumption DEF IsCurrent, Counters

\* An instant that is ahead of this event is not passed at the next one.
LEMMA StaysAhead ==
  ASSUME NEW e \in Counters, NEW x \in Counters, x # e, ~IsPassed(e, x)
  PROVE  ~IsPassed((e + 1) % EventModulus, x)
<1> DEFINE f == (e + 1) % EventModulus
           n == EventModulus
<1>1. f \in Counters /\ f = IF e = n - 1 THEN 0 ELSE e + 1
  BY NextCounter
<1>2. Delta(e, x) = IF x >= e THEN x - e ELSE x - e + n
  BY DeltaFacts
<1> HIDE DEF f
<1>3. Delta(f, x) = IF x >= f THEN x - f ELSE x - f + n
  BY <1>1, DeltaFacts
<1>4. n \in Nat /\ e \in 0 .. n - 1 /\ x \in 0 .. n - 1 /\ n >= 6
  BY LlcpAssumption DEF Counters
<1> HIDE DEF n
<1>5. Delta(f, x) = Delta(e, x) - 1
  <2>1. CASE e = n - 1
    BY <1>1, <1>2, <1>3, <1>4, <2>1
  <2>2. CASE e # n - 1
    BY <1>1, <1>2, <1>3, <1>4, <2>2
  <2> QED BY <2>1, <2>2
<1>6. ~IsPassed(f, x)
  BY <1>2, <1>4, <1>5, LimitFacts DEF IsPassed
<1> QED BY <1>6 DEF f

\* The absent value is no context, PDU, indication or number.
LEMMA NoneFacts ==
  /\ None \notin Context /\ None \notin Pdu /\ None \notin Indication
  /\ None \notin Counters /\ None \notin Ticks /\ None \notin Tokens
  /\ None \notin Reasons /\ None \notin Opcodes
  BY LlcpAssumption, ConnectionAssumption DEF Counters, Ticks, Tokens, Reasons

\* Five tokens are enough: a token that no PDU and no context holds exists,
\* and the next PDU takes one.
LEMMA FreshToken ==
  ASSUME NEW c \in ConnectionRecord
  PROVE  /\ AllocateControlToken(c) \in Tokens
         /\ c.procedures.local # None => c.procedures.local.token # AllocateControlToken(c)
         /\ c.procedures.remote # None => c.procedures.remote.token # AllocateControlToken(c)
<1> DEFINE P == c.pending_control
           Q == c.queued_control
           L == c.procedures.local
           R == c.procedures.remote
           used == TokensInUse(c)
           free == Tokens \ used
<1>1. used \subseteq {P.token, Q.token, L.token, R.token}
  BY DEF TokensInUse
<1>2. /\ L # None => L.token \in used
      /\ R # None => R.token \in used
  <2>1. /\ L # None => L.token \in Tokens
        /\ R # None => R.token \in Tokens
    BY DEF ConnectionRecord, Manager, Context
  <2> QED BY <2>1, NoneFacts DEF TokensInUse
<1> HIDE DEF used, P, Q, L, R
<1>3. \E t \in free : \A u \in free : t <= u
  <2>1. free \subseteq {0, 1, 2, 3, 4}
    BY DEF Tokens
  <2>2. free # {}
    <3>1. SUFFICES ASSUME {0, 1, 2, 3, 4} \subseteq used PROVE FALSE
      BY DEF Tokens
    <3>2. 0 \in used /\ 1 \in used /\ 2 \in used /\ 3 \in used /\ 4 \in used
      BY <3>1
    <3> HIDE <3>1
    <3> QED BY <1>1, <3>2
  <2>3. CASE 0 \in free
    BY <2>1, <2>3
  <2>4. CASE 0 \notin free /\ 1 \in free
    BY <2>1, <2>4
  <2>5. CASE 0 \notin free /\ 1 \notin free /\ 2 \in free
    BY <2>1, <2>5
  <2>6. CASE 0 \notin free /\ 1 \notin free /\ 2 \notin free /\ 3 \in free
    BY <2>1, <2>6
  <2>7. CASE 0 \notin free /\ 1 \notin free /\ 2 \notin free /\ 3 \notin free
    BY <2>1, <2>2, <2>7
  <2> QED BY <2>3, <2>4, <2>5, <2>6, <2>7
<1>4. AllocateControlToken(c) \in free
  BY <1>3 DEF AllocateControlToken, used
<1> QED BY <1>2, <1>4 DEF L, R

-----------------------------------------------------------------------------
(***************************************************************************)
(* What a stage does to the contexts and to their timers.                  *)
(***************************************************************************)
\* The context is dropped, or only its timer has moved.
SameOrGone(x, y) ==
  y # None =>
    /\ x # None
    /\ y.kind = x.kind /\ y.phase = x.phase /\ y.token = x.token
    /\ y.expected = x.expected /\ y.instant = x.instant

Armed(x) == x # None /\ x.deadline # None

\* A running timer goes on as long as its context exists; nothing new appears.
Sustains(x, y) ==
  /\ x = None => y = None
  /\ Armed(x) => y = None \/ (Armed(y) /\ y.deadline = x.deadline)

\* Every running timer was running before.
Inherits(x, y) == Armed(y) => Armed(x) /\ y.deadline = x.deadline

Sustained(c, d) == \A i \in Initiator : Sustains(c.procedures[i], d.procedures[i])
Inherited(c, d) == \A i \in Initiator : Inherits(c.procedures[i], d.procedures[i])

Vacant(p) == \A i \in Initiator : p[i] = None

\* The counter stands still while the link is up; a link that is dropped has
\* no procedure.
Proceeds(c, d) ==
  /\ d.reason = None => d.event_counter = c.event_counter
  /\ d.reason # None /\ c.reason = None => Vacant(d.procedures)

\* The fields of a connection record have their types.
LEMMA ConnectionFields ==
  ASSUME NEW c \in ConnectionRecord
  PROVE  /\ c.event_counter \in Counters /\ c.procedures \in Manager
         /\ c.procedures.local \in Context \cup {None}
         /\ c.procedures.remote \in Context \cup {None}
         /\ c.pending_control \in Pdu \cup {None}
         /\ c.queued_control \in Pdu \cup {None}
         /\ c.transmitted \in {"None", "Control", "Data"} /\ c.fresh \in BOOLEAN
         /\ c.update \in Indication \cup {None} /\ c.map \in Counters \cup {None}
         /\ c.request \in BOOLEAN /\ c.host_waits \in BOOLEAN
         /\ c.supervision \in 0 .. SupervisionTicks /\ c.reason \in Reasons \cup {None}
  BY DEF ConnectionRecord, Manager

\* A manager's slots by name and by initiator.
LEMMA Slots ==
  ASSUME NEW p \in Manager
  PROVE  /\ p["local"] = p.local /\ p["remote"] = p.remote
         /\ \A i \in Initiator : i = "local" \/ i = "remote"
  BY DEF Manager, Initiator

\* A new connection has its type.
LEMMA NewConnectionType ==
  /\ NewConnection \in ConnectionRecord
  /\ NewManager \in Manager /\ NewManager.local = None /\ NewManager.remote = None
<1>1. 0 \in Counters /\ SupervisionTicks \in 0 .. SupervisionTicks
  BY LlcpAssumption, ConnectionAssumption DEF Counters
<1>2. NewManager \in Manager /\ NewManager.local = None /\ NewManager.remote = None
  BY DEF NewManager, Manager
<1>3. NewConnection \in ConnectionRecord
  BY <1>1, <1>2 DEF NewConnection, ConnectionRecord
<1> QED BY <1>2, <1>3

\* A connection without procedure, request and indication is sound.
LEMMA EmptySound ==
  ASSUME NEW d \in ConnectionRecord, d.procedures = NewManager,
         d.update = None, d.map = None, d.request = FALSE, d.host_waits = FALSE
  PROVE  Sound(d) /\ NotDue(d) /\ Unexpired(d.procedures)
<1>1. NewManager \in Manager /\ NewManager.local = None /\ NewManager.remote = None
  BY NewConnectionType
<1>2. SoundProcedures(d.procedures)
  BY <1>1 DEF SoundProcedures, SoundContext, TokensApart, BearsInstant, Active
<1>3. RequestTracked(d)
  BY <1>1 DEF RequestTracked, ActiveKind, Active
<1>4. Sound(d)
  BY <1>1, <1>2, <1>3 DEF Sound, HoldsItsPdu, HasIndication, NotPassed
<1>5. NotDue(d) /\ Unexpired(d.procedures)
  BY <1>1, Slots DEF NotDue, Unexpired
<1> QED BY <1>4, <1>5

\* A new connection is sound.
LEMMA NewConnectionSound ==
  Sound(NewConnection) /\ Unexpired(NewConnection.procedures)
<1>1. /\ NewConnection.procedures = NewManager
      /\ NewConnection.update = None /\ NewConnection.map = None
      /\ NewConnection.request = FALSE /\ NewConnection.host_waits = FALSE
  BY DEF NewConnection
<1> QED BY <1>1, NewConnectionType, EmptySound

\* A dropped connection has no procedure, PDU or indication left.
LEMMA DisconnectSound ==
  ASSUME NEW c, NEW reason \in Reasons
  PROVE  LET d == Disconnect(c, reason)
         IN  /\ Sound(d) /\ NotDue(d) /\ Unexpired(d.procedures)
             /\ d.reason = reason
             /\ d.procedures.local = None /\ d.procedures.remote = None
<1> DEFINE d == Disconnect(c, reason)
<1>1. /\ d.procedures = NewManager /\ d.update = None /\ d.map = None
      /\ d.request = FALSE /\ d.host_waits = FALSE /\ d.reason = reason
  BY DEF Disconnect, NewConnection
<1>2. d \in ConnectionRecord
  BY NewConnectionType DEF Disconnect, ConnectionRecord
<1> HIDE DEF d
<1>3. Sound(d) /\ NotDue(d) /\ Unexpired(d.procedures)
  BY <1>1, <1>2, EmptySound
<1> QED BY <1>1, <1>3, NewConnectionType DEF d

\* A dropped connection has no timer.
LEMMA DisconnectTimers ==
  ASSUME NEW c, NEW b, NEW reason \in Reasons
  PROVE  LET d == Disconnect(c, reason)
         IN  Sustained(b, d) /\ Inherited(b, d) /\ Proceeds(b, d)
<1> DEFINE d == Disconnect(c, reason)
<1>1. /\ Sound(d) /\ d.reason = reason
      /\ d.procedures.local = None /\ d.procedures.remote = None
  BY DisconnectSound
<1> HIDE DEF d
<1>2. \A i \in Initiator : d.procedures[i] = None
  BY <1>1, ConnectionFields, Slots DEF Sound
<1>3. d.reason # None
  BY <1>1, NoneFacts
<1> QED BY <1>2, <1>3 DEF d, Sustained, Inherited, Proceeds, Sustains, Inherits, Armed, Vacant

\* The relations hold of a stage that leaves the contexts alone.
LEMMA SameTimers ==
  ASSUME NEW c, NEW d, d.procedures = c.procedures
  PROVE  Sustained(c, d) /\ Inherited(c, d)
  BY DEF Sustained, Inherited, Sustains, Inherits, Armed

\* Timers that go on over two stages go on over both.
LEMMA SustainedTwice ==
  ASSUME NEW b, NEW c, NEW d, Sustained(b, c), Sustained(c, d)
  PROVE  Sustained(b, d)
  BY DEF Sustained, Sustains, Armed

\* A manager with fewer contexts is as sound.
LEMMA FewerProcedures ==
  ASSUME NEW p \in Manager, NEW q \in Manager, SoundProcedures(p),
         SameOrGone(p.local, q.local), SameOrGone(p.remote, q.remote),
         SoundContext(q.local), SoundContext(q.remote)
  PROVE  SoundProcedures(q)
  BY DEF SoundProcedures, SameOrGone, TokensApart, BearsInstant, Active

\* With the queue and the frame unchanged, what is left of the contexts holds its PDU.
LEMMA FewerHold ==
  ASSUME NEW c, NEW d, NEW x, NEW y, SameOrGone(x, y), HoldsItsPdu(x, c),
         d.pending_control = c.pending_control, d.queued_control = c.queued_control,
         d.transmitted = c.transmitted, d.fresh = c.fresh
  PROVE  HoldsItsPdu(y, d)
  BY DEF HoldsItsPdu, SameOrGone, CarriesToken

\* With the indications unchanged, what is left of the contexts has its indication.
LEMMA FewerIndications ==
  ASSUME NEW c, NEW d, NEW x, NEW y, SameOrGone(x, y), HasIndication(x, c),
         d.update = c.update, d.map = c.map
  PROVE  HasIndication(y, d)
  BY DEF HasIndication, SameOrGone

-----------------------------------------------------------------------------
(***************************************************************************)
(* Time, instants and the end of a pass.                                   *)
(***************************************************************************)
\* One interval takes one tick off a running deadline and nothing else.
LEMMA ElapsedContext ==
  ASSUME NEW x \in Context, SoundContext(x)
  PROVE  LET y == [x EXCEPT !.deadline = Elapsed(x.deadline)]
         IN  /\ y \in Context /\ y # None
             /\ SameOrGone(x, y) /\ SoundContext(y)
             /\ Armed(x) <=> Armed(y)
             /\ Armed(x) => /\ y.deadline \in Int /\ x.deadline \in Int
                            /\ y.deadline <= x.deadline
                            /\ x.deadline # 0 => y.deadline < x.deadline
<1> DEFINE y == [x EXCEPT !.deadline = Elapsed(x.deadline)]
           s == x.deadline
           t == Elapsed(s)
<1>1. s \in Ticks \cup {None}
  BY DEF Context
<1>2. /\ x # None /\ y.deadline = t
      /\ y.kind = x.kind /\ y.phase = x.phase /\ y.token = x.token
      /\ y.expected = x.expected /\ y.instant = x.instant
  BY NoneFacts DEF Context
<1> HIDE DEF s
<1>3. /\ t \in Ticks \cup {None}
      /\ s = None <=> t = None
      /\ s # None => /\ s \in Int /\ t \in Int /\ t <= s
                     /\ s # 0 => t < s
  BY <1>1, LlcpAssumption DEF Elapsed, Ticks
<1> HIDE DEF t
<1>4. y \in Context
  BY <1>2, <1>3 DEF t, s, Context
<1>5. y # None
  BY <1>4, NoneFacts
<1> HIDE DEF y
<1>6. SoundContext(y)
  BY <1>2, <1>3 DEF SoundContext, s
<1> QED BY <1>2, <1>3, <1>4, <1>5, <1>6 DEF y, s, SameOrGone, Armed

\* What one interval does to a slot of the manager.
LEMMA ElapsedSlot ==
  ASSUME NEW x \in Context \cup {None}, SoundContext(x)
  PROVE  LET y == IF x = None THEN None ELSE [x EXCEPT !.deadline = Elapsed(x.deadline)]
         IN  /\ y \in Context \cup {None}
             /\ SameOrGone(x, y) /\ SoundContext(y)
             /\ x = None <=> y = None
             /\ x # None => y.phase = x.phase
             /\ x # None => y.kind = x.kind
             /\ Armed(x) <=> Armed(y)
             /\ Armed(x) => /\ y.deadline \in Int /\ x.deadline \in Int
                            /\ y.deadline <= x.deadline
                            /\ x.deadline # 0 => y.deadline < x.deadline
<1>1. CASE x = None
  BY <1>1 DEF SameOrGone, Armed, SoundContext
<1>2. CASE x # None
  <2> DEFINE y == [x EXCEPT !.deadline = Elapsed(x.deadline)]
  <2>1. /\ y \in Context /\ y # None
        /\ SameOrGone(x, y) /\ SoundContext(y)
        /\ Armed(x) <=> Armed(y)
        /\ Armed(x) => /\ y.deadline \in Int /\ x.deadline \in Int
                       /\ y.deadline <= x.deadline
                       /\ x.deadline # 0 => y.deadline < x.deadline
    BY <1>2, ElapsedContext
  <2> HIDE DEF y
  <2>2. y.phase = x.phase /\ y.kind = x.kind
    BY <2>1 DEF SameOrGone
  <2> QED BY <1>2, <2>1, <2>2 DEF y
<1> QED BY <1>1, <1>2

\* A deadline that has been brought closer, or stands at zero.
Closer(x, y) ==
  /\ Armed(x) <=> Armed(y)
  /\ Armed(x) => /\ y.deadline \in Int /\ x.deadline \in Int
                 /\ y.deadline <= x.deadline
                 /\ x.deadline # 0 => y.deadline < x.deadline

\* Elapse keeps the invariant and brings every running deadline closer.
LEMMA ElapseSound ==
  ASSUME NEW c, Sound(c)
  PROVE  LET d == Elapse(c)
         IN  /\ Sound(d) /\ d.event_counter = c.event_counter /\ d.reason = c.reason
             /\ \A i \in Initiator : Closer(c.procedures[i], d.procedures[i])
<1> DEFINE d == Elapse(c)
           p == c.procedures
           q == ElapseManager(p)
           s == Elapsed(c.supervision)
<1>0. c \in ConnectionRecord
  BY DEF Sound
<1>1. /\ p \in Manager /\ p.local \in Context \cup {None} /\ p.remote \in Context \cup {None}
      /\ SoundProcedures(p) /\ SoundContext(p.local) /\ SoundContext(p.remote)
  BY <1>0, ConnectionFields DEF Sound, SoundProcedures
<1>2. s \in 0 .. SupervisionTicks
  <2> DEFINE v == c.supervision
  <2>1. v \in 0 .. SupervisionTicks
    BY <1>0, ConnectionFields
  <2> HIDE DEF v
  <2>2. Elapsed(v) \in 0 .. SupervisionTicks
    BY <2>1, LlcpAssumption, ConnectionAssumption DEF Elapsed
  <2> QED BY <2>2 DEF v
<1>3. /\ d.event_counter = c.event_counter /\ d.procedures = q
      /\ d.pending_control = c.pending_control /\ d.queued_control = c.queued_control
      /\ d.transmitted = c.transmitted /\ d.fresh = c.fresh
      /\ d.update = c.update /\ d.map = c.map
      /\ d.request = c.request /\ d.host_waits = c.host_waits
      /\ d.supervision = s /\ d.reason = c.reason
  BY <1>0 DEF Elapse, ConnectionRecord
<1> DEFINE L == p.local
           R == p.remote
           Y(x) == IF x = None THEN None ELSE [x EXCEPT !.deadline = Elapsed(x.deadline)]
<1>4. q = [i \in Initiator |-> Y(p[i])] /\ p["local"] = L /\ p["remote"] = R
  BY <1>1, Slots DEF ElapseManager
<1>5. q["local"] = Y(L) /\ q["remote"] = Y(R)
  BY <1>4 DEF Initiator
<1>6. /\ Y(L) \in Context \cup {None} /\ SameOrGone(L, Y(L)) /\ SoundContext(Y(L))
      /\ L # None => (Y(L) # None /\ Y(L).phase = L.phase /\ Y(L).kind = L.kind)
      /\ L = None => Y(L) = None
      /\ Closer(L, Y(L))
  BY <1>1, ElapsedSlot DEF Closer
<1>7. /\ Y(R) \in Context \cup {None} /\ SameOrGone(R, Y(R)) /\ SoundContext(Y(R))
      /\ Closer(R, Y(R))
  BY <1>1, ElapsedSlot DEF Closer
<1> HIDE DEF Y
<1>8. q \in Manager /\ q.local = Y(L) /\ q.remote = Y(R)
  BY <1>4, <1>5, <1>6, <1>7 DEF Manager, Initiator
<1> HIDE DEF q
<1>9. d \in ConnectionRecord
  BY <1>0, <1>2, <1>8 DEF Elapse, ConnectionRecord, q, s
<1> HIDE DEF d
<1>10. SoundProcedures(q)
  BY <1>1, <1>6, <1>7, <1>8, FewerProcedures
<1>11. HoldsItsPdu(q.local, d) /\ HoldsItsPdu(q.remote, d)
  BY <1>3, <1>6, <1>7, <1>8, FewerHold DEF Sound
<1>12. HasIndication(q.local, d) /\ HasIndication(q.remote, d)
  BY <1>3, <1>6, <1>7, <1>8, FewerIndications DEF Sound
<1>13. NotPassed(d)
  BY <1>3 DEF Sound, NotPassed
<1>14. RequestTracked(d)
  BY <1>3, <1>6, <1>8 DEF Sound, RequestTracked, ActiveKind, Active
<1>15. Sound(d)
  BY <1>3, <1>9, <1>10, <1>11, <1>12, <1>13, <1>14 DEF Sound
<1>16. \A i \in Initiator : Closer(c.procedures[i], d.procedures[i])
  BY <1>3, <1>4, <1>5, <1>6, <1>7 DEF Initiator
<1> QED BY <1>3, <1>15, <1>16 DEF d

\* The counter advances past no stored instant.
LEMMA ScheduleSound ==
  ASSUME NEW c, Sound(c), NotDue(c)
  PROVE  LET d == ScheduleFollowingEvent(c)
         IN  /\ Sound(d) /\ d.procedures = c.procedures /\ d.reason = c.reason
             /\ d.event_counter = (c.event_counter + 1) % EventModulus
<1> DEFINE d == ScheduleFollowingEvent(c)
           e == c.event_counter
           f == (e + 1) % EventModulus
<1>0. c \in ConnectionRecord
  BY DEF Sound
<1>1. e \in Counters /\ c.update \in Indication \cup {None} /\ c.map \in Counters \cup {None}
  BY <1>0, ConnectionFields
<1>2. f \in Counters
  BY <1>1, NextCounter
<1>3. /\ d.event_counter = f /\ d.procedures = c.procedures
      /\ d.pending_control = c.pending_control /\ d.queued_control = c.queued_control
      /\ d.transmitted = c.transmitted /\ d.fresh = c.fresh
      /\ d.update = c.update /\ d.map = c.map
      /\ d.request = c.request /\ d.host_waits = c.host_waits /\ d.reason = c.reason
  BY <1>0 DEF ScheduleFollowingEvent, ConnectionRecord
<1>4. d \in ConnectionRecord
  BY <1>0, <1>2 DEF ScheduleFollowingEvent, ConnectionRecord
<1> HIDE DEF d
<1>5. NotPassed(d)
  <2>1. ASSUME c.update # None PROVE ~IsPassed(f, c.update.instant)
    <3> DEFINE x == c.update.instant
    <3>1. x \in Counters /\ x # e /\ ~IsPassed(e, x)
      BY <1>1, <2>1 DEF Indication, Sound, NotPassed, NotDue
    <3> HIDE DEF x, e
    <3>2. ~IsPassed((e + 1) % EventModulus, x)
      BY <1>1, <3>1, StaysAhead
    <3> QED BY <3>2 DEF x
  <2>2. ASSUME c.map # None PROVE ~IsPassed(f, c.map)
    <3> DEFINE x == c.map
    <3>1. x \in Counters /\ x # e /\ ~IsPassed(e, x)
      BY <1>1, <2>2 DEF Sound, NotPassed, NotDue
    <3> HIDE DEF x, e
    <3>2. ~IsPassed((e + 1) % EventModulus, x)
      BY <1>1, <3>1, StaysAhead
    <3> QED BY <3>2 DEF x
  <2> HIDE DEF f
  <2> QED BY <1>3, <2>1, <2>2 DEF NotPassed
<1>6. HoldsItsPdu(c.procedures.local, d) /\ HoldsItsPdu(c.procedures.remote, d)
  BY <1>3 DEF Sound, HoldsItsPdu
<1>7. HasIndication(c.procedures.local, d) /\ HasIndication(c.procedures.remote, d)
  BY <1>3 DEF Sound, HasIndication
<1>8. RequestTracked(d)
  BY <1>3 DEF Sound, RequestTracked
<1> HIDE DEF f
<1>9. Sound(d)
  BY <1>3, <1>4, <1>5, <1>6, <1>7, <1>8 DEF Sound
<1> QED BY <1>3, <1>9 DEF d, f

\* apply_instants keeps the invariant and leaves no instant due: a context
\* whose instant is the current event goes with its indication.
LEMMA ApplyInstantsSound ==
  ASSUME NEW c, Sound(c)
  PROVE  LET d == ApplyInstants(c)
         IN  /\ Sound(d) /\ NotDue(d)
             /\ Sustained(c, d) /\ Inherited(c, d)
             /\ d.event_counter = c.event_counter /\ d.reason = c.reason
<1> DEFINE d == ApplyInstants(c)
           p == c.procedures
           e == c.event_counter
           q == OnConnectionEvent(p, e)
           L == p.local
           R == p.remote
           Y(x) == OnConnectionEventContext(x, e)
           applied == c.update # None /\ c.update.instant = e
           mapped == c.map # None /\ c.map = e
<1>0. c \in ConnectionRecord
  BY DEF Sound
<1>1. /\ p \in Manager /\ L \in Context \cup {None} /\ R \in Context \cup {None}
      /\ SoundProcedures(p) /\ SoundContext(L) /\ SoundContext(R)
      /\ e \in Counters /\ c.update \in Indication \cup {None}
      /\ c.map \in Counters \cup {None}
      /\ c.request \in BOOLEAN /\ c.host_waits \in BOOLEAN
      /\ c.supervision \in 0 .. SupervisionTicks
      /\ SupervisionTicks \in 0 .. SupervisionTicks
  BY <1>0, ConnectionFields, ConnectionAssumption DEF Sound, SoundProcedures
<1>2. /\ d.event_counter = e /\ d.procedures = q
      /\ d.pending_control = c.pending_control /\ d.queued_control = c.queued_control
      /\ d.transmitted = c.transmitted /\ d.fresh = c.fresh
      /\ d.update = (IF applied THEN None ELSE c.update)
      /\ d.map = (IF mapped THEN None ELSE c.map)
      /\ d.request = (IF applied THEN FALSE ELSE c.request)
      /\ d.host_waits = (IF applied /\ (c.update.changed \/ c.request)
                         THEN FALSE ELSE c.host_waits)
      /\ d.supervision = (IF applied THEN SupervisionTicks ELSE c.supervision)
      /\ d.reason = c.reason
  BY <1>0 DEF ApplyInstants, ConnectionRecord
<1>3. q = [i \in Initiator |-> Y(p[i])] /\ p["local"] = L /\ p["remote"] = R
  BY <1>1, Slots DEF OnConnectionEvent
<1>4. q["local"] = Y(L) /\ q["remote"] = Y(R)
  BY <1>3 DEF Initiator
<1>5. ASSUME NEW x \in Context \cup {None}
      PROVE  /\ Y(x) = x \/ Y(x) = None
             /\ Y(x) # x => x # None /\ x.phase = "AwaitingInstant"
             /\ x # None /\ x.phase = "AwaitingInstant" /\ x.instant = e => Y(x) = None
  <2>1. IsCurrent(e, e)
    BY <1>1, CurrentIsEqual
  <2> QED BY <1>1, <2>1, NoneFacts DEF OnConnectionEventContext
<1>6. ASSUME NEW x \in Context \cup {None}, HasIndication(x, c), Y(x) # x
      PROVE  IF x.kind = "ChannelMapUpdate" THEN mapped ELSE applied
  <2> DEFINE t == x.instant
  <2>1. x # None /\ x.phase = "AwaitingInstant" /\ t # None
        /\ (IsCurrent(e, t) \/ IsPassed(e, t))
    BY <1>6 DEF OnConnectionEventContext
  <2>2. IF x.kind = "ChannelMapUpdate" THEN c.map = t
        ELSE c.update # None /\ c.update.instant = t
    BY <1>6, <2>1 DEF HasIndication
  <2>3. t \in Counters /\ ~IsPassed(e, t)
    BY <1>1, <2>1, <2>2 DEF Sound, NotPassed, Indication
  <2> HIDE DEF t
  <2>4. t = e
    BY <1>1, <2>1, <2>3, CurrentIsEqual
  <2> QED BY <2>1, <2>2, <2>4
<1>7. HasIndication(L, c) /\ HasIndication(R, c)
  BY DEF Sound
<1>8. q \in Manager /\ q.local = Y(L) /\ q.remote = Y(R)
  <2>1. Y(L) \in Context \cup {None} /\ Y(R) \in Context \cup {None}
    BY <1>1, <1>5
  <2> HIDE DEF Y
  <2> QED BY <2>1, <1>3, <1>4 DEF Manager, Initiator
<1> HIDE DEF Y, q
<1>9. d \in ConnectionRecord
  <2>1. /\ d.update \in Indication \cup {None} /\ d.map \in Counters \cup {None}
        /\ d.request \in BOOLEAN /\ d.host_waits \in BOOLEAN
        /\ d.supervision \in 0 .. SupervisionTicks
    BY <1>1, <1>2
  <2>2. d = [c EXCEPT !.map = d.map, !.update = d.update, !.supervision = d.supervision,
                      !.request = d.request, !.host_waits = d.host_waits,
                      !.procedures = q]
    BY <1>0 DEF ApplyInstants, ConnectionRecord, q
  <2> HIDE DEF d
  <2> QED BY <1>0, <1>8, <2>1, <2>2 DEF ConnectionRecord
<1> HIDE DEF d
<1>10. SameOrGone(L, Y(L)) /\ SameOrGone(R, Y(R))
  BY <1>1, <1>5 DEF SameOrGone
<1>11. SoundProcedures(q)
  <2>1. SoundContext(Y(L)) /\ SoundContext(Y(R))
    BY <1>1, <1>5 DEF SoundContext
  <2> QED BY <1>1, <1>8, <1>10, <2>1, FewerProcedures
<1>12. HoldsItsPdu(q.local, d) /\ HoldsItsPdu(q.remote, d)
  BY <1>2, <1>8, <1>10, FewerHold DEF Sound
<1>13. ASSUME NEW x \in Context \cup {None}, HasIndication(x, c)
       PROVE  HasIndication(Y(x), d)
  <2>1. SUFFICES ASSUME Y(x) # None, Y(x).phase = "AwaitingInstant"
                 PROVE IF Y(x).kind = "ChannelMapUpdate" THEN d.map = Y(x).instant
                       ELSE d.update # None /\ d.update.instant = Y(x).instant
    BY DEF HasIndication
  <2>2. Y(x) = x /\ x.instant # e
    BY <1>5, <2>1
  <2> QED BY <1>2, <1>13, <2>1, <2>2 DEF HasIndication
<1>14. HasIndication(q.local, d) /\ HasIndication(q.remote, d)
  BY <1>1, <1>7, <1>8, <1>13
<1>15. NotPassed(d) /\ NotDue(d)
  BY <1>2 DEF Sound, NotPassed, NotDue
<1>16. RequestTracked(d)
  <2>1. /\ c.host_waits = c.request
        /\ c.request <=> ActiveKind(L, "ConnectionParameters")
        /\ c.request /\ c.update # None => L.phase = "AwaitingInstant"
    BY DEF Sound, RequestTracked
  <2>2. d.host_waits = d.request
    BY <1>1, <1>2, <2>1
  <2>3. CASE applied
    <3>1. d.request = FALSE /\ d.update = None
      BY <1>2, <2>3
    <3>2. ~ActiveKind(Y(L), "ConnectionParameters")
      <4>1. SUFFICES ASSUME ActiveKind(Y(L), "ConnectionParameters") PROVE FALSE
        OBVIOUS
      <4>2. Y(L) = L /\ L # None
        BY <1>1, <1>5, <4>1 DEF ActiveKind, Active
      <4>3. L.phase = "AwaitingInstant" /\ L.kind = "ConnectionParameters"
        BY <2>1, <2>3, <4>1, <4>2 DEF ActiveKind, Active
      <4>4. L.instant = e
        BY <1>7, <2>3, <4>2, <4>3 DEF HasIndication
      <4> QED BY <1>1, <1>5, <4>2, <4>3, <4>4
    <3> QED BY <1>2, <1>8, <2>2, <3>1, <3>2 DEF RequestTracked
  <2>4. CASE ~applied
    <3>1. d.request = c.request /\ d.update = c.update
      BY <1>2, <2>4
    <3>2. L # None /\ L.kind = "ConnectionParameters" => Y(L) = L
      BY <1>1, <1>6, <1>7, <2>4
    <3>3. ActiveKind(Y(L), "ConnectionParameters") <=> ActiveKind(L, "ConnectionParameters")
      BY <1>1, <1>5, <3>2 DEF ActiveKind, Active
    <3>4. d.request /\ d.update # None => Y(L).phase = "AwaitingInstant"
      BY <2>1, <3>1, <3>2 DEF ActiveKind, Active
    <3> QED BY <1>2, <1>8, <2>1, <2>2, <3>1, <3>3, <3>4 DEF RequestTracked
  <2> QED BY <2>3, <2>4
<1>17. Sound(d)
  BY <1>2, <1>9, <1>11, <1>12, <1>14, <1>15, <1>16 DEF Sound
<1>18. Sustained(c, d) /\ Inherited(c, d)
  <2>1. \A i \in Initiator : q[i] = p[i] \/ q[i] = None
    BY <1>1, <1>3, <1>4, <1>5 DEF Initiator
  <2> QED BY <1>2, <2>1 DEF Sustained, Inherited, Sustains, Inherits, Armed
<1> QED BY <1>2, <1>15, <1>17, <1>18 DEF d

\* The top of the loop keeps the invariant, and leaves no expired timer.
LEMMA CheckDeadlinesSound ==
  ASSUME NEW c, Sound(c), c.reason # None => Vacant(c.procedures)
  PROVE  LET d == CheckDeadlines(c)
         IN  /\ Sound(d) /\ Unexpired(d.procedures)
             /\ d = c \/ Vacant(d.procedures)
<1> DEFINE d == CheckDeadlines(c)
<1>1. \h22 \in Reasons /\ \h08 \in Reasons
  BY DEF Reasons
<1>2. ASSUME NEW reason \in Reasons
      PROVE  /\ Sound(Disconnect(c, reason)) /\ Unexpired(Disconnect(c, reason).procedures)
             /\ Vacant(Disconnect(c, reason).procedures)
  <2> DEFINE f == Disconnect(c, reason)
  <2>1. /\ Sound(f) /\ Unexpired(f.procedures)
        /\ f.procedures.local = None /\ f.procedures.remote = None
    BY DisconnectSound
  <2> HIDE DEF f
  <2>2. Vacant(f.procedures)
    BY <2>1, ConnectionFields, Slots DEF Sound, Vacant
  <2> QED BY <2>1, <2>2 DEF f
<1>3. CASE c.reason # None
  BY <1>3 DEF CheckDeadlines, Vacant, Unexpired
<1>4. CASE c.reason = None /\ CheckTimeouts(c.procedures)
  <2>1. d = Disconnect(c, \h22)
    BY <1>4 DEF CheckDeadlines
  <2> QED BY <1>1, <1>2, <2>1
<1>5. CASE c.reason = None /\ ~CheckTimeouts(c.procedures) /\ c.supervision = 0
  <2>1. d = Disconnect(c, \h08)
    BY <1>5 DEF CheckDeadlines
  <2> QED BY <1>1, <1>2, <2>1
<1>6. CASE c.reason = None /\ ~CheckTimeouts(c.procedures) /\ c.supervision # 0
  <2>1. d = c
    BY <1>6 DEF CheckDeadlines
  <2>2. c.procedures \in Manager /\ c.procedures["local"] = c.procedures.local
        /\ c.procedures["remote"] = c.procedures.remote
    BY ConnectionFields, Slots DEF Sound
  <2>3. \A i \in Initiator : SoundContext(c.procedures[i])
    BY <2>2 DEF Sound, SoundProcedures, Initiator
  <2>4. None # 0
    BY LlcpAssumption
  <2>5. Unexpired(c.procedures)
    BY <1>6, <2>3, <2>4 DEF CheckTimeouts, Expired, Unexpired, SoundContext
  <2> QED BY <2>1, <2>5
<1> QED BY <1>3, <1>4, <1>5, <1>6

-----------------------------------------------------------------------------
(***************************************************************************)
(* The invariant slot by slot, and the stages of a transmission.           *)
(***************************************************************************)
\* What the invariant says of the context in each slot.
LEMMA ForSlots ==
  ASSUME NEW c, Sound(c)
  PROVE  /\ \A i \in Initiator : /\ c.procedures[i] \in Context \cup {None}
                                 /\ SoundContext(c.procedures[i])
                                 /\ HoldsItsPdu(c.procedures[i], c)
                                 /\ HasIndication(c.procedures[i], c)
         /\ \A i, j \in Initiator : i # j =>
              /\ TokensApart(c.procedures[i], c.procedures[j])
              /\ ~(BearsInstant(c.procedures[i]) /\ BearsInstant(c.procedures[j]))
<1> DEFINE p == c.procedures
<1>1. /\ p \in Manager /\ p.local \in Context \cup {None} /\ p.remote \in Context \cup {None}
  BY ConnectionFields DEF Sound
<1>2. p["local"] = p.local /\ p["remote"] = p.remote
  BY <1>1, Slots
<1>3. /\ SoundContext(p.local) /\ SoundContext(p.remote)
      /\ TokensApart(p.local, p.remote)
      /\ ~(BearsInstant(p.local) /\ BearsInstant(p.remote))
      /\ HoldsItsPdu(p.local, c) /\ HoldsItsPdu(p.remote, c)
      /\ HasIndication(p.local, c) /\ HasIndication(p.remote, c)
  BY DEF Sound, SoundProcedures
<1> HIDE DEF p
<1>4. \A i \in Initiator : /\ p[i] \in Context \cup {None} /\ SoundContext(p[i])
                           /\ HoldsItsPdu(p[i], c) /\ HasIndication(p[i], c)
  BY <1>1, <1>2, <1>3 DEF Initiator
<1>5. \A i, j \in Initiator : i # j => TokensApart(p[i], p[j])
  BY <1>2, <1>3 DEF Initiator, TokensApart
<1>6. \A i, j \in Initiator : i # j => ~(BearsInstant(p[i]) /\ BearsInstant(p[j]))
  BY <1>2, <1>3 DEF Initiator
<1> QED BY <1>4, <1>5, <1>6 DEF p

\* The invariant from what holds of each slot.
LEMMA FromSlots ==
  ASSUME NEW c \in ConnectionRecord,
         \A i \in Initiator : /\ SoundContext(c.procedures[i])
                              /\ HoldsItsPdu(c.procedures[i], c)
                              /\ HasIndication(c.procedures[i], c),
         \A i, j \in Initiator : i # j =>
           /\ TokensApart(c.procedures[i], c.procedures[j])
           /\ ~(BearsInstant(c.procedures[i]) /\ BearsInstant(c.procedures[j])),
         NotPassed(c), RequestTracked(c)
  PROVE  Sound(c)
<1> DEFINE p == c.procedures
<1>1. p["local"] = p.local /\ p["remote"] = p.remote
  BY ConnectionFields, Slots
<1>2. "local" \in Initiator /\ "remote" \in Initiator /\ "local" # "remote"
  BY DEF Initiator
<1>3. /\ SoundContext(p.local) /\ SoundContext(p.remote)
      /\ HoldsItsPdu(p.local, c) /\ HoldsItsPdu(p.remote, c)
      /\ HasIndication(p.local, c) /\ HasIndication(p.remote, c)
  BY <1>1, <1>2
<1>4. /\ TokensApart(p.local, p.remote)
      /\ ~(BearsInstant(p.local) /\ BearsInstant(p.remote))
  BY <1>1, <1>2
<1> QED BY <1>3, <1>4 DEF Sound, SoundProcedures

\* The slots of a manager after one of them is assigned.
LEMMA AssignedSlot ==
  ASSUME NEW p \in Manager, NEW i \in Initiator, NEW y \in Context \cup {None}
  PROVE  LET q == [p EXCEPT ![i] = y]
         IN  /\ q \in Manager
             /\ \A j \in Initiator : q[j] = IF j = i THEN y ELSE p[j]
             /\ q.local = IF i = "local" THEN y ELSE p.local
             /\ q.remote = IF i = "remote" THEN y ELSE p.remote
<1> DEFINE q == [p EXCEPT ![i] = y]
<1>1. p["local"] = p.local /\ p["remote"] = p.remote
  BY Slots
<1>2. \A j \in Initiator : q[j] = IF j = i THEN y ELSE p[j]
  BY DEF Manager, Initiator
<1>3. q \in Manager
  BY DEF Manager, Initiator
<1>4. q["local"] = q.local /\ q["remote"] = q.remote
  BY <1>3, Slots
<1> HIDE DEF q
<1>5. q.local = IF i = "local" THEN y ELSE p.local
  BY <1>1, <1>2, <1>4 DEF Initiator
<1>6. q.remote = IF i = "remote" THEN y ELSE p.remote
  BY <1>1, <1>2, <1>4 DEF Initiator
<1> QED BY <1>2, <1>3, <1>5, <1>6 DEF q

\* One context at most owns the PDU at the head of the queue.
LEMMA OwnerFacts ==
  ASSUME NEW c, Sound(c), OwnersOfPendingControl(c) # {}
  PROVE  LET i == IF "local" \in OwnersOfPendingControl(c) THEN "local" ELSE "remote"
         IN  /\ i \in Initiator
             /\ c.procedures[i] # None /\ c.procedures[i] \in Context
             /\ CarriesToken(c.pending_control, c.procedures[i].token)
             /\ \A j \in Initiator : j # i /\ c.procedures[j] # None =>
                  ~CarriesToken(c.pending_control, c.procedures[j].token)
<1> DEFINE owners == OwnersOfPendingControl(c)
           i == IF "local" \in owners THEN "local" ELSE "remote"
<1>1. i \in owners /\ i \in Initiator
  BY DEF OwnersOfPendingControl, Initiator
<1> HIDE DEF i
<1>2. /\ c.procedures[i] # None
      /\ CarriesToken(c.pending_control, c.procedures[i].token)
  BY <1>1 DEF OwnersOfPendingControl, CarriesToken
<1>3. c.procedures[i] \in Context
  BY <1>1, <1>2, ForSlots
<1>4. \A j \in Initiator : j # i => TokensApart(c.procedures[i], c.procedures[j])
  BY <1>1, ForSlots
<1>5. \A j \in Initiator : j # i /\ c.procedures[j] # None =>
        ~CarriesToken(c.pending_control, c.procedures[j].token)
  BY <1>1, <1>2, <1>4 DEF TokensApart, CarriesToken
<1> QED BY <1>1, <1>2, <1>3, <1>5 DEF i

\* Without owner, no context carries the token of the PDU at the head.
LEMMA NoOwnerFacts ==
  ASSUME NEW c, Sound(c), OwnersOfPendingControl(c) = {}
  PROVE  \A j \in Initiator : c.procedures[j] # None =>
           ~CarriesToken(c.pending_control, c.procedures[j].token)
<1>1. \A j \in Initiator : c.procedures[j] # None => c.procedures[j].token # None
  BY ForSlots, NoneFacts DEF Context
<1> QED BY <1>1 DEF OwnersOfPendingControl, CarriesToken

\* Choosing the frame of the event: a new frame carries no context that
\* already waits for an acknowledgement.
LEMMA StageFrameSound ==
  ASSUME NEW c, Sound(c)
  PROVE  LET d == StageFrame(c)
         IN  /\ Sound(d)
             /\ NotDue(c) => NotDue(d)
             /\ Sustained(c, d) /\ Inherited(c, d) /\ Proceeds(c, d)
             /\ d.reason = None => d.procedures = c.procedures
<1> DEFINE d == StageFrame(c)
           chosen == IF c.pending_control # None THEN "Control" ELSE "Data"
           s == [c EXCEPT !.transmitted = chosen, !.fresh = TRUE]
<1>0. c \in ConnectionRecord
  BY DEF Sound
<1>1. CASE c.transmitted # "None"
  <2>1. d = c
    BY <1>1 DEF StageFrame
  <2> HIDE DEF d
  <2> QED BY <2>1, SameTimers DEF Proceeds, d
<1>2. CASE c.transmitted = "None"
  <2>1. /\ s.event_counter = c.event_counter /\ s.procedures = c.procedures
        /\ s.pending_control = c.pending_control /\ s.queued_control = c.queued_control
        /\ s.update = c.update /\ s.map = c.map
        /\ s.request = c.request /\ s.host_waits = c.host_waits /\ s.reason = c.reason
    BY <1>0 DEF ConnectionRecord
  <2>2. s \in ConnectionRecord
    BY <1>0 DEF ConnectionRecord
  <2> DEFINE e == WithOwner(s, TxReady, PlanOnly)
  <2>a. e = s \/ e = Disconnect(s, \h1f)
    BY <2>2 DEF WithOwner, PlanOnly, ConnectionRecord
  <2>b. d = IF chosen = "Control" THEN e ELSE s
    BY <1>2 DEF StageFrame
  <2>3. d = s \/ d = Disconnect(s, \h1f)
    BY <2>a, <2>b
  <2> HIDE DEF s, d, e
  <2>4. \A i \in Initiator : /\ HoldsItsPdu(c.procedures[i], s)
                             /\ HasIndication(c.procedures[i], s)
    BY <1>2, <2>1, ForSlots DEF HoldsItsPdu, HasIndication
  <2>5. NotPassed(s) /\ RequestTracked(s) /\ (NotDue(c) => NotDue(s))
    BY <2>1 DEF Sound, NotPassed, NotDue, RequestTracked
  <2>6. Sound(s)
    BY <2>1, <2>2, <2>4, <2>5, ForSlots, FromSlots
  <2>7. Sustained(c, s) /\ Inherited(c, s) /\ Proceeds(c, s)
    BY <2>1, SameTimers DEF Proceeds
  <2>8. CASE d = s
    BY <2>1, <2>5, <2>6, <2>7, <2>8 DEF d
  <2>9. CASE d = Disconnect(s, \h1f)
    <3>1. \h1f \in Reasons
      BY DEF Reasons
    <3> DEFINE r == \h1f
    <3>2. r \in Reasons /\ d = Disconnect(s, r)
      BY <2>9, <3>1
    <3> HIDE DEF r
    <3>3. Sound(d) /\ NotDue(d) /\ d.reason = r
      BY <3>2, DisconnectSound
    <3>4. Sustained(c, d) /\ Inherited(c, d) /\ Proceeds(c, d)
      BY <3>2, DisconnectTimers
    <3> QED BY <3>2, <3>3, <3>4, NoneFacts DEF d
  <2> QED BY <2>3, <2>8, <2>9
<1> QED BY <1>1, <1>2

\* A stage that drops the link.
LEMMA Dropped ==
  ASSUME NEW b, NEW c, NEW d, NEW reason \in Reasons, d = Disconnect(c, reason)
  PROVE  /\ Sound(d) /\ NotDue(d) /\ d.reason # None
         /\ Sustained(b, d) /\ Inherited(b, d) /\ Proceeds(b, d)
         /\ Unexpired(d.procedures)
<1>1. Sound(d) /\ NotDue(d) /\ d.reason = reason /\ Unexpired(d.procedures)
  BY DisconnectSound
<1>2. Sustained(b, d) /\ Inherited(b, d) /\ Proceeds(b, d)
  BY DisconnectTimers
<1> QED BY <1>1, <1>2, NoneFacts

\* The reasons the handlers return are error codes.
LEMMA ReasonCodes ==
  /\ \h1f \in Reasons /\ \h1e \in Reasons /\ \h28 \in Reasons /\ \h20 \in Reasons
  /\ \h3d \in Reasons /\ \h23 \in Reasons /\ \h2a \in Reasons /\ \h13 \in Reasons
  /\ \h16 \in Reasons /\ \h22 \in Reasons /\ \h08 \in Reasons
  BY DEF Reasons

\* The context of a PDU that is on air.
LEMMA SentContext ==
  ASSUME NEW x \in Context, SoundContext(x), x.phase \in Unsent
  PROVE  LET y == [x EXCEPT !.phase = "AwaitingTxAck"]
         IN  /\ y \in Context /\ y # None /\ SoundContext(y)
             /\ y.phase = "AwaitingTxAck" /\ y.kind = x.kind /\ y.token = x.token
             /\ y.deadline = x.deadline /\ x.deadline = None
<1> DEFINE y == [x EXCEPT !.phase = "AwaitingTxAck"]
<1>1. /\ y.phase = "AwaitingTxAck" /\ y.kind = x.kind /\ y.token = x.token
      /\ y.deadline = x.deadline /\ y.instant = x.instant /\ y.expected = x.expected
  BY DEF Context
<1>2. y \in Context
  BY DEF Context, Phases, HoldsPdu
<1> HIDE DEF y
<1>3. x # None /\ y # None
  BY <1>2, NoneFacts
<1>4. /\ x.deadline = None /\ x.instant = None
      /\ x.kind \notin {"ConnectionUpdate", "ChannelMapUpdate"}
      /\ x.kind = "ConnectionParameters" => x.expected # None
  BY <1>3 DEF SoundContext, HoldsPdu, Unsent, Waiting
<1>5. SoundContext(y)
  BY <1>1, <1>4 DEF SoundContext, Waiting
<1> QED BY <1>1, <1>2, <1>3, <1>4, <1>5 DEF y

\* The context of a PDU that is acknowledged: the response timer starts, or
\* the procedure is complete.
LEMMA AckedFacts ==
  ASSUME NEW x \in Context, SoundContext(x), x.phase = "AwaitingTxAck"
  PROVE  LET y == AckedContext(x)
         IN  /\ y \in Context \cup {None} /\ SoundContext(y)
             /\ x.deadline = None
             /\ x.kind = "ConnectionParameters" => y # None
             /\ y # None => /\ y.phase = "AwaitingResponse" /\ y.kind = x.kind
                            /\ y.token = x.token
<1> DEFINE y == AckedContext(x)
           z == [x EXCEPT !.phase = "AwaitingResponse", !.deadline = x.timeout,
                          !.pending_response = FALSE]
<1>1. /\ z.phase = "AwaitingResponse" /\ z.kind = x.kind /\ z.token = x.token
      /\ z.instant = x.instant /\ z.expected = x.expected
  BY DEF Context
<1>2. z \in Context
  BY DEF Context, Phases, Waiting
<1>3. x # None
  BY NoneFacts
<1>4. /\ x.deadline = None /\ x.instant = None
      /\ x.kind \notin {"ConnectionUpdate", "ChannelMapUpdate"}
      /\ x.kind = "ConnectionParameters" => x.expected # None
  BY <1>3 DEF SoundContext, HoldsPdu, Waiting, Unsent
<1>5. y = IF x.expected # None THEN z ELSE None
  BY <1>4 DEF AckedContext
<1> HIDE DEF y, z
<1>6. SoundContext(z)
  BY <1>1, <1>4 DEF SoundContext, HoldsPdu, Waiting, Unsent
<1>7. SoundContext(None)
  BY DEF SoundContext
<1>8. CASE x.expected # None
  <2>1. y = z /\ z # None
    BY <1>2, <1>5, <1>8, NoneFacts
  <2> QED BY <1>1, <1>2, <1>4, <1>6, <2>1 DEF y
<1>9. CASE x.expected = None
  <2>1. y = None
    BY <1>5, <1>9
  <2> QED BY <1>4, <1>7, <1>9, <2>1 DEF y
<1> QED BY <1>8, <1>9

\* The radio's confirmation puts the owner of the frame, if it has one, in
\* phase AwaitingTxAck.
LEMMA CompleteTransmitSound ==
  ASSUME NEW c, Sound(c), c.reason = None, NEW transmitted \in BOOLEAN
  PROVE  LET d == CompleteTransmit(c, transmitted)
         IN  /\ Sound(d)
             /\ NotDue(c) => NotDue(d)
             /\ Sustained(c, d) /\ Proceeds(c, d)
<1> DEFINE d == CompleteTransmit(c, transmitted)
           p == c.procedures
           done == IF c.transmitted = "Control" THEN WithOwner(c, TxReady, TxDone) ELSE c
           owners == OwnersOfPendingControl(c)
           i == IF "local" \in owners THEN "local" ELSE "remote"
<1>0. c \in ConnectionRecord /\ p \in Manager
  BY ConnectionFields DEF Sound
<1>1. CASE ~(c.fresh /\ transmitted)
  <2>1. d = c
    BY <1>1 DEF CompleteTransmit
  <2> HIDE DEF d
  <2> QED BY <2>1, SameTimers DEF Proceeds, d
<1>2. CASE (c.fresh /\ transmitted) /\ (c.transmitted # "Control" \/ owners = {})
  <2>1. done = c
    BY <1>2 DEF WithOwner
  <2>2. d = c \/ d = [c EXCEPT !.fresh = FALSE]
    BY <1>2, <2>1 DEF CompleteTransmit, Then
  <2> DEFINE s == [c EXCEPT !.fresh = FALSE]
  <2>3. /\ s.event_counter = c.event_counter /\ s.procedures = p
        /\ s.pending_control = c.pending_control /\ s.queued_control = c.queued_control
        /\ s.transmitted = c.transmitted /\ s.fresh = FALSE
        /\ s.update = c.update /\ s.map = c.map
        /\ s.request = c.request /\ s.host_waits = c.host_waits /\ s.reason = c.reason
    BY <1>0 DEF ConnectionRecord
  <2>4. s \in ConnectionRecord
    BY <1>0 DEF ConnectionRecord
  <2> HIDE DEF s, d
  <2>5. \A j \in Initiator : HoldsItsPdu(p[j], s) /\ HasIndication(p[j], s)
    BY <2>3, ForSlots DEF HoldsItsPdu, HasIndication
  <2>6. NotPassed(s) /\ RequestTracked(s) /\ (NotDue(c) => NotDue(s))
    BY <2>3 DEF Sound, NotPassed, NotDue, RequestTracked
  <2>7. Sound(s)
    BY <2>3, <2>4, <2>5, <2>6, ForSlots, FromSlots
  <2>8. Sustained(c, s) /\ Proceeds(c, s) /\ Sustained(c, c) /\ Proceeds(c, c)
    BY <2>3, SameTimers DEF Proceeds
  <2> QED BY <2>2, <2>6, <2>7, <2>8 DEF s, d
<1>3. CASE /\ c.fresh /\ transmitted /\ c.transmitted = "Control" /\ owners # {}
           /\ ~TxReady(p, i, c.pending_control.token)
  <2>1. done = Disconnect(c, \h1f)
    BY <1>3 DEF WithOwner
  <2> DEFINE r == \h1f
  <2>2. r \in Reasons /\ done = Disconnect(c, r)
    BY <2>1, ReasonCodes
  <2> HIDE DEF r, done
  <2>3. /\ Sound(done) /\ NotDue(done) /\ done.reason # None
        /\ Sustained(c, done) /\ Proceeds(c, done)
    BY <2>2, Dropped
  <2>4. d = done
    BY <1>3, <2>3 DEF CompleteTransmit, Then, done
  <2> HIDE DEF d
  <2> QED BY <2>3, <2>4 DEF d
<1>4. CASE /\ c.fresh /\ transmitted /\ c.transmitted = "Control" /\ owners # {}
           /\ TxReady(p, i, c.pending_control.token)
  <2> DEFINE x == p[i]
             y == [x EXCEPT !.phase = "AwaitingTxAck"]
             q == [p EXCEPT ![i] = y]
             s == [[c EXCEPT !.procedures = q] EXCEPT !.fresh = FALSE]
  <2>1. /\ i \in Initiator /\ x # None /\ x \in Context
        /\ CarriesToken(c.pending_control, x.token)
        /\ \A j \in Initiator : j # i /\ p[j] # None =>
             ~CarriesToken(c.pending_control, p[j].token)
    BY <1>4, OwnerFacts
  <2>2. TxDone(p, i) = q
    BY <1>0, <2>1 DEF TxDone, Manager, Initiator
  <2>3. done = [c EXCEPT !.procedures = q]
    BY <1>4, <2>2 DEF WithOwner
  <2>4. d = s
    BY <1>0, <1>4, <2>3 DEF CompleteTransmit, Then, ConnectionRecord
  <2> HIDE DEF i, d, done
  <2>6. SoundContext(x) /\ x.phase \in Unsent
    BY <1>4, <2>1, ForSlots DEF TxReady
  <2> HIDE DEF x
  <2>7. /\ y \in Context /\ y # None /\ SoundContext(y)
        /\ y.phase = "AwaitingTxAck" /\ y.kind = x.kind /\ y.token = x.token
        /\ y.deadline = x.deadline /\ x.deadline = None
    BY <2>1, <2>6, SentContext
  <2> HIDE DEF y
  <2>8. /\ q \in Manager
        /\ \A j \in Initiator : q[j] = IF j = i THEN y ELSE p[j]
        /\ q.local = IF i = "local" THEN y ELSE p.local
    BY <1>0, <2>1, <2>7, AssignedSlot
  <2> HIDE DEF q
  <2>9. /\ s.event_counter = c.event_counter /\ s.procedures = q
        /\ s.pending_control = c.pending_control /\ s.queued_control = c.queued_control
        /\ s.transmitted = "Control" /\ s.fresh = FALSE
        /\ s.update = c.update /\ s.map = c.map
        /\ s.request = c.request /\ s.host_waits = c.host_waits /\ s.reason = c.reason
    BY <1>0, <1>4 DEF ConnectionRecord
  <2>10. s \in ConnectionRecord
    BY <1>0, <2>8 DEF ConnectionRecord
  <2> HIDE DEF s
  <2>11. \A j \in Initiator : HoldsItsPdu(q[j], s)
    <3>1. HoldsItsPdu(y, s)
      BY <2>1, <2>7, <2>9 DEF HoldsItsPdu, CarriesToken
    <3>2. ASSUME NEW j \in Initiator, j # i PROVE HoldsItsPdu(p[j], s)
      BY <1>4, <2>9, ForSlots DEF HoldsItsPdu
    <3> QED BY <2>8, <3>1, <3>2
  <2>12. \A j \in Initiator : HasIndication(q[j], s)
    <3>1. HasIndication(y, s)
      BY <2>7 DEF HasIndication
    <3>2. ASSUME NEW j \in Initiator PROVE HasIndication(p[j], s)
      BY <2>9, ForSlots DEF HasIndication
    <3> QED BY <2>8, <3>1, <3>2
  <2>13. \A j \in Initiator : SoundContext(q[j])
    BY <2>7, <2>8, ForSlots
  <2>14. ASSUME NEW j \in Initiator, NEW k \in Initiator, j # k
         PROVE  TokensApart(q[j], q[k]) /\ ~(BearsInstant(q[j]) /\ BearsInstant(q[k]))
    <3>1. /\ TokensApart(p[j], p[k]) /\ ~(BearsInstant(p[j]) /\ BearsInstant(p[k]))
      BY <2>14, ForSlots
    <3>2. x.phase # "Failed"
      BY <2>6 DEF Unsent
    <3> QED BY <2>1, <2>7, <2>8, <3>1, <3>2 DEF TokensApart, BearsInstant, Active, x
  <2>15. NotPassed(s) /\ (NotDue(c) => NotDue(s))
    BY <2>9 DEF Sound, NotPassed, NotDue
  <2>16. RequestTracked(s)
    <3>1. CASE i = "local"
      <4>1. x = p.local /\ x.phase \notin {"Failed", "AwaitingInstant"}
        BY <1>0, <2>6, <3>1, Slots DEF x, Unsent
      <4> QED BY <2>1, <2>7, <2>8, <2>9, <3>1, <4>1
              DEF Sound, RequestTracked, ActiveKind, Active
    <3>2. CASE i # "local"
      BY <2>8, <2>9, <3>2 DEF Sound, RequestTracked
    <3> QED BY <3>1, <3>2
  <2>17. Sound(s)
    BY <2>9, <2>10, <2>11, <2>12, <2>13, <2>14, <2>15, <2>16, FromSlots
  <2>18. Sustained(c, s) /\ Proceeds(c, s)
    <3>1. \A j \in Initiator : Sustains(p[j], q[j])
      BY <2>1, <2>7, <2>8 DEF Sustains, Armed, x
    <3> QED BY <2>9, <3>1 DEF Sustained, Proceeds
  <2> QED BY <2>4, <2>15, <2>17, <2>18 DEF d
<1> QED BY <1>1, <1>2, <1>3, <1>4

\* The acknowledgement takes the PDU off the queue together with the phase
\* of its owner; the PDU behind it moves up.
LEMMA AcknowledgeSound ==
  ASSUME NEW c, Sound(c), c.reason = None
  PROVE  LET d == Acknowledge(c)
         IN  Sound(d) /\ Sustained(c, d) /\ Proceeds(c, d)
<1> DEFINE d == Acknowledge(c)
           p == c.procedures
           acked == IF c.transmitted = "Control" THEN WithOwner(c, NesnAckReady, NesnAck) ELSE c
           owners == OwnersOfPendingControl(c)
           i == IF "local" \in owners THEN "local" ELSE "remote"
           Popped(a) ==
             [a EXCEPT
                !.pending_control = IF c.transmitted = "Control" THEN c.queued_control ELSE @,
                !.queued_control = IF c.transmitted = "Control" THEN None ELSE @,
                !.transmitted = "None", !.fresh = FALSE]
<1>0. c \in ConnectionRecord /\ p \in Manager
  BY ConnectionFields DEF Sound
<1>1. CASE c.transmitted # "Control" \/ owners = {}
  <2> DEFINE s == Popped(c)
  <2>1. acked = c
    BY <1>1 DEF WithOwner
  <2>2. d = s
    BY <2>1 DEF Acknowledge, Then
  <2>3. /\ s.event_counter = c.event_counter /\ s.procedures = p
        /\ s.pending_control = (IF c.transmitted = "Control" THEN c.queued_control
                                ELSE c.pending_control)
        /\ s.queued_control = (IF c.transmitted = "Control" THEN None
                               ELSE c.queued_control)
        /\ s.transmitted = "None" /\ s.fresh = FALSE
        /\ s.update = c.update /\ s.map = c.map
        /\ s.request = c.request /\ s.host_waits = c.host_waits /\ s.reason = c.reason
    BY <1>0 DEF ConnectionRecord
  <2>4. s \in ConnectionRecord
    <3> DEFINE head == IF c.transmitted = "Control" THEN c.queued_control ELSE c.pending_control
               rest == IF c.transmitted = "Control" THEN None ELSE c.queued_control
    <3>1. head \in Pdu \cup {None} /\ rest \in Pdu \cup {None}
      BY <1>0, ConnectionFields
    <3>2. s = [c EXCEPT !.pending_control = head, !.queued_control = rest,
                        !.transmitted = "None", !.fresh = FALSE]
      OBVIOUS
    <3> HIDE DEF head, rest, s
    <3> QED BY <1>0, <3>1, <3>2 DEF ConnectionRecord
  <2> HIDE DEF s, d
  <2>5. ASSUME NEW j \in Initiator PROVE HoldsItsPdu(p[j], s)
    <3>1. HoldsItsPdu(p[j], c)
      BY <2>5, ForSlots
    <3>2. CASE c.transmitted # "Control"
      BY <2>3, <3>1, <3>2 DEF HoldsItsPdu
    <3>3. CASE c.transmitted = "Control"
      <4>1. p[j] # None => ~CarriesToken(c.pending_control, p[j].token)
        BY <1>1, <3>3, NoOwnerFacts
      <4> QED BY <2>3, <3>1, <3>3, <4>1 DEF HoldsItsPdu
    <3> QED BY <3>2, <3>3
  <2>6. \A j \in Initiator : HasIndication(p[j], s)
    BY <2>3, ForSlots DEF HasIndication
  <2>7. NotPassed(s) /\ RequestTracked(s)
    BY <2>3 DEF Sound, NotPassed, RequestTracked
  <2>8. Sound(s)
    BY <2>3, <2>4, <2>5, <2>6, <2>7, ForSlots, FromSlots
  <2>9. Sustained(c, s) /\ Proceeds(c, s)
    BY <2>3, SameTimers DEF Proceeds
  <2> QED BY <2>2, <2>8, <2>9 DEF d
<1>2. CASE /\ c.transmitted = "Control" /\ owners # {}
           /\ ~NesnAckReady(p, i, c.pending_control.token)
  <2>1. acked = Disconnect(c, \h1f)
    BY <1>2 DEF WithOwner
  <2> DEFINE r == \h1f
  <2>2. r \in Reasons /\ acked = Disconnect(c, r)
    BY <2>1, ReasonCodes
  <2> HIDE DEF r, acked
  <2>3. /\ Sound(acked) /\ acked.reason # None
        /\ Sustained(c, acked) /\ Proceeds(c, acked)
    BY <2>2, Dropped
  <2>4. d = acked
    BY <1>2, <2>3 DEF Acknowledge, Then, acked
  <2> HIDE DEF d
  <2> QED BY <2>3, <2>4 DEF d
<1>3. CASE /\ c.transmitted = "Control" /\ owners # {}
           /\ NesnAckReady(p, i, c.pending_control.token)
  <2> DEFINE x == p[i]
             y == AckedContext(x)
             q == [p EXCEPT ![i] = y]
             a == [c EXCEPT !.procedures = q]
             s == Popped(a)
  <2>1. /\ i \in Initiator /\ x # None /\ x \in Context
        /\ CarriesToken(c.pending_control, x.token)
        /\ \A j \in Initiator : j # i /\ p[j] # None =>
             ~CarriesToken(c.pending_control, p[j].token)
    BY <1>3, OwnerFacts
  <2>2. NesnAck(p, i) = q
    BY DEF NesnAck
  <2>3. acked = a
    BY <1>3, <2>2 DEF WithOwner
  <2>4. a.reason = None
    BY <1>0 DEF ConnectionRecord
  <2>5. d = s
    BY <2>3, <2>4 DEF Acknowledge, Then
  <2> HIDE DEF i, d, acked
  <2>6. SoundContext(x) /\ x.phase = "AwaitingTxAck"
    BY <1>3, <2>1, ForSlots DEF NesnAckReady
  <2> HIDE DEF x
  <2>7. /\ y \in Context \cup {None} /\ SoundContext(y)
        /\ x.deadline = None
        /\ x.kind = "ConnectionParameters" => y # None
        /\ y # None => /\ y.phase = "AwaitingResponse" /\ y.kind = x.kind
                       /\ y.token = x.token
    BY <2>1, <2>6, AckedFacts
  <2> HIDE DEF y
  <2>8. /\ q \in Manager
        /\ \A j \in Initiator : q[j] = IF j = i THEN y ELSE p[j]
        /\ q.local = IF i = "local" THEN y ELSE p.local
    BY <1>0, <2>1, <2>7, AssignedSlot
  <2> HIDE DEF q
  <2>9. /\ s.event_counter = c.event_counter /\ s.procedures = q
        /\ s.pending_control = c.queued_control /\ s.queued_control = None
        /\ s.transmitted = "None" /\ s.fresh = FALSE
        /\ s.update = c.update /\ s.map = c.map
        /\ s.request = c.request /\ s.host_waits = c.host_waits /\ s.reason = c.reason
    BY <1>0, <1>3 DEF ConnectionRecord
  <2>10. s \in ConnectionRecord
    <3>1. a \in ConnectionRecord
      BY <1>0, <2>8 DEF ConnectionRecord
    <3>2. c.queued_control \in Pdu \cup {None}
      BY <1>0, ConnectionFields
    <3>3. s = [a EXCEPT !.pending_control = c.queued_control, !.queued_control = None,
                        !.transmitted = "None", !.fresh = FALSE]
      BY <1>3
    <3> HIDE DEF a, s
    <3> QED BY <3>1, <3>2, <3>3 DEF ConnectionRecord
  <2> HIDE DEF s
  <2>11. \A j \in Initiator : HoldsItsPdu(q[j], s)
    <3>1. HoldsItsPdu(y, s)
      BY <2>7 DEF HoldsItsPdu, HoldsPdu, Unsent
    <3>2. ASSUME NEW j \in Initiator, j # i PROVE HoldsItsPdu(p[j], s)
      <4>1. HoldsItsPdu(p[j], c)
        BY <3>2, ForSlots
      <4> QED BY <2>1, <2>9, <3>2, <4>1 DEF HoldsItsPdu
    <3> QED BY <2>8, <3>1, <3>2
  <2>12. \A j \in Initiator : HasIndication(q[j], s)
    <3>1. HasIndication(y, s)
      BY <2>7 DEF HasIndication
    <3>2. ASSUME NEW j \in Initiator PROVE HasIndication(p[j], s)
      BY <2>9, ForSlots DEF HasIndication
    <3> QED BY <2>8, <3>1, <3>2
  <2>13. \A j \in Initiator : SoundContext(q[j])
    BY <2>7, <2>8, ForSlots
  <2>14. ASSUME NEW j \in Initiator, NEW k \in Initiator, j # k
         PROVE  TokensApart(q[j], q[k]) /\ ~(BearsInstant(q[j]) /\ BearsInstant(q[k]))
    <3>1. /\ TokensApart(p[j], p[k]) /\ ~(BearsInstant(p[j]) /\ BearsInstant(p[k]))
      BY <2>14, ForSlots
    <3> QED BY <2>1, <2>6, <2>7, <2>8, <3>1 DEF TokensApart, BearsInstant, Active, x
  <2>15. NotPassed(s)
    BY <2>9 DEF Sound, NotPassed
  <2>16. RequestTracked(s)
    <3>1. CASE i = "local"
      <4>1. x = p.local
        BY <1>0, <3>1, Slots DEF x
      <4> QED BY <2>1, <2>6, <2>7, <2>8, <2>9, <3>1, <4>1
              DEF Sound, RequestTracked, ActiveKind, Active
    <3>2. CASE i # "local"
      BY <2>8, <2>9, <3>2 DEF Sound, RequestTracked
    <3> QED BY <3>1, <3>2
  <2>17. Sound(s)
    BY <2>9, <2>10, <2>11, <2>12, <2>13, <2>14, <2>15, <2>16, FromSlots
  <2>18. Sustained(c, s) /\ Proceeds(c, s)
    <3>1. \A j \in Initiator : Sustains(p[j], q[j])
      BY <2>1, <2>7, <2>8 DEF Sustains, Armed, x
    <3> QED BY <2>9, <3>1 DEF Sustained, Proceeds
  <2> QED BY <2>5, <2>17, <2>18 DEF d
<1> QED BY <1>1, <1>2, <1>3

-----------------------------------------------------------------------------
(***************************************************************************)
(* The queue and the start, the step and the failure of a procedure.       *)
(***************************************************************************)
\* A stage that assigns one slot keeps the invariant when the new context
\* agrees with what is stored and with the other slot.
LEMMA Replaced ==
  ASSUME NEW c, Sound(c), NEW i \in Initiator, NEW y \in Context \cup {None},
         NEW s \in ConnectionRecord, s.procedures = [c.procedures EXCEPT ![i] = y],
         SoundContext(y), HoldsItsPdu(y, s), HasIndication(y, s),
         \A j \in Initiator : j # i =>
           /\ HoldsItsPdu(c.procedures[j], s) /\ HasIndication(c.procedures[j], s)
           /\ TokensApart(y, c.procedures[j])
           /\ ~(BearsInstant(y) /\ BearsInstant(c.procedures[j])),
         NotPassed(s), RequestTracked(s), Inherits(c.procedures[i], y)
  PROVE  Sound(s) /\ Inherited(c, s)
<1> DEFINE p == c.procedures
           q == s.procedures
<1>1. \A j \in Initiator : q[j] = IF j = i THEN y ELSE p[j]
  <2>1. p \in Manager
    BY ConnectionFields DEF Sound
  <2> QED BY <2>1, AssignedSlot
<1>2. \A j \in Initiator : SoundContext(p[j])
  BY ForSlots
<1> HIDE DEF p, q
<1>3. \A j \in Initiator : SoundContext(q[j]) /\ HoldsItsPdu(q[j], s) /\ HasIndication(q[j], s)
  BY <1>1, <1>2 DEF p
<1>4. ASSUME NEW j \in Initiator, NEW k \in Initiator, j # k
      PROVE  TokensApart(q[j], q[k]) /\ ~(BearsInstant(q[j]) /\ BearsInstant(q[k]))
  <2>1. CASE j = i
    BY <1>1, <1>4, <2>1 DEF p
  <2>2. CASE k = i
    <3>1. TokensApart(y, p[j]) /\ ~(BearsInstant(y) /\ BearsInstant(p[j]))
      BY <1>4, <2>2 DEF p
    <3> QED BY <1>1, <1>4, <2>2, <3>1 DEF TokensApart
  <2>3. CASE j # i /\ k # i
    BY <1>1, <1>4, <2>3, ForSlots DEF p
  <2> QED BY <2>1, <2>2, <2>3
<1>5. Sound(s)
  BY <1>3, <1>4, FromSlots DEF q
<1>6. Inherited(c, s)
  BY <1>1 DEF Inherited, Inherits, p, q
<1> QED BY <1>5, <1>6

\* What queueing a PDU does: a free place is taken, nothing else changes.
LEMMA QueueFacts ==
  ASSUME NEW c \in ConnectionRecord, NEW op, NEW token \in Tokens \cup {None}
  PROVE  LET d == QueueControlWithToken(c, op, token)
         IN  /\ d \in ConnectionRecord
             /\ d.event_counter = c.event_counter /\ d.procedures = c.procedures
             /\ d.transmitted = c.transmitted /\ d.fresh = c.fresh
             /\ d.update = c.update /\ d.map = c.map
             /\ d.request = c.request /\ d.host_waits = c.host_waits
             /\ d.reason = c.reason
             /\ c.pending_control # None => d.pending_control = c.pending_control
             /\ c.queued_control # None => d.queued_control = c.queued_control
             /\ ~ControlQueueFull(c) => \/ CarriesToken(d.pending_control, token)
                                        \/ CarriesToken(d.queued_control, token)
<1> DEFINE d == QueueControlWithToken(c, op, token)
           pdu == [terminate |-> op = "TERMINATE_IND", token |-> token]
<1>1. pdu \in Pdu /\ pdu.token = token
  BY DEF Pdu
<1>2. pdu # None
  BY <1>1, NoneFacts
<1>3. CASE c.pending_control = None
  <2>1. d = [c EXCEPT !.pending_control = pdu]
    BY <1>3 DEF QueueControlWithToken
  <2> HIDE DEF d, pdu
  <2>2. /\ d.pending_control = pdu /\ d.queued_control = c.queued_control
        /\ d.event_counter = c.event_counter /\ d.procedures = c.procedures
        /\ d.transmitted = c.transmitted /\ d.fresh = c.fresh
        /\ d.update = c.update /\ d.map = c.map
        /\ d.request = c.request /\ d.host_waits = c.host_waits
        /\ d.reason = c.reason
    BY <2>1 DEF ConnectionRecord
  <2>3. d \in ConnectionRecord
    BY <1>1, <2>1 DEF ConnectionRecord
  <2> QED BY <1>1, <1>2, <1>3, <2>2, <2>3 DEF d, CarriesToken
<1>4. CASE c.pending_control # None /\ c.queued_control = None
  <2>1. d = [c EXCEPT !.queued_control = pdu]
    BY <1>4 DEF QueueControlWithToken
  <2> HIDE DEF d, pdu
  <2>2. /\ d.pending_control = c.pending_control /\ d.queued_control = pdu
        /\ d.event_counter = c.event_counter /\ d.procedures = c.procedures
        /\ d.transmitted = c.transmitted /\ d.fresh = c.fresh
        /\ d.update = c.update /\ d.map = c.map
        /\ d.request = c.request /\ d.host_waits = c.host_waits
        /\ d.reason = c.reason
    BY <2>1 DEF ConnectionRecord
  <2>3. d \in ConnectionRecord
    BY <1>1, <2>1 DEF ConnectionRecord
  <2> QED BY <1>1, <1>2, <1>4, <2>2, <2>3 DEF d, CarriesToken
<1>5. CASE c.pending_control # None /\ c.queued_control # None
  <2>1. d = c
    BY <1>5 DEF QueueControlWithToken
  <2> HIDE DEF d
  <2> QED BY <1>5, <2>1 DEF d, ControlQueueFull
<1> QED BY <1>3, <1>4, <1>5

\* A longer queue still holds what it held.
LEMMA LongerQueueHolds ==
  ASSUME NEW c, NEW d, NEW x, HoldsItsPdu(x, c),
         d.transmitted = c.transmitted, d.fresh = c.fresh,
         c.pending_control # None => d.pending_control = c.pending_control,
         c.queued_control # None => d.queued_control = c.queued_control
  PROVE  HoldsItsPdu(x, d)
  BY DEF HoldsItsPdu, CarriesToken

\* A PDU outside every procedure.
LEMMA QueueControlSound ==
  ASSUME NEW c, Sound(c), NEW op
  PROVE  LET d == QueueControl(c, op)
         IN  Sound(d) /\ Inherited(c, d) /\ Proceeds(c, d)
<1> DEFINE d == QueueControl(c, op)
           token == None
<1>0. c \in ConnectionRecord
  BY DEF Sound
<1>1. token \in Tokens \cup {None} /\ d = QueueControlWithToken(c, op, token)
  BY DEF QueueControl
<1> HIDE DEF d, token
<1>2. /\ d \in ConnectionRecord
      /\ d.event_counter = c.event_counter /\ d.procedures = c.procedures
      /\ d.transmitted = c.transmitted /\ d.fresh = c.fresh
      /\ d.update = c.update /\ d.map = c.map
      /\ d.request = c.request /\ d.host_waits = c.host_waits
      /\ d.reason = c.reason
      /\ c.pending_control # None => d.pending_control = c.pending_control
      /\ c.queued_control # None => d.queued_control = c.queued_control
  BY <1>0, <1>1, QueueFacts
<1>3. ASSUME NEW j \in Initiator PROVE HoldsItsPdu(c.procedures[j], d)
  <2>1. HoldsItsPdu(c.procedures[j], c)
    BY <1>3, ForSlots
  <2> QED BY <1>2, <2>1, LongerQueueHolds
<1>4. \A j \in Initiator : HasIndication(c.procedures[j], d)
  BY <1>2, ForSlots DEF HasIndication
<1>5. NotPassed(d) /\ RequestTracked(d)
  BY <1>2 DEF Sound, NotPassed, RequestTracked
<1>6. Sound(d)
  BY <1>2, <1>3, <1>4, <1>5, ForSlots, FromSlots
<1> QED BY <1>2, <1>6, SameTimers DEF d, Proceeds

\* A context as it is created, or with its response queued.
LEMMA NewContextFacts ==
  ASSUME NEW kind \in Kinds, NEW token \in Tokens, NEW expected \in Opcodes \cup {None},
         NEW instant \in Counters \cup {None}, NEW timeout \in Ticks \cup {None}
  PROVE  LET x == NewContext(kind, token, expected, instant, timeout)
         IN  /\ x \in Context /\ x # None
             /\ x.kind = kind /\ x.phase = "Queued" /\ x.token = token
             /\ x.expected = expected /\ x.instant = instant /\ x.deadline = None
<1> DEFINE x == NewContext(kind, token, expected, instant, timeout)
<1>1. x \in Context
  BY DEF NewContext, Context, Phases, HoldsPdu, Unsent
<1>2. /\ x.kind = kind /\ x.phase = "Queued" /\ x.token = token
      /\ x.expected = expected /\ x.instant = instant /\ x.deadline = None
  BY DEF NewContext
<1> QED BY <1>1, <1>2, NoneFacts

\* b is c with the slot of initiator i assigned.
Assigned(c, i, y, b) == b = [c EXCEPT !.procedures = [c.procedures EXCEPT ![i] = y]]

\* A procedure starts with its PDU in the queue.
LEMMA Enqueued ==
  ASSUME NEW c, Sound(c), ~ControlQueueFull(c), NEW i \in Initiator, NEW y \in Context,
         y.phase \in Unsent, y.instant = None, y.deadline = None,
         y.kind \notin {"ConnectionUpdate", "ChannelMapUpdate"},
         y.kind = "ConnectionParameters" => y.expected # None,
         y.token = AllocateControlToken(c), NEW op,
         \A j \in Initiator : j # i => ~(BearsInstant(y) /\ BearsInstant(c.procedures[j])),
         NEW b, Assigned(c, i, y, b),
         NEW d, d = QueueControlWithToken(b, op, y.token)
  PROVE  /\ d \in ConnectionRecord
         /\ d.procedures = [c.procedures EXCEPT ![i] = y]
         /\ SoundContext(y) /\ HoldsItsPdu(y, d) /\ HasIndication(y, d)
         /\ \A j \in Initiator : j # i =>
              /\ HoldsItsPdu(c.procedures[j], d) /\ HasIndication(c.procedures[j], d)
              /\ TokensApart(y, c.procedures[j])
              /\ ~(BearsInstant(y) /\ BearsInstant(c.procedures[j]))
         /\ NotPassed(d) /\ Inherits(c.procedures[i], y) /\ Proceeds(c, d)
         /\ d.update = c.update /\ d.map = c.map
         /\ d.request = c.request /\ d.host_waits = c.host_waits
<1> DEFINE p == c.procedures
           q == [p EXCEPT ![i] = y]
           t == y.token
<1>0. c \in ConnectionRecord /\ p \in Manager
  BY ConnectionFields DEF Sound
<1>1. t \in Tokens /\ y # None
  BY NoneFacts DEF Context
<1>2. q \in Manager
  BY <1>0, AssignedSlot
<1> HIDE DEF q
<1>3. /\ b.event_counter = c.event_counter /\ b.procedures = q
      /\ b.pending_control = c.pending_control /\ b.queued_control = c.queued_control
      /\ b.transmitted = c.transmitted /\ b.fresh = c.fresh
      /\ b.update = c.update /\ b.map = c.map
      /\ b.request = c.request /\ b.host_waits = c.host_waits /\ b.reason = c.reason
  BY <1>0 DEF ConnectionRecord, q, Assigned
<1>4. b \in ConnectionRecord
  BY <1>0, <1>2 DEF ConnectionRecord, q, Assigned
<1>5. ~ControlQueueFull(b)
  BY <1>3 DEF ControlQueueFull
<1>a. d = QueueControlWithToken(b, op, t)
  OBVIOUS
<1> HIDE DEF t
<1>6. /\ d \in ConnectionRecord
      /\ d.event_counter = b.event_counter /\ d.procedures = b.procedures
      /\ d.transmitted = b.transmitted /\ d.fresh = b.fresh
      /\ d.update = b.update /\ d.map = b.map
      /\ d.request = b.request /\ d.host_waits = b.host_waits
      /\ d.reason = b.reason
      /\ b.pending_control # None => d.pending_control = b.pending_control
      /\ b.queued_control # None => d.queued_control = b.queued_control
      /\ CarriesToken(d.pending_control, t) \/ CarriesToken(d.queued_control, t)
  BY <1>1, <1>4, <1>5, <1>a, QueueFacts
<1>7. SoundContext(y) /\ HoldsItsPdu(y, d) /\ HasIndication(y, d)
  BY <1>6 DEF SoundContext, HoldsItsPdu, HasIndication, Unsent, HoldsPdu, t
<1>8. ASSUME NEW j \in Initiator
      PROVE  HoldsItsPdu(p[j], d) /\ HasIndication(p[j], d) /\ TokensApart(y, p[j])
  <2>1. HoldsItsPdu(p[j], c) /\ HasIndication(p[j], c)
    BY <1>8, ForSlots
  <2>2. HoldsItsPdu(p[j], d)
    BY <1>3, <1>6, <2>1, LongerQueueHolds
  <2>3. HasIndication(p[j], d)
    BY <1>3, <1>6, <2>1 DEF HasIndication
  <2>4. p[j] # None => p[j].token # AllocateControlToken(c)
    BY <1>0, <1>8, FreshToken, Slots
  <2> QED BY <2>2, <2>3, <2>4 DEF TokensApart
<1>9. NotPassed(d) /\ Proceeds(c, d)
  BY <1>3, <1>6 DEF Sound, NotPassed, Proceeds
<1>10. Inherits(p[i], y)
  BY DEF Inherits, Armed
<1> QED BY <1>3, <1>6, <1>7, <1>8, <1>9, <1>10 DEF q

\* A finished or failed context needs nothing of what is stored.
Retired(x, y) ==
  y # None =>
    /\ x # None /\ y.phase = "Failed" /\ y.deadline = None
    /\ y.kind = x.kind /\ y.token = x.token /\ y.expected = x.expected
    /\ y.kind \notin {"ConnectionUpdate", "ChannelMapUpdate"}

\* fail() retires a context whatever its phase.
LEMMA FailedFacts ==
  ASSUME NEW x \in Context \cup {None}, SoundContext(x)
  PROVE  FailedContext(x) \in Context \cup {None} /\ Retired(x, FailedContext(x))
<1>1. CASE x # None /\ x.phase \in HoldsPdu \cup {"Failed"}
  <2> DEFINE y == [x EXCEPT !.phase = "Failed", !.deadline = None, !.pending_response = FALSE]
  <2>1. x \in Context /\ FailedContext(x) = y
    BY <1>1 DEF FailedContext
  <2>2. y \in Context
    BY <2>1 DEF Context, Phases
  <2>3. /\ y.phase = "Failed" /\ y.deadline = None /\ y.kind = x.kind
        /\ y.token = x.token /\ y.expected = x.expected
    BY <2>1 DEF Context
  <2> HIDE DEF y
  <2>4. x.kind \notin {"ConnectionUpdate", "ChannelMapUpdate"}
    BY <1>1 DEF SoundContext, HoldsPdu, Unsent
  <2> QED BY <1>1, <2>1, <2>2, <2>3, <2>4 DEF Retired
<1>2. CASE ~(x # None /\ x.phase \in HoldsPdu \cup {"Failed"})
  BY <1>2 DEF FailedContext, Retired
<1> QED BY <1>1, <1>2

\* A stage that only retires the context of one slot.
LEMMA RetiredSound ==
  ASSUME NEW c, Sound(c), NEW i \in Initiator, NEW y \in Context \cup {None},
         Retired(c.procedures[i], y),
         NEW s \in ConnectionRecord, s.procedures = [c.procedures EXCEPT ![i] = y],
         s.pending_control = c.pending_control, s.queued_control = c.queued_control,
         s.transmitted = c.transmitted, s.fresh = c.fresh,
         s.update = c.update, s.map = c.map, s.event_counter = c.event_counter,
         s.reason = c.reason, RequestTracked(s)
  PROVE  Sound(s) /\ Inherited(c, s) /\ Proceeds(c, s)
<1> DEFINE p == c.procedures
           x == p[i]
<1>1. SoundContext(x)
  BY ForSlots
<1>2. SoundContext(y) /\ HoldsItsPdu(y, s) /\ HasIndication(y, s) /\ Inherits(x, y)
  BY <1>1 DEF Retired, SoundContext, HoldsItsPdu, HasIndication, Inherits, Armed,
              HoldsPdu, Unsent
<1>3. ASSUME NEW j \in Initiator, j # i
      PROVE  /\ HoldsItsPdu(p[j], s) /\ HasIndication(p[j], s)
             /\ TokensApart(y, p[j]) /\ ~(BearsInstant(y) /\ BearsInstant(p[j]))
  <2>1. HoldsItsPdu(p[j], c) /\ HasIndication(p[j], c) /\ TokensApart(x, p[j])
    BY <1>3, ForSlots
  <2>2. HoldsItsPdu(p[j], s)
    BY <2>1 DEF HoldsItsPdu
  <2>3. HasIndication(p[j], s)
    BY <2>1 DEF HasIndication
  <2>4. TokensApart(y, p[j]) /\ ~BearsInstant(y)
    BY <2>1 DEF TokensApart, Retired, BearsInstant, Active
  <2> QED BY <2>2, <2>3, <2>4
<1>4. NotPassed(s)
  BY DEF Sound, NotPassed
<1>5. Sound(s) /\ Inherited(c, s)
  BY <1>2, <1>3, <1>4, Replaced
<1> QED BY <1>5 DEF Proceeds

\* The local request fails: its context is retired with it.
LEMMA FailLocalRequestSound ==
  ASSUME NEW c, Sound(c)
  PROVE  LET d == FailLocalRequest(c)
         IN  /\ Sound(d) /\ Inherited(c, d)
             /\ d.event_counter = c.event_counter /\ d.reason = c.reason
             /\ d.update = c.update /\ d.map = c.map
             /\ ~d.request
<1> DEFINE d == FailLocalRequest(c)
           p == c.procedures
           i == "local"
           y == FailedContext(p[i])
           q == [p EXCEPT ![i] = y]
           s == [c EXCEPT !.request = FALSE, !.host_waits = FALSE, !.procedures = q]
<1>0. c \in ConnectionRecord /\ p \in Manager /\ i \in Initiator
  BY ConnectionFields DEF Sound, Initiator
<1>1. CASE ~c.request
  <2>1. d = c
    BY <1>1 DEF FailLocalRequest
  <2> HIDE DEF d
  <2> QED BY <1>1, <2>1, SameTimers DEF d
<1>2. CASE c.request
  <2>1. y \in Context \cup {None} /\ Retired(p[i], y)
    BY <1>0, FailedFacts, ForSlots
  <2>2. Fail(p, i) = q
    BY DEF Fail
  <2>3. d = s
    BY <1>2, <2>2 DEF FailLocalRequest
  <2>4. q \in Manager /\ q.local = y
    BY <1>0, <2>1, AssignedSlot
  <2> HIDE DEF y, q, d
  <2>5. /\ s.event_counter = c.event_counter /\ s.procedures = q
        /\ s.pending_control = c.pending_control /\ s.queued_control = c.queued_control
        /\ s.transmitted = c.transmitted /\ s.fresh = c.fresh
        /\ s.update = c.update /\ s.map = c.map
        /\ s.request = FALSE /\ s.host_waits = FALSE /\ s.reason = c.reason
    BY <1>0 DEF ConnectionRecord
  <2>6. s \in ConnectionRecord
    BY <1>0, <2>4 DEF ConnectionRecord
  <2> HIDE DEF s
  <2>7. RequestTracked(s)
    BY <2>1, <2>4, <2>5 DEF RequestTracked, ActiveKind, Active, Retired
  <2> HIDE DEF i
  <2>8. Sound(s) /\ Inherited(c, s)
    BY <1>0, <2>1, <2>5, <2>6, <2>7, RetiredSound DEF q
  <2> QED BY <2>3, <2>5, <2>8 DEF d
<1> QED BY <1>1, <1>2

\* LL_UNKNOWN_RSP and LL_REJECT_EXT_IND: only the refused procedure fails.
LEMMA OnRejectedSound ==
  ASSUME NEW c, Sound(c), NEW pdu
  PROVE  LET d == OnRejected(c, pdu)
         IN  Sound(d) /\ Inherited(c, d) /\ Proceeds(c, d)
<1> DEFINE d == OnRejected(c, pdu)
           p == c.procedures
           i == "remote"
           y == FailedContext(p[i])
           q == [p EXCEPT ![i] = y]
           s == [c EXCEPT !.procedures = q, !.host_waits = FALSE]
<1>0. c \in ConnectionRecord /\ p \in Manager /\ i \in Initiator
  BY ConnectionFields DEF Sound, Initiator
<1>1. CASE pdu.rejected = "PARAM_REQ" /\ c.request
  <2>1. d = FailLocalRequest(c)
    BY <1>1 DEF OnRejected
  <2> HIDE DEF d
  <2>2. /\ Sound(d) /\ Inherited(c, d)
        /\ d.event_counter = c.event_counter /\ d.reason = c.reason
    BY <2>1, FailLocalRequestSound
  <2> QED BY <2>2 DEF d, Proceeds
<1>2. CASE /\ ~(pdu.rejected = "PARAM_REQ" /\ c.request)
           /\ pdu.op = "REJECT_EXT_IND" /\ pdu.rejected = "PARAM_RSP"
           /\ RemoteConnectionParametersActive(c)
  <2>1. y \in Context \cup {None} /\ Retired(p[i], y)
    BY <1>0, FailedFacts, ForSlots
  <2>2. Fail(p, i) = q
    BY DEF Fail
  <2>3. d = s
    BY <1>2, <2>2 DEF OnRejected
  <2>4. q \in Manager /\ q.local = p.local
    BY <1>0, <2>1, AssignedSlot
  <2> HIDE DEF y, q, d
  <2>5. /\ s.event_counter = c.event_counter /\ s.procedures = q
        /\ s.pending_control = c.pending_control /\ s.queued_control = c.queued_control
        /\ s.transmitted = c.transmitted /\ s.fresh = c.fresh
        /\ s.update = c.update /\ s.map = c.map
        /\ s.request = c.request /\ s.host_waits = FALSE /\ s.reason = c.reason
    BY <1>0 DEF ConnectionRecord
  <2>6. s \in ConnectionRecord
    BY <1>0, <2>4 DEF ConnectionRecord
  <2> HIDE DEF s
  <2>7. c.request = FALSE
    <3>1. BearsInstant(p.remote)
      BY <1>2 DEF RemoteConnectionParametersActive, ActiveKind, BearsInstant, InstantKinds
    <3>2. ~BearsInstant(p.local)
      BY <3>1 DEF Sound, SoundProcedures
    <3>3. ~c.request
      BY <3>2 DEF Sound, RequestTracked, ActiveKind, BearsInstant, InstantKinds
    <3> QED BY <1>0, <3>3, ConnectionFields
  <2>8. RequestTracked(s)
    BY <2>4, <2>5, <2>7 DEF RequestTracked, Sound
  <2> HIDE DEF i
  <2>9. Sound(s) /\ Inherited(c, s) /\ Proceeds(c, s)
    BY <1>0, <2>1, <2>5, <2>6, <2>8, RetiredSound DEF q
  <2> QED BY <2>3, <2>9 DEF d
<1>3. CASE /\ ~(pdu.rejected = "PARAM_REQ" /\ c.request)
           /\ ~(/\ pdu.op = "REJECT_EXT_IND" /\ pdu.rejected = "PARAM_RSP"
                /\ RemoteConnectionParametersActive(c))
  <2>1. d = c
    BY <1>3 DEF OnRejected
  <2> HIDE DEF d
  <2> QED BY <2>1, SameTimers DEF d, Proceeds
<1> QED BY <1>1, <1>2, <1>3

\* A remote procedure starts only in a free slot, and with an instant only
\* beside a local procedure that bears none.
LEMMA StartAllowed ==
  ASSUME NEW p, NEW kind
  PROVE  /\ StartRemoteError(p, kind) = None =>
              /\ ~Active(p.remote)
              /\ ~(BearsInstant(p.local) /\ kind \in InstantKinds)
         /\ StartRemoteError(p, kind) \in {None, Busy, \h23, \h2a}
  BY LlcpAssumption DEF StartRemoteError, Collision, ProcedureCollisionError, Busy, BearsInstant

\* A response to a request of the Central: rejected, dropped with its
\* context, or queued with it.
LEMMA QueueRemoteProcedureResponseSound ==
  ASSUME NEW c, Sound(c), NEW op,
         NEW kind \in Kinds \ {"ConnectionUpdate", "ChannelMapUpdate"},
         NEW expected \in Opcodes \cup {None}, NEW timeout \in Ticks \cup {None},
         kind = "ConnectionParameters" => expected # None
  PROVE  LET d == QueueRemoteProcedureResponse(c, kind, op, expected, timeout)
         IN  Sound(d) /\ Inherited(c, d) /\ Proceeds(c, d)
<1> DEFINE d == QueueRemoteProcedureResponse(c, kind, op, expected, timeout)
           p == c.procedures
           i == "remote"
           token == AllocateControlToken(c)
           instant == None
           x == NewContext(kind, token, expected, instant, timeout)
<1>0. c \in ConnectionRecord /\ p \in Manager /\ i \in Initiator
  BY ConnectionFields DEF Sound, Initiator
<1>1. CASE StartRemoteError(p, kind) # None
  <2> DEFINE reject == "REJECT_EXT_IND"
  <2>1. d = QueueControl(c, reject)
    BY <1>1 DEF QueueRemoteProcedureResponse
  <2> HIDE DEF d, reject
  <2> QED BY <2>1, QueueControlSound DEF d
<1>2. CASE StartRemoteError(p, kind) = None /\ ControlQueueFull(c)
  <2> DEFINE y == None
             q == [p EXCEPT ![i] = y]
             s == [c EXCEPT !.procedures = q]
  <2>1. y \in Context \cup {None} /\ Retired(p[i], y)
    BY DEF Retired
  <2>2. d = s
    BY <1>0, <1>2 DEF QueueRemoteProcedureResponse, ConnectionRecord, Manager
  <2>3. q \in Manager /\ q.local = p.local
    BY <1>0, <2>1, AssignedSlot
  <2> HIDE DEF y, q, d
  <2>4. /\ s.event_counter = c.event_counter /\ s.procedures = q
        /\ s.pending_control = c.pending_control /\ s.queued_control = c.queued_control
        /\ s.transmitted = c.transmitted /\ s.fresh = c.fresh
        /\ s.update = c.update /\ s.map = c.map
        /\ s.request = c.request /\ s.host_waits = c.host_waits /\ s.reason = c.reason
    BY <1>0 DEF ConnectionRecord
  <2>5. s \in ConnectionRecord
    BY <1>0, <2>3 DEF ConnectionRecord
  <2> HIDE DEF s
  <2>6. RequestTracked(s)
    BY <2>3, <2>4 DEF RequestTracked, Sound
  <2> HIDE DEF i
  <2>7. Sound(s) /\ Inherited(c, s) /\ Proceeds(c, s)
    BY <1>0, <2>1, <2>4, <2>5, <2>6, RetiredSound DEF q
  <2> QED BY <2>2, <2>7 DEF d
<1>3. CASE StartRemoteError(p, kind) = None /\ ~ControlQueueFull(c)
  <2> DEFINE y == [x EXCEPT !.token = token, !.pending_response = TRUE,
                            !.phase = "ResponseQueued"]
             q == [p EXCEPT ![i] = y]
             b == [c EXCEPT !.procedures = q]
  <2>1. token \in Tokens
    BY <1>0, FreshToken
  <2>2. instant \in Counters \cup {None}
    OBVIOUS
  <2>3. StartRemote(p, x) = [p EXCEPT ![i] = x]
    <3>1. x.instant = None
      BY DEF NewContext
    <3> QED BY <3>1 DEF StartRemote
  <2> HIDE DEF token, instant
  <2>4. /\ x \in Context /\ x.kind = kind /\ x.token = token
        /\ x.expected = expected /\ x.instant = instant /\ x.deadline = None
    BY <2>1, <2>2, NewContextFacts
  <2> HIDE DEF x
  <2>5. ResponseQueued(StartRemote(p, x), token) = q
    <3>1. [p EXCEPT ![i] = x] \in Manager
      BY <1>0, <2>4, AssignedSlot
    <3> QED BY <1>0, <2>3, <2>4, <3>1 DEF ResponseQueued, Manager, Context
  <2>6. d = QueueControlWithToken(b, op, token)
    BY <1>3, <2>5 DEF QueueRemoteProcedureResponse, token, x, instant
  <2>7. /\ y.kind = kind /\ y.token = token /\ y.phase = "ResponseQueued"
        /\ y.expected = expected /\ y.instant = None /\ y.deadline = None
    BY <2>4 DEF Context, instant
  <2>8. y \in Context
    BY <2>1, <2>4 DEF Context, Phases, HoldsPdu, Unsent
  <2> HIDE DEF y, d
  <2>9. Assigned(c, i, y, b)
    BY DEF Assigned
  <2>10. q.local = p.local /\ q = [p EXCEPT ![i] = y]
    BY <1>0, <2>8, AssignedSlot
  <2> HIDE DEF q, b
  <2>11. \A j \in Initiator : j # i => ~(BearsInstant(y) /\ BearsInstant(p[j]))
    <3>1. ~(BearsInstant(p.local) /\ kind \in InstantKinds)
      BY <1>3, StartAllowed
    <3>2. \A j \in Initiator : j # i => p[j] = p.local
      BY <1>0, Slots DEF Initiator
    <3> QED BY <2>7, <3>1, <3>2 DEF BearsInstant
  <2> HIDE DEF i
  <2>12. y.phase \in Unsent /\ y.token = AllocateControlToken(c)
    BY <2>7 DEF Unsent, token
  <2>13. /\ d \in ConnectionRecord /\ d.procedures = q
         /\ SoundContext(y) /\ HoldsItsPdu(y, d) /\ HasIndication(y, d)
         /\ \A j \in Initiator : j # i =>
              /\ HoldsItsPdu(p[j], d) /\ HasIndication(p[j], d)
              /\ TokensApart(y, p[j])
              /\ ~(BearsInstant(y) /\ BearsInstant(p[j]))
         /\ NotPassed(d) /\ Inherits(p[i], y) /\ Proceeds(c, d)
         /\ d.update = c.update /\ d.map = c.map
         /\ d.request = c.request /\ d.host_waits = c.host_waits
    BY <1>0, <1>3, <2>6, <2>7, <2>8, <2>9, <2>10, <2>11, <2>12, Enqueued
  <2>14. RequestTracked(d)
    BY <2>10, <2>13 DEF RequestTracked, Sound
  <2>15. Sound(d) /\ Inherited(c, d)
    BY <1>0, <2>8, <2>10, <2>13, <2>14, Replaced
  <2> QED BY <2>13, <2>15 DEF d
<1> QED BY <1>1, <1>2, <1>3

\* LL_CONNECTION_PARAM_REQ: rejected, or answered after the local request failed.
LEMMA OnParamReqSound ==
  ASSUME NEW c, Sound(c), NEW pdu
  PROVE  LET d == OnParamReq(c, pdu)
         IN  Sound(d) /\ Inherited(c, d) /\ Proceeds(c, d)
<1> DEFINE d == OnParamReq(c, pdu)
           f == FailLocalRequest(c)
           reject == "REJECT_EXT_IND"
           kind == "ConnectionParameters"
           op == "PARAM_RSP"
           expected == "UPDATE_IND"
           timeout == ResponseTimeout
<1>1. d = QueueControl(c, reject) \/ d = QueueRemoteProcedureResponse(f, kind, op, expected, timeout)
  BY DEF OnParamReq
<1>2. kind \in Kinds \ {"ConnectionUpdate", "ChannelMapUpdate"} /\ expected \in Opcodes
  BY DEF Kinds, InstantKinds, Opcodes
<1>3. expected # None
  BY <1>2, NoneFacts
<1>4. timeout \in Ticks
  BY LlcpAssumption DEF Ticks
<1>5. /\ Sound(f) /\ Inherited(c, f)
      /\ f.event_counter = c.event_counter /\ f.reason = c.reason
  BY FailLocalRequestSound
<1> HIDE DEF d, f, reject, kind, op, expected, timeout
<1>6. CASE d = QueueControl(c, reject)
  BY <1>6, QueueControlSound DEF d
<1>7. CASE d = QueueRemoteProcedureResponse(f, kind, op, expected, timeout)
  <2>1. Sound(d) /\ Inherited(f, d) /\ Proceeds(f, d)
    BY <1>2, <1>3, <1>4, <1>5, <1>7, QueueRemoteProcedureResponseSound
  <2>2. Inherited(c, d) /\ Proceeds(c, d)
    BY <1>5, <2>1 DEF Inherited, Inherits, Proceeds
  <2> QED BY <2>1, <2>2 DEF d
<1> QED BY <1>1, <1>6, <1>7

-----------------------------------------------------------------------------
(***************************************************************************)
(* The indications with an instant, and handle_ll_control.                 *)
(***************************************************************************)
\* The context of an indication of the Central that needs no response.
LEMMA IndicationContext ==
  ASSUME NEW p \in Manager, NEW kind \in {"ConnectionUpdate", "ChannelMapUpdate"},
         NEW token \in Tokens, NEW instant \in Counters,
         NEW x, x = NewContext(kind, token, None, instant, None)
  PROVE  \E y \in Context :
           /\ StartRemote(p, x) = [p EXCEPT !["remote"] = y]
           /\ y.kind = kind /\ y.token = token /\ y.phase = "AwaitingInstant"
           /\ y.instant = instant /\ y.deadline = None
<1> DEFINE y == [x EXCEPT !.phase = "AwaitingInstant"]
           none == None
<1>1. kind \in Kinds
  BY DEF Kinds, InstantKinds
<1>2. /\ none \in Opcodes \cup {None} /\ none \in Ticks \cup {None}
      /\ x = NewContext(kind, token, none, instant, none)
  OBVIOUS
<1> HIDE DEF none
<1>3. /\ x \in Context /\ x.kind = kind /\ x.token = token
      /\ x.instant = instant /\ x.deadline = None
  BY <1>1, <1>2, NewContextFacts
<1>4. y \in Context
  BY <1>3 DEF Context, Phases, Waiting
<1>5. /\ y.kind = kind /\ y.token = token /\ y.phase = "AwaitingInstant"
      /\ y.instant = instant /\ y.deadline = None
  BY <1>3 DEF Context
<1>6. instant # None
  BY NoneFacts
<1>7. StartRemote(p, x) = [p EXCEPT !["remote"] = y]
  BY <1>3, <1>6 DEF StartRemote
<1> QED BY <1>4, <1>5, <1>7

\* A response with its instant: the context waits for it, its timer goes on.
LEMMA RespondedContext ==
  ASSUME NEW p \in Manager, NEW i \in Initiator, NEW instant \in Counters,
         ExpectsResponse(p, i, "UPDATE_IND"), p[i] \in Context
  PROVE  \E y \in Context :
           /\ ExpectedResponseWithInstant(p, i, instant) = [p EXCEPT ![i] = y]
           /\ y.kind = p[i].kind /\ y.token = p[i].token /\ y.phase = "AwaitingInstant"
           /\ y.instant = instant /\ y.deadline = p[i].deadline
           /\ y.expected = p[i].expected
<1> DEFINE x == p[i]
           y == [x EXCEPT !.phase = "AwaitingInstant", !.instant = instant]
<1>1. y \in Context
  BY DEF Context, Phases, Waiting
<1>2. /\ y.kind = x.kind /\ y.token = x.token /\ y.phase = "AwaitingInstant"
      /\ y.instant = instant /\ y.deadline = x.deadline /\ y.expected = x.expected
  BY DEF Context
<1>3. ExpectedResponseWithInstant(p, i, instant) = [p EXCEPT ![i] = y]
  BY DEF ExpectedResponseWithInstant, Manager, Initiator, Context
<1> QED BY <1>1, <1>2, <1>3

\* An indication is stored with the context that waits for its instant.
LEMMA IndicationStored ==
  ASSUME NEW c, Sound(c), NEW i \in Initiator, NEW y \in Context,
         y.phase = "AwaitingInstant", y.instant \in Counters,
         y.kind = "ConnectionParameters" => y.expected # None,
         NEW b, Assigned(c, i, y, b), NEW s,
         IF y.kind = "ChannelMapUpdate"
         THEN c.map = None /\ s = [b EXCEPT !.map = y.instant]
         ELSE /\ c.update = None
              /\ \E changed \in BOOLEAN :
                   s = [b EXCEPT !.update = [instant |-> y.instant, changed |-> changed]],
         ~IsPassed(c.event_counter, y.instant),
         \A j \in Initiator : j # i =>
           /\ TokensApart(y, c.procedures[j])
           /\ ~(BearsInstant(y) /\ BearsInstant(c.procedures[j])),
         Inherits(c.procedures[i], y),
         i = "local" => c.request /\ ActiveKind(y, "ConnectionParameters"),
         i # "local" /\ y.kind # "ChannelMapUpdate" => ~c.request
  PROVE  Sound(s) /\ Inherited(c, s) /\ Proceeds(c, s)
<1> DEFINE p == c.procedures
           q == [p EXCEPT ![i] = y]
<1>0. c \in ConnectionRecord /\ p \in Manager
  BY ConnectionFields DEF Sound
<1>1. /\ q \in Manager /\ q.local = IF i = "local" THEN y ELSE p.local
  BY <1>0, AssignedSlot
<1>1a. b = [c EXCEPT !.procedures = q]
  BY DEF Assigned
<1> HIDE DEF q
<1>2. /\ b.event_counter = c.event_counter /\ b.procedures = q
      /\ b.pending_control = c.pending_control /\ b.queued_control = c.queued_control
      /\ b.transmitted = c.transmitted /\ b.fresh = c.fresh
      /\ b.update = c.update /\ b.map = c.map
      /\ b.request = c.request /\ b.host_waits = c.host_waits /\ b.reason = c.reason
  BY <1>0, <1>1a DEF ConnectionRecord
<1>3. b \in ConnectionRecord
  BY <1>0, <1>1, <1>1a DEF ConnectionRecord
<1>4. /\ s \in ConnectionRecord
      /\ s.event_counter = c.event_counter /\ s.procedures = q
      /\ s.pending_control = c.pending_control /\ s.queued_control = c.queued_control
      /\ s.transmitted = c.transmitted /\ s.fresh = c.fresh
      /\ s.request = c.request /\ s.host_waits = c.host_waits /\ s.reason = c.reason
      /\ IF y.kind = "ChannelMapUpdate"
         THEN s.map = y.instant /\ s.update = c.update
         ELSE s.update # None /\ s.update.instant = y.instant /\ s.map = c.map
  <2>1. CASE y.kind = "ChannelMapUpdate"
    <3>1. s = [b EXCEPT !.map = y.instant]
      BY <2>1
    <3>2. s \in ConnectionRecord
      BY <1>3, <3>1 DEF ConnectionRecord
    <3>3. /\ s.event_counter = b.event_counter /\ s.procedures = b.procedures
          /\ s.pending_control = b.pending_control /\ s.queued_control = b.queued_control
          /\ s.transmitted = b.transmitted /\ s.fresh = b.fresh
          /\ s.request = b.request /\ s.host_waits = b.host_waits /\ s.reason = b.reason
          /\ s.map = y.instant /\ s.update = b.update
      BY <1>3, <3>1 DEF ConnectionRecord
    <3> QED BY <1>2, <2>1, <3>2, <3>3
  <2>2. CASE y.kind # "ChannelMapUpdate"
    <3>1. PICK changed \in BOOLEAN :
            s = [b EXCEPT !.update = [instant |-> y.instant, changed |-> changed]]
      BY <2>2
    <3> DEFINE ind == [instant |-> y.instant, changed |-> changed]
    <3>2. ind \in Indication /\ ind.instant = y.instant
      BY DEF Indication
    <3>3. ind # None
      BY <3>2, NoneFacts
    <3>3a. s = [b EXCEPT !.update = ind]
      BY <3>1
    <3> HIDE DEF ind
    <3>4. s \in ConnectionRecord
      BY <1>3, <3>2, <3>3a DEF ConnectionRecord
    <3>5. /\ s.event_counter = b.event_counter /\ s.procedures = b.procedures
          /\ s.pending_control = b.pending_control /\ s.queued_control = b.queued_control
          /\ s.transmitted = b.transmitted /\ s.fresh = b.fresh
          /\ s.request = b.request /\ s.host_waits = b.host_waits /\ s.reason = b.reason
          /\ s.map = b.map /\ s.update = ind
      BY <1>3, <3>3a DEF ConnectionRecord
    <3> QED BY <1>2, <2>2, <3>2, <3>3, <3>4, <3>5
  <2> QED BY <2>1, <2>2
<1>5. y # None
  BY NoneFacts
<1>6. SoundContext(y) /\ HoldsItsPdu(y, s) /\ HasIndication(y, s)
  BY <1>4 DEF SoundContext, HoldsItsPdu, HasIndication, HoldsPdu, Unsent, Waiting
<1>7. ASSUME NEW j \in Initiator, j # i
      PROVE  HoldsItsPdu(p[j], s) /\ HasIndication(p[j], s)
  <2>1. /\ HoldsItsPdu(p[j], c) /\ HasIndication(p[j], c) /\ SoundContext(p[j])
        /\ p[j] \in Context \cup {None}
    BY <1>7, ForSlots
  <2>2. HoldsItsPdu(p[j], s)
    BY <1>4, <2>1 DEF HoldsItsPdu
  <2>3. HasIndication(p[j], s)
    BY <1>4, <2>1, NoneFacts DEF HasIndication, SoundContext
  <2> QED BY <2>2, <2>3
<1>8. NotPassed(s)
  BY <1>4 DEF Sound, NotPassed
<1>9. RequestTracked(s)
  BY <1>1, <1>4 DEF Sound, RequestTracked, ActiveKind, Active
<1>10. Sound(s) /\ Inherited(c, s)
  BY <1>4, <1>6, <1>7, <1>8, <1>9, Replaced DEF q
<1> QED BY <1>4, <1>10 DEF Proceeds

\* A remote procedure with an instant starts with a fresh context, or the
\* link is dropped.
LEMMA StartRemoteInstantFacts ==
  ASSUME NEW c, Sound(c), NEW instant \in Counters,
         NEW kind \in {"ConnectionUpdate", "ChannelMapUpdate"},
         NEW b, b = StartRemoteInstantProcedure(c, kind, instant)
  PROVE  \/ \E reason \in Reasons : b = Disconnect(c, reason)
         \/ \E y \in Context :
              /\ Assigned(c, "remote", y, b)
              /\ y.kind = kind /\ y.phase = "AwaitingInstant"
              /\ y.instant = instant /\ y.deadline = None
              /\ \A j \in Initiator : j # "remote" =>
                   /\ TokensApart(y, c.procedures[j])
                   /\ ~(BearsInstant(y) /\ BearsInstant(c.procedures[j]))
<1> DEFINE p == c.procedures
           error == StartRemoteError(p, kind)
           token == AllocateControlToken(c)
           x == NewContext(kind, token, None, instant, None)
<1>0. c \in ConnectionRecord /\ p \in Manager
  BY ConnectionFields DEF Sound
<1>1. CASE error # None
  <2>1. b = Disconnect(c, IF error = Busy THEN \h23 ELSE error)
    BY <1>1 DEF StartRemoteInstantProcedure
  <2>2. error \in {None, Busy, \h23, \h2a}
    BY StartAllowed
  <2>3. (IF error = Busy THEN \h23 ELSE error) \in Reasons
    BY <1>1, <2>2, ReasonCodes
  <2> QED BY <2>1, <2>3
<1>2. CASE error = None
  <2>1. b = [c EXCEPT !.procedures = StartRemote(p, x)]
    BY <1>2 DEF StartRemoteInstantProcedure
  <2>2. token \in Tokens
    BY <1>0, FreshToken
  <2>3. PICK y \in Context :
           /\ StartRemote(p, x) = [p EXCEPT !["remote"] = y]
           /\ y.kind = kind /\ y.token = token /\ y.phase = "AwaitingInstant"
           /\ y.instant = instant /\ y.deadline = None
    <3> HIDE DEF p, token
    <3>1. x = NewContext(kind, token, None, instant, None)
      OBVIOUS
    <3> HIDE DEF x
    <3> QED BY <1>0, <2>2, <3>1, IndicationContext
  <2>4. Assigned(c, "remote", y, b)
    BY <2>1, <2>3 DEF Assigned
  <2>5. ~(BearsInstant(p.local) /\ kind \in InstantKinds)
    BY <1>2, StartAllowed
  <2>6. kind \in InstantKinds
    BY DEF InstantKinds
  <2>7. \A j \in Initiator : j # "remote" => p[j] = p.local
    BY <1>0, Slots DEF Initiator
  <2>8. p.local # None => p.local.token # token
    BY <1>0, FreshToken
  <2> HIDE DEF token, x
  <2>9. \A j \in Initiator : j # "remote" =>
          TokensApart(y, p[j]) /\ ~(BearsInstant(y) /\ BearsInstant(p[j]))
    BY <2>3, <2>5, <2>6, <2>7, <2>8 DEF TokensApart
  <2> QED BY <2>3, <2>4, <2>9
<1> QED BY <1>1, <1>2

\* LL_CONNECTION_UPDATE_IND keeps the invariant.
LEMMA OnUpdateIndSound ==
  ASSUME NEW c, Sound(c), c.reason = None, NEW pdu,
         pdu.valid => pdu.instant \in Counters /\ pdu.changed \in BOOLEAN
  PROVE  LET d == OnUpdateInd(c, pdu)
         IN  Sound(d) /\ Inherited(c, d) /\ Proceeds(c, d)
<1> DEFINE d == OnUpdateInd(c, pdu)
           p == c.procedures
           instant == pdu.instant
           ind == [instant |-> instant, changed |-> pdu.changed]
           owned == OwnUpdate(c, instant)
           s == [owned EXCEPT !.update = ind]
<1>0. c \in ConnectionRecord /\ p \in Manager
  BY ConnectionFields DEF Sound
<1>1. CASE \E reason \in Reasons : d = Disconnect(c, reason)
  <2>1. PICK reason \in Reasons : d = Disconnect(c, reason)
    BY <1>1
  <2> HIDE DEF d
  <2> QED BY <2>1, Dropped DEF d
<1>2. CASE \/ ~pdu.valid \/ IsPassed(c.event_counter, instant) \/ c.update # None
           \/ (c.request /\ ~pdu.accepts)
  <2>1. d \in {Disconnect(c, \h1e), Disconnect(c, \h28), Disconnect(c, \h20)}
    BY <1>2 DEF OnUpdateInd
  <2> QED BY <1>1, <2>1, ReasonCodes
<1>3. CASE /\ pdu.valid /\ ~IsPassed(c.event_counter, instant) /\ c.update = None
           /\ ~(c.request /\ ~pdu.accepts)
  <2>1. d = Then(owned, s)
    BY <1>3 DEF OnUpdateInd
  <2>2. instant \in Counters /\ pdu.changed \in BOOLEAN
    BY <1>3
  <2>3. ASSUME \E reason \in Reasons : owned = Disconnect(c, reason)
        PROVE  \E reason \in Reasons : d = Disconnect(c, reason)
    <3>1. PICK reason \in Reasons : owned = Disconnect(c, reason)
      BY <2>3
    <3> HIDE DEF owned
    <3>2. owned.reason # None
      BY <3>1, Dropped
    <3>3. d = owned
      BY <2>1, <3>2 DEF Then
    <3> QED BY <3>1, <3>3
  <2>4. ASSUME NEW i \in Initiator, NEW y \in Context, Assigned(c, i, y, owned) PROVE d = s
    <3>1. owned.reason = c.reason
      BY <1>0, <2>4 DEF Assigned, ConnectionRecord
    <3> HIDE DEF owned
    <3> QED BY <2>1, <3>1 DEF Then
  <2>5. CASE c.request \/ RemoteConnectionParametersActive(c)
    <3> DEFINE i == IF c.request THEN "local" ELSE "remote"
    <3>1. i \in Initiator
      BY DEF Initiator
    <3>2. CASE ~ExpectsResponse(p, i, "UPDATE_IND")
      <4>1. owned = Disconnect(c, \h3d)
        BY <2>5, <3>2 DEF OwnUpdate
      <4> QED BY <1>1, <2>3, <4>1, ReasonCodes
    <3>3. CASE ExpectsResponse(p, i, "UPDATE_IND")
      <4>1. owned = [c EXCEPT !.procedures = ExpectedResponseWithInstant(p, i, instant)]
        BY <2>5, <3>3 DEF OwnUpdate
      <4> DEFINE x == p[i]
      <4>2. i = "local" <=> c.request
        OBVIOUS
      <4>3. /\ x \in Context /\ x # None /\ SoundContext(x)
            /\ x.phase = "AwaitingResponse" /\ Active(x) /\ x.kind = "ConnectionParameters"
        <5>1. x # None /\ x.phase = "AwaitingResponse"
          BY <3>3 DEF ExpectsResponse
        <5>2. x \in Context /\ SoundContext(x)
          BY <3>1, <5>1, ForSlots
        <5>3. x = IF c.request THEN p.local ELSE p.remote
          BY <1>0, Slots
        <5>4. x.kind = "ConnectionParameters"
          BY <2>5, <5>3 DEF Sound, RequestTracked, ActiveKind, RemoteConnectionParametersActive
        <5> QED BY <5>1, <5>2, <5>4 DEF Active
      <4> HIDE DEF i
      <4>4. PICK y \in Context :
               /\ ExpectedResponseWithInstant(p, i, instant) = [p EXCEPT ![i] = y]
               /\ y.kind = x.kind /\ y.token = x.token /\ y.phase = "AwaitingInstant"
               /\ y.instant = instant /\ y.deadline = x.deadline
               /\ y.expected = x.expected
        <5>1. p[i] \in Context
          BY <4>3
        <5> HIDE DEF p, instant
        <5>2. \E y \in Context :
               /\ ExpectedResponseWithInstant(p, i, instant) = [p EXCEPT ![i] = y]
               /\ y.kind = p[i].kind /\ y.token = p[i].token /\ y.phase = "AwaitingInstant"
               /\ y.instant = instant /\ y.deadline = p[i].deadline
               /\ y.expected = p[i].expected
          BY <1>0, <2>2, <3>1, <3>3, <5>1, RespondedContext
        <5> QED BY <5>2
      <4>5. Assigned(c, i, y, owned)
        BY <4>1, <4>4 DEF Assigned
      <4> HIDE DEF owned
      <4>6. d = s
        BY <2>4, <3>1, <4>5
      <4>7. s = [owned EXCEPT !.update = [instant |-> y.instant, changed |-> pdu.changed]]
        BY <4>4
      <4> HIDE DEF d, s, instant
      <4>8. y.kind = "ConnectionParameters" /\ y.expected # None /\ y # None
        BY <4>3, <4>4, NoneFacts DEF SoundContext
      <4>9. ActiveKind(y, "ConnectionParameters") /\ Inherits(x, y)
        BY <4>3, <4>4, <4>8 DEF ActiveKind, Active, Inherits, Armed
      <4>10. \A j \in Initiator : j # i =>
               TokensApart(y, p[j]) /\ ~(BearsInstant(y) /\ BearsInstant(p[j]))
        <5>1. BearsInstant(x)
          BY <4>3 DEF BearsInstant, InstantKinds
        <5>2. \A j \in Initiator : j # i =>
                TokensApart(x, p[j]) /\ ~(BearsInstant(x) /\ BearsInstant(p[j]))
          BY <3>1, ForSlots
        <5> QED BY <4>3, <4>4, <5>1, <5>2 DEF TokensApart
      <4>11. Sound(s) /\ Inherited(c, s) /\ Proceeds(c, s)
        BY <1>3, <2>2, <3>1, <4>2, <4>4, <4>5, <4>7, <4>8, <4>9, <4>10, IndicationStored
           DEF instant
      <4> QED BY <4>6, <4>11 DEF d
    <3> QED BY <3>2, <3>3
  <2>6. CASE ~(c.request \/ RemoteConnectionParametersActive(c))
    <3> DEFINE kind == "ConnectionUpdate"
               i == "remote"
    <3>1. owned = StartRemoteInstantProcedure(c, kind, instant)
      BY <2>6 DEF OwnUpdate
    <3>2. kind \in {"ConnectionUpdate", "ChannelMapUpdate"} /\ i \in Initiator /\ i # "local"
          /\ kind # "ChannelMapUpdate" /\ kind # "ConnectionParameters"
      BY DEF Initiator
    <3> HIDE DEF owned, kind, instant
    <3>3. \/ \E reason \in Reasons : owned = Disconnect(c, reason)
          \/ \E y \in Context :
               /\ Assigned(c, i, y, owned)
               /\ y.kind = kind /\ y.phase = "AwaitingInstant"
               /\ y.instant = instant /\ y.deadline = None
               /\ \A j \in Initiator : j # i =>
                    TokensApart(y, p[j]) /\ ~(BearsInstant(y) /\ BearsInstant(p[j]))
      BY <2>2, <3>1, <3>2, StartRemoteInstantFacts
    <3>4. CASE \E reason \in Reasons : owned = Disconnect(c, reason)
      BY <1>1, <2>3, <3>4
    <3>5. CASE \E y \in Context :
               /\ Assigned(c, i, y, owned)
               /\ y.kind = kind /\ y.phase = "AwaitingInstant"
               /\ y.instant = instant /\ y.deadline = None
               /\ \A j \in Initiator : j # i =>
                    TokensApart(y, p[j]) /\ ~(BearsInstant(y) /\ BearsInstant(p[j]))
      <4>1. PICK y \in Context :
               /\ Assigned(c, i, y, owned)
               /\ y.kind = kind /\ y.phase = "AwaitingInstant"
               /\ y.instant = instant /\ y.deadline = None
               /\ \A j \in Initiator : j # i =>
                    TokensApart(y, p[j]) /\ ~(BearsInstant(y) /\ BearsInstant(p[j]))
        BY <3>5
      <4> HIDE DEF i
      <4>2. d = s
        BY <2>4, <3>2, <4>1
      <4>3. s = [owned EXCEPT !.update = [instant |-> y.instant, changed |-> pdu.changed]]
        BY <4>1
      <4> HIDE DEF d, s
      <4>4. Inherits(p[i], y)
        BY <4>1 DEF Inherits, Armed
      <4>5. ~IsPassed(c.event_counter, y.instant) /\ y.instant \in Counters
        BY <1>3, <2>2, <4>1
      <4>6. Sound(s) /\ Inherited(c, s) /\ Proceeds(c, s)
        BY <1>3, <2>2, <2>6, <3>2, <4>1, <4>3, <4>4, <4>5, IndicationStored
      <4> QED BY <4>2, <4>6 DEF d
    <3> QED BY <3>3, <3>4, <3>5
  <2> QED BY <2>5, <2>6
<1> QED BY <1>2, <1>3

\* LL_CHANNEL_MAP_IND keeps the invariant: the local request fails first.
LEMMA OnChannelMapIndSound ==
  ASSUME NEW c, Sound(c), c.reason = None, NEW pdu,
         pdu.valid => pdu.instant \in Counters
  PROVE  LET d == OnChannelMapInd(c, pdu)
         IN  Sound(d) /\ Inherited(c, d) /\ Proceeds(c, d)
<1> DEFINE d == OnChannelMapInd(c, pdu)
           f == FailLocalRequest(c)
           p == f.procedures
           instant == pdu.instant
           kind == "ChannelMapUpdate"
           i == "remote"
           owned == StartRemoteInstantProcedure(f, kind, instant)
           s == [owned EXCEPT !.map = instant]
<1>0. /\ Sound(f) /\ Inherited(c, f) /\ f.event_counter = c.event_counter
      /\ f.reason = c.reason /\ f.map = c.map
  BY FailLocalRequestSound
<1>1. CASE ~pdu.valid \/ IsPassed(c.event_counter, instant) \/ c.map # None
  <2>1. d \in {Disconnect(c, \h1e), Disconnect(c, \h28)}
    BY <1>1 DEF OnChannelMapInd
  <2>2. PICK reason \in Reasons : d = Disconnect(c, reason)
    BY <2>1, ReasonCodes
  <2> HIDE DEF d
  <2> QED BY <2>2, Dropped DEF d
<1>2. CASE pdu.valid /\ ~IsPassed(c.event_counter, instant) /\ c.map = None
  <2>1. d = Then(owned, s)
    BY <1>2 DEF OnChannelMapInd
  <2>2. instant \in Counters
    BY <1>2
  <2>3. /\ kind \in {"ConnectionUpdate", "ChannelMapUpdate"} /\ i \in Initiator /\ i # "local"
        /\ kind # "ConnectionParameters"
    BY DEF Initiator
  <2>4. f \in ConnectionRecord
    BY <1>0 DEF Sound
  <2>4a. owned = StartRemoteInstantProcedure(f, kind, instant)
    OBVIOUS
  <2> HIDE DEF f, owned, kind, instant, d
  <2>5. \/ \E reason \in Reasons : owned = Disconnect(f, reason)
        \/ \E y \in Context :
             /\ Assigned(f, i, y, owned)
             /\ y.kind = kind /\ y.phase = "AwaitingInstant"
             /\ y.instant = instant /\ y.deadline = None
             /\ \A j \in Initiator : j # i =>
                  TokensApart(y, p[j]) /\ ~(BearsInstant(y) /\ BearsInstant(p[j]))
    BY <1>0, <2>2, <2>3, <2>4a, StartRemoteInstantFacts
  <2>6. CASE \E reason \in Reasons : owned = Disconnect(f, reason)
    <3>1. PICK reason \in Reasons : owned = Disconnect(f, reason)
      BY <2>6
    <3>2. /\ Sound(owned) /\ owned.reason # None
          /\ Inherited(c, owned) /\ Proceeds(c, owned)
      BY <3>1, Dropped
    <3>3. d = owned
      BY <2>1, <3>2 DEF Then
    <3> QED BY <3>2, <3>3 DEF d
  <2>7. CASE \E y \in Context :
             /\ Assigned(f, i, y, owned)
             /\ y.kind = kind /\ y.phase = "AwaitingInstant"
             /\ y.instant = instant /\ y.deadline = None
             /\ \A j \in Initiator : j # i =>
                  TokensApart(y, p[j]) /\ ~(BearsInstant(y) /\ BearsInstant(p[j]))
    <3>1. PICK y \in Context :
             /\ Assigned(f, i, y, owned)
             /\ y.kind = kind /\ y.phase = "AwaitingInstant"
             /\ y.instant = instant /\ y.deadline = None
             /\ \A j \in Initiator : j # i =>
                  TokensApart(y, p[j]) /\ ~(BearsInstant(y) /\ BearsInstant(p[j]))
      BY <2>7
    <3>2. owned.reason = None
      BY <1>0, <2>4, <3>1 DEF Assigned, ConnectionRecord
    <3>3. d = s
      BY <2>1, <3>2 DEF Then
    <3> HIDE DEF i
    <3>4. s = [owned EXCEPT !.map = y.instant]
      BY <3>1
    <3> HIDE DEF s
    <3>5. Inherits(p[i], y)
      BY <3>1 DEF Inherits, Armed
    <3>6. ~IsPassed(f.event_counter, y.instant) /\ y.instant \in Counters
      BY <1>0, <1>2, <2>2, <3>1
    <3>7. f.map = None /\ y.kind = "ChannelMapUpdate"
      BY <1>0, <1>2, <3>1 DEF kind
    <3>8. Sound(s) /\ Inherited(f, s) /\ Proceeds(f, s)
      BY <1>0, <2>3, <3>1, <3>4, <3>5, <3>6, <3>7, IndicationStored
    <3>9. Inherited(c, s) /\ Proceeds(c, s)
      BY <1>0, <3>8 DEF Inherited, Inherits, Proceeds
    <3> QED BY <3>3, <3>8, <3>9 DEF d
  <2> QED BY <2>5, <2>6, <2>7
<1> QED BY <1>1, <1>2

\* What the invariant needs to know of the Central's PDUs.
SoundPdu(pdu) ==
  /\ pdu.op \in Opcodes
  /\ pdu.op = "UPDATE_IND" /\ pdu.valid => pdu.instant \in Counters /\ pdu.changed \in BOOLEAN
  /\ pdu.op = "CHANNEL_MAP_IND" /\ pdu.valid => pdu.instant \in Counters

\* handle_ll_control keeps the invariant and arms no timer.
LEMMA HandleLlControlSound ==
  ASSUME NEW c, Sound(c), c.reason = None, NEW pdu, SoundPdu(pdu)
  PROVE  LET d == HandleLlControl(c, pdu)
         IN  Sound(d) /\ Inherited(c, d) /\ Proceeds(c, d)
<1> DEFINE d == HandleLlControl(c, pdu)
           Kept == Sound(d) /\ Inherited(c, d) /\ Proceeds(c, d)
<1>0. pdu.op \in Opcodes
  BY DEF SoundPdu
<1>1. CASE pdu.op = "UPDATE_IND"
  <2>1. d = OnUpdateInd(c, pdu)
    BY <1>1 DEF HandleLlControl, PlainKind
  <2>2. pdu.valid => pdu.instant \in Counters /\ pdu.changed \in BOOLEAN
    BY <1>1 DEF SoundPdu
  <2> HIDE DEF d
  <2> QED BY <2>1, <2>2, OnUpdateIndSound DEF d
<1>2. CASE pdu.op = "CHANNEL_MAP_IND"
  <2>1. d = OnChannelMapInd(c, pdu)
    BY <1>2 DEF HandleLlControl, PlainKind
  <2>2. pdu.valid => pdu.instant \in Counters
    BY <1>2 DEF SoundPdu
  <2> HIDE DEF d
  <2> QED BY <2>1, <2>2, OnChannelMapIndSound DEF d
<1>3. CASE pdu.op = "TERMINATE_IND"
  <2>1. d = Disconnect(c, IF pdu.valid THEN \h13 ELSE \h1e)
    BY <1>3 DEF HandleLlControl, PlainKind
  <2>2. PICK reason \in Reasons : d = Disconnect(c, reason)
    BY <2>1, ReasonCodes
  <2> HIDE DEF d
  <2> QED BY <2>2, Dropped DEF d
<1>4. CASE pdu.op \in {"UNKNOWN_RSP", "REJECT_EXT_IND"}
  <2>1. d = OnRejected(c, pdu)
    BY <1>4 DEF HandleLlControl, PlainKind
  <2> HIDE DEF d
  <2> QED BY <2>1, OnRejectedSound DEF d
<1>5. CASE pdu.op \in DOMAIN PlainKind
  <2> DEFINE kind == PlainKind[pdu.op]
             op == PlainResponse[pdu.op]
             none == None
  <2>1. pdu.op \in {"FEATURE_REQ", "VERSION_IND", "PING_REQ"}
    BY <1>5 DEF PlainKind
  <2>2. kind \in {"FeatureExchange", "VersionExchange", "Ping"}
    BY <2>1 DEF PlainKind
  <2>3. d = QueueRemoteProcedureResponse(c, kind, op, none, none)
    BY <1>5, <2>1 DEF HandleLlControl
  <2> HIDE DEF d, kind, op
  <2>4. /\ kind \in Kinds \ {"ConnectionUpdate", "ChannelMapUpdate"}
        /\ kind # "ConnectionParameters"
    BY <2>2 DEF Kinds, InstantKinds
  <2>5. none \in Opcodes \cup {None} /\ none \in Ticks \cup {None}
    OBVIOUS
  <2> HIDE DEF none
  <2> QED BY <2>3, <2>4, <2>5, QueueRemoteProcedureResponseSound DEF d
<1>6. CASE pdu.op = "PARAM_REQ"
  <2>1. d = OnParamReq(c, pdu)
    BY <1>6 DEF HandleLlControl, PlainKind
  <2> HIDE DEF d
  <2> QED BY <2>1, OnParamReqSound DEF d
<1>7. CASE pdu.op \in {"PARAM_RSP", "FEATURE_RSP", "PING_RSP", "UNSUPPORTED"}
  <2>1. \E op : d = QueueControl(c, op)
    BY <1>7 DEF HandleLlControl, PlainKind
  <2>2. PICK op : d = QueueControl(c, op)
    BY <2>1
  <2> HIDE DEF d
  <2> QED BY <2>2, QueueControlSound DEF d
<1> QED BY <1>0, <1>1, <1>2, <1>3, <1>4, <1>5, <1>6, <1>7 DEF Opcodes, PlainKind

\* The Central's PDUs are sound.
LEMMA CentralPduFacts ==
  ASSUME NEW c, NEW pdu \in CentralPdus(c), c \in ConnectionRecord, pdu # NoPdu
  PROVE  SoundPdu(pdu)
<1> DEFINE e == c.event_counter
           instants == {(e + k) % EventModulus : k \in InstantDeltas}
           pdus == [op : {"UPDATE_IND"}, valid : {TRUE}, accepts : {TRUE, ~c.request},
                    changed : {TRUE, ~c.request}, instant : instants]
             \cup [op : {"CHANNEL_MAP_IND"}, valid : {TRUE}, instant : instants]
             \cup [op : {"UPDATE_IND", "CHANNEL_MAP_IND"}, valid : {FALSE}]
             \cup [op : {"TERMINATE_IND", "PARAM_REQ"}, valid : BOOLEAN]
             \cup [op : {"UNKNOWN_RSP", "REJECT_EXT_IND"},
                   rejected : {"PARAM_REQ", "PARAM_RSP"}]
             \cup [op : DOMAIN PlainKind \cup {"PARAM_RSP", "UNSUPPORTED"}]
<1>1. pdu \in pdus /\ pdu.op \in CentralOps
  BY DEF CentralPdus
<1>2. pdu.op \in Opcodes
  BY <1>1, ConnectionAssumption
<1>3. instants \subseteq Counters
  <2>1. ASSUME NEW k \in InstantDeltas PROVE (e + k) % EventModulus \in Counters
    <3>1. e \in Int /\ k \in Int /\ EventModulus \in Nat \ {0}
      BY <2>1, ConnectionFields, LlcpAssumption, ConnectionAssumption DEF Counters
    <3> DEFINE a == e + k
    <3>2. a \in Int
      BY <3>1
    <3> HIDE DEF a
    <3>3. a % EventModulus \in 0 .. EventModulus - 1
      BY <3>1, <3>2, Division
    <3> QED BY <3>3 DEF a, Counters
  <2> QED BY <2>1
<1> HIDE DEF instants
<1>4. ASSUME pdu.op \in {"UPDATE_IND", "CHANNEL_MAP_IND"}, pdu.valid
      PROVE  /\ pdu.instant \in Counters
             /\ pdu.op = "UPDATE_IND" => pdu.changed \in BOOLEAN
  <2>1. \/ pdu \in [op : {"UPDATE_IND"}, valid : {TRUE}, accepts : {TRUE, ~c.request},
                    changed : {TRUE, ~c.request}, instant : instants]
        \/ pdu \in [op : {"CHANNEL_MAP_IND"}, valid : {TRUE}, instant : instants]
        \/ pdu \in [op : {"UPDATE_IND", "CHANNEL_MAP_IND"}, valid : {FALSE}]
    BY <1>1, <1>4 DEF PlainKind
  <2>2. CASE pdu \in [op : {"UPDATE_IND"}, valid : {TRUE}, accepts : {TRUE, ~c.request},
                      changed : {TRUE, ~c.request}, instant : instants]
    BY <1>3, <2>2
  <2>3. CASE pdu \in [op : {"CHANNEL_MAP_IND"}, valid : {TRUE}, instant : instants]
    BY <1>3, <2>3
  <2>4. CASE pdu \in [op : {"UPDATE_IND", "CHANNEL_MAP_IND"}, valid : {FALSE}]
    BY <1>4, <2>4
  <2> QED BY <2>1, <2>2, <2>3, <2>4
<1> QED BY <1>2, <1>4 DEF SoundPdu

-----------------------------------------------------------------------------
(***************************************************************************)
(* One exchange, and one pass of the loop.                                 *)
(***************************************************************************)
\* A timer that runs before and after is the same timer.
Continues(c, d) ==
  \A i \in Initiator : Armed(c.procedures[i]) /\ Armed(d.procedures[i]) =>
    d.procedures[i].deadline = c.procedures[i].deadline

\* Stages after each other, as long as the link is up in between.
LEMMA ProceedsTwice ==
  ASSUME NEW b, NEW c, NEW d, Proceeds(b, c), c.reason = None, Proceeds(c, d)
  PROVE  Proceeds(b, d)
  BY DEF Proceeds

\* Timers over the stages up to the acknowledgement and those after it.
LEMMA SustainedThenInherited ==
  ASSUME NEW b, NEW c, NEW d, Sustained(b, c), Inherited(c, d)
  PROVE  Continues(b, d)
  BY DEF Sustained, Sustains, Inherited, Inherits, Continues, Armed

\* Timers over the stages up to the acknowledgement alone.
LEMMA SustainedContinues ==
  ASSUME NEW b, NEW c, Sustained(b, c)
  PROVE  Continues(b, c)
  BY DEF Sustained, Sustains, Continues, Armed

\* A valid packet only restarts the supervision timer.
LEMMA SupervisedSound ==
  ASSUME NEW c, Sound(c)
  PROVE  LET d == [c EXCEPT !.supervision = SupervisionTicks]
         IN  Sound(d) /\ Sustained(c, d) /\ Proceeds(c, d) /\ d.reason = c.reason
<1> DEFINE d == [c EXCEPT !.supervision = SupervisionTicks]
<1>0. c \in ConnectionRecord /\ SupervisionTicks \in 0 .. SupervisionTicks
  BY ConnectionAssumption DEF Sound
<1>1. /\ d.event_counter = c.event_counter /\ d.procedures = c.procedures
      /\ d.pending_control = c.pending_control /\ d.queued_control = c.queued_control
      /\ d.transmitted = c.transmitted /\ d.fresh = c.fresh
      /\ d.update = c.update /\ d.map = c.map
      /\ d.request = c.request /\ d.host_waits = c.host_waits /\ d.reason = c.reason
  BY <1>0 DEF ConnectionRecord
<1>2. d \in ConnectionRecord
  BY <1>0 DEF ConnectionRecord
<1> HIDE DEF d
<1>3. \A i \in Initiator : HoldsItsPdu(c.procedures[i], d) /\ HasIndication(c.procedures[i], d)
  BY <1>1, ForSlots DEF HoldsItsPdu, HasIndication
<1>4. NotPassed(d) /\ RequestTracked(d)
  BY <1>1 DEF Sound, NotPassed, RequestTracked
<1>5. Sound(d)
  BY <1>1, <1>2, <1>3, <1>4, ForSlots, FromSlots
<1> QED BY <1>1, <1>5, SameTimers DEF d, Proceeds

\* What an exchange leaves to the rest of the pass.
ExchangeSound(c, d) ==
  /\ Sound(d) /\ Continues(c, d) /\ Proceeds(c, d)
  /\ d.reason = None => NotDue(d)

\* connection_event keeps the invariant whatever is received, and ends with
\* no instant due.
LEMMA ExchangeKeeps ==
  ASSUME NEW c, Sound(c), c.reason = None, NEW rx, NEW transmitted \in BOOLEAN,
         NEW acked \in BOOLEAN, NEW pdu, pdu = NoPdu \/ SoundPdu(pdu)
  PROVE  ExchangeSound(c, Exchange(c, rx, transmitted, acked, pdu))
<1> DEFINE applied == ApplyInstants(c)
           staged == StageFrame(applied)
           sent == Then(staged, IF rx = "none" THEN staged
                                ELSE CompleteTransmit(staged, transmitted))
           terminate == SentTerminate(sent, transmitted)
           valid == [sent EXCEPT !.supervision = SupervisionTicks]
           answered == IF acked THEN Acknowledge(valid) ELSE valid
           handled == Then(answered, IF pdu = NoPdu THEN answered
                                     ELSE HandleLlControl(answered, pdu))
           finished == IF terminate THEN Disconnect(handled, \h16)
                       ELSE Then(handled, ApplyInstants(handled))
           d == Exchange(c, rx, transmitted, acked, pdu)
<1>1. d = IF rx # "good" THEN sent ELSE Then(sent, Then(answered, finished))
  BY DEF Exchange
<1>2. Sound(applied) /\ NotDue(applied) /\ Sustained(c, applied)
      /\ applied.event_counter = c.event_counter /\ applied.reason = c.reason
  BY ApplyInstantsSound
<1>3. Proceeds(c, applied) /\ applied.reason = None
  BY <1>2 DEF Proceeds
<1> HIDE DEF d, applied
<1>4. Sound(staged) /\ NotDue(staged) /\ Sustained(c, staged) /\ Proceeds(c, staged)
  <2>1. Sound(staged) /\ NotDue(staged) /\ Sustained(applied, staged) /\ Proceeds(applied, staged)
    BY <1>2, StageFrameSound
  <2> HIDE DEF staged
  <2> QED BY <1>2, <1>3, <2>1, SustainedTwice, ProceedsTwice
<1> HIDE DEF staged
<1>5. Sound(sent) /\ NotDue(sent) /\ Sustained(c, sent) /\ Proceeds(c, sent)
  <2>1. CASE staged.reason # None \/ rx = "none"
    <3>1. sent = staged
      BY <2>1 DEF Then
    <3> HIDE DEF sent
    <3> QED BY <1>4, <3>1
  <2>2. CASE staged.reason = None /\ rx # "none"
    <3>1. sent = CompleteTransmit(staged, transmitted)
      BY <2>2 DEF Then
    <3> HIDE DEF sent
    <3>2. Sound(sent) /\ NotDue(sent) /\ Sustained(staged, sent) /\ Proceeds(staged, sent)
      BY <1>4, <2>2, <3>1, CompleteTransmitSound
    <3> QED BY <1>4, <2>2, <3>2, SustainedTwice, ProceedsTwice
  <2> QED BY <2>1, <2>2
<1> HIDE DEF sent
<1>6. CASE rx # "good" \/ sent.reason # None
  <2>1. d = sent
    BY <1>1, <1>6 DEF Then
  <2>2. Continues(c, sent)
    BY <1>5, SustainedContinues
  <2> QED BY <1>5, <2>1, <2>2 DEF d, ExchangeSound
<1>7. CASE rx = "good" /\ sent.reason = None
  <2>1. Sound(valid) /\ Sustained(c, valid) /\ Proceeds(c, valid) /\ valid.reason = None
    <3>1. Sound(valid) /\ Sustained(sent, valid) /\ Proceeds(sent, valid)
          /\ valid.reason = sent.reason
      BY <1>5, SupervisedSound
    <3> HIDE DEF valid
    <3> QED BY <1>5, <1>7, <3>1, SustainedTwice, ProceedsTwice
  <2> HIDE DEF valid
  <2>2. Sound(answered) /\ Sustained(c, answered) /\ Proceeds(c, answered)
    <3>1. CASE acked
      <4>1. answered = Acknowledge(valid)
        BY <3>1
      <4> HIDE DEF answered
      <4>2. Sound(answered) /\ Sustained(valid, answered) /\ Proceeds(valid, answered)
        BY <2>1, <4>1, AcknowledgeSound
      <4> QED BY <2>1, <4>2, SustainedTwice, ProceedsTwice
    <3>2. CASE ~acked
      BY <2>1, <3>2
    <3> QED BY <3>1, <3>2
  <2> HIDE DEF answered
  <2>3. CASE answered.reason # None
    <3>1. d = answered
      BY <1>1, <1>7, <2>3 DEF Then
    <3>2. Continues(c, answered)
      BY <2>2, SustainedContinues
    <3> QED BY <2>2, <2>3, <3>1, <3>2 DEF d, ExchangeSound
  <2>4. CASE answered.reason = None
    <3>1. d = finished
      BY <1>1, <1>7, <2>4 DEF Then
    <3>2. Sound(handled) /\ Inherited(answered, handled) /\ Proceeds(answered, handled)
      <4>1. CASE pdu = NoPdu
        <5>1. handled = answered
          BY <4>1 DEF Then
        <5> HIDE DEF handled
        <5> QED BY <2>2, <5>1, SameTimers DEF Proceeds
      <4>2. CASE pdu # NoPdu
        <5>1. handled = HandleLlControl(answered, pdu)
          BY <2>4, <4>2 DEF Then
        <5> HIDE DEF handled
        <5> QED BY <2>2, <2>4, <4>2, <5>1, HandleLlControlSound
      <4> QED BY <4>1, <4>2
    <3> HIDE DEF handled
    <3>3. CASE terminate
      <4> DEFINE r == \h16
      <4>1. r \in Reasons /\ finished = Disconnect(handled, r)
        BY <3>3, ReasonCodes
      <4> HIDE DEF finished, r
      <4>2. /\ Sound(finished) /\ finished.reason # None
            /\ Sustained(c, finished) /\ Proceeds(c, finished)
        BY <4>1, Dropped
      <4> QED BY <3>1, <4>2, SustainedContinues DEF d, ExchangeSound
    <3>4. CASE ~terminate /\ handled.reason # None
      <4>1. finished = handled
        BY <3>4 DEF Then
      <4> HIDE DEF finished
      <4>2. Continues(c, handled) /\ Proceeds(c, handled)
        BY <2>2, <2>4, <3>2, SustainedThenInherited, ProceedsTwice
      <4> QED BY <3>1, <3>2, <3>4, <4>1, <4>2 DEF d, ExchangeSound
    <3>5. CASE ~terminate /\ handled.reason = None
      <4>1. finished = ApplyInstants(handled)
        BY <3>5 DEF Then
      <4> HIDE DEF finished
      <4>2. /\ Sound(finished) /\ NotDue(finished) /\ Inherited(handled, finished)
            /\ finished.event_counter = handled.event_counter
            /\ finished.reason = handled.reason
        BY <3>2, <4>1, ApplyInstantsSound
      <4>3. Inherited(answered, finished) /\ Proceeds(handled, finished)
        BY <3>2, <4>2 DEF Inherited, Inherits, Proceeds
      <4>4. Continues(c, finished) /\ Proceeds(c, finished)
        BY <2>2, <2>4, <3>2, <3>5, <4>3, SustainedThenInherited, ProceedsTwice
      <4> QED BY <3>1, <4>2, <4>4 DEF d, ExchangeSound
    <3> QED BY <3>3, <3>4, <3>5
  <2> QED BY <2>3, <2>4
<1> QED BY <1>6, <1>7

\* What a step may do to the deadlines, as DeadlineNeverRestarted says it.
Restrained(c, d) ==
  \A i \in Initiator :
    LET before == c.procedures[i]
        after == d.procedures[i]
    IN  (before # None /\ after # None /\ before.deadline # None
           /\ after.deadline # None) =>
          IF d.event_counter # c.event_counter
          THEN after.deadline < before.deadline
          ELSE after.deadline = before.deadline

\* The timers of the next pass are closer to their end.
Shortens(c, d) ==
  \A i \in Initiator : Armed(c.procedures[i]) /\ Armed(d.procedures[i]) =>
    Closer(c.procedures[i], d.procedures[i])

\* The pass ends: the counter advances and the deadlines are checked.
LEMMA PassEnds ==
  ASSUME NEW c, Unexpired(c.procedures), NEW s, Sound(s),
         s.reason # None => Vacant(s.procedures),
         s.reason = None => Shortens(c, s) /\ s.event_counter # c.event_counter
  PROVE  LET d == CheckDeadlines(s)
         IN  Sound(d) /\ Unexpired(d.procedures) /\ Restrained(c, d)
<1> DEFINE d == CheckDeadlines(s)
<1>1. Sound(d) /\ Unexpired(d.procedures) /\ (d = s \/ Vacant(d.procedures))
  BY CheckDeadlinesSound
<1> HIDE DEF d
<1>2. CASE Vacant(d.procedures)
  BY <1>1, <1>2 DEF Vacant, Restrained, d
<1>3. CASE d = s /\ s.reason = None
  <2>1. Restrained(c, s)
    BY <1>3 DEF Restrained, Shortens, Closer, Armed, Unexpired
  <2> QED BY <1>1, <1>3, <2>1 DEF d
<1> QED BY <1>1, <1>2, <1>3 DEF d

\* The counter after this one is another one, and so is the one after that.
LEMMA CounterMoves ==
  ASSUME NEW e \in Counters, NEW f, f = (e + 1) % EventModulus,
         NEW g, g = (f + 1) % EventModulus
  PROVE  f \in Counters /\ f # e /\ g # e
<1>1. f \in Counters /\ f = IF e = EventModulus - 1 THEN 0 ELSE e + 1
  BY NextCounter
<1>2. g = IF f = EventModulus - 1 THEN 0 ELSE f + 1
  BY <1>1, NextCounter
<1> QED BY <1>1, <1>2, LlcpAssumption DEF Counters

\* One pass of the loop through connection_event.
LEMMA EventKeeps ==
  ASSUME NEW c, Sound(c), c.reason = None, Unexpired(c.procedures),
         NEW rx, NEW transmitted \in BOOLEAN, NEW acked \in BOOLEAN,
         NEW pdu, pdu = NoPdu \/ SoundPdu(pdu),
         NEW after, after = Exchange(Elapse(c), rx, transmitted, acked, pdu)
  PROVE  LET d == CheckDeadlines(Then(after, ScheduleFollowingEvent(after)))
         IN  Sound(d) /\ Unexpired(d.procedures) /\ Restrained(c, d)
<1> DEFINE e == Elapse(c)
           s == Then(after, ScheduleFollowingEvent(after))
<1>1. /\ Sound(e) /\ e.event_counter = c.event_counter /\ e.reason = c.reason
      /\ \A i \in Initiator : Closer(c.procedures[i], e.procedures[i])
  BY ElapseSound
<1>2. after = Exchange(e, rx, transmitted, acked, pdu)
  OBVIOUS
<1> HIDE DEF e
<1>3. ExchangeSound(e, after)
  BY <1>1, <1>2, ExchangeKeeps
<1>4. /\ Sound(after) /\ Continues(e, after) /\ Proceeds(e, after)
      /\ after.reason = None => NotDue(after)
  BY <1>3 DEF ExchangeSound
<1>5. CASE after.reason # None
  <2>1. s = after /\ Vacant(after.procedures)
    BY <1>1, <1>4, <1>5 DEF Then, Proceeds
  <2> HIDE DEF s
  <2> QED BY <1>4, <1>5, <2>1, PassEnds DEF s
<1>6. CASE after.reason = None
  <2>1. s = ScheduleFollowingEvent(after)
    BY <1>6 DEF Then
  <2> HIDE DEF s
  <2>2. /\ Sound(s) /\ s.procedures = after.procedures /\ s.reason = after.reason
        /\ s.event_counter = (after.event_counter + 1) % EventModulus
    BY <1>4, <1>6, <2>1, ScheduleSound
  <2>3. after.event_counter = c.event_counter /\ c.event_counter \in Counters
    BY <1>1, <1>4, <1>6, ConnectionFields DEF Proceeds, Sound
  <2>4. s.event_counter # c.event_counter
    BY <2>2, <2>3, CounterMoves
  <2>5. Shortens(c, s)
    BY <1>1, <1>4, <2>2 DEF Shortens, Closer, Continues, Armed
  <2> QED BY <1>6, <2>2, <2>4, <2>5, PassEnds DEF s
<1> QED BY <1>5, <1>6

\* An event that is skipped applies its instants and advances the counter.
LEMMA SkipEventKeeps ==
  ASSUME NEW c, Sound(c)
  PROVE  LET d == SkipEvent(c)
         IN  /\ Sound(d) /\ d.reason = c.reason
             /\ d.event_counter = (c.event_counter + 1) % EventModulus
             /\ \A i \in Initiator : /\ Armed(d.procedures[i]) => Armed(c.procedures[i])
                                     /\ Armed(d.procedures[i]) =>
                                          Closer(c.procedures[i], d.procedures[i])
<1> DEFINE e == Elapse(c)
           a == ApplyInstants(e)
           d == ScheduleFollowingEvent(a)
<1>1. /\ Sound(e) /\ e.event_counter = c.event_counter /\ e.reason = c.reason
      /\ \A i \in Initiator : Closer(c.procedures[i], e.procedures[i])
  BY ElapseSound
<1>2. SkipEvent(c) = d
  BY DEF SkipEvent
<1> HIDE DEF e
<1>3. /\ Sound(a) /\ NotDue(a) /\ Inherited(e, a)
      /\ a.event_counter = e.event_counter /\ a.reason = e.reason
  BY <1>1, ApplyInstantsSound
<1> HIDE DEF a
<1>4. /\ Sound(d) /\ d.procedures = a.procedures /\ d.reason = a.reason
      /\ d.event_counter = (a.event_counter + 1) % EventModulus
  BY <1>3, ScheduleSound
<1> HIDE DEF d
<1>5. \A i \in Initiator : /\ Armed(d.procedures[i]) => Armed(c.procedures[i])
                           /\ Armed(d.procedures[i]) =>
                                Closer(c.procedures[i], d.procedures[i])
  BY <1>1, <1>3, <1>4 DEF Inherited, Inherits, Closer, Armed
<1> QED BY <1>1, <1>2, <1>3, <1>4, <1>5

\* The events that elapsed while the Host held the executor.
LEMMA SkipExpiredKeeps ==
  ASSUME NEW c, Sound(c), c.reason = None, Unexpired(c.procedures), NEW two \in BOOLEAN
  PROVE  LET d == CheckDeadlines(IF two THEN SkipEvent(SkipEvent(c)) ELSE SkipEvent(c))
         IN  Sound(d) /\ Unexpired(d.procedures) /\ Restrained(c, d)
<1> DEFINE f == SkipEvent(c)
           g == SkipEvent(f)
           s == IF two THEN g ELSE f
<1>1. /\ Sound(f) /\ f.reason = c.reason
      /\ f.event_counter = (c.event_counter + 1) % EventModulus
      /\ \A i \in Initiator : /\ Armed(f.procedures[i]) => Armed(c.procedures[i])
                              /\ Armed(f.procedures[i]) =>
                                   Closer(c.procedures[i], f.procedures[i])
  BY SkipEventKeeps
<1> HIDE DEF f
<1>2. /\ Sound(g) /\ g.reason = f.reason
      /\ g.event_counter = (f.event_counter + 1) % EventModulus
      /\ \A i \in Initiator : /\ Armed(g.procedures[i]) => Armed(f.procedures[i])
                              /\ Armed(g.procedures[i]) =>
                                   Closer(f.procedures[i], g.procedures[i])
  BY <1>1, SkipEventKeeps
<1> HIDE DEF g
<1>3. c.event_counter \in Counters
  BY ConnectionFields DEF Sound
<1>4. f.event_counter # c.event_counter /\ g.event_counter # c.event_counter
  BY <1>1, <1>2, <1>3, CounterMoves
<1>5. Shortens(c, f)
  BY <1>1 DEF Shortens
<1>6. Shortens(c, g)
  <2>1. SUFFICES ASSUME NEW i \in Initiator, Armed(c.procedures[i]), Armed(g.procedures[i])
                 PROVE Closer(c.procedures[i], g.procedures[i])
    BY DEF Shortens
  <2>2. /\ Closer(f.procedures[i], g.procedures[i]) /\ Closer(c.procedures[i], f.procedures[i])
        /\ Armed(f.procedures[i])
    BY <1>1, <1>2, <2>1
  <2>3. c.procedures[i].deadline # 0
    BY <2>1 DEF Unexpired, Armed
  <2> QED BY <2>1, <2>2, <2>3 DEF Closer
<1>7. Sound(s) /\ s.reason = None /\ Shortens(c, s) /\ s.event_counter # c.event_counter
  BY <1>1, <1>2, <1>4, <1>5, <1>6
<1> HIDE DEF s
<1>8. LET d == CheckDeadlines(s)
      IN  Sound(d) /\ Unexpired(d.procedures) /\ Restrained(c, d)
  BY <1>7, PassEnds
<1> QED BY <1>8 DEF s, f, g

-----------------------------------------------------------------------------
(***************************************************************************)
(* The Host's commands.                                                    *)
(***************************************************************************)
\* Two records that differ in the Host's request at most.
SameButRequest(d, s) ==
  /\ d \in ConnectionRecord => s \in ConnectionRecord
  /\ s.event_counter = d.event_counter /\ s.procedures = d.procedures
  /\ s.pending_control = d.pending_control /\ s.queued_control = d.queued_control
  /\ s.transmitted = d.transmitted /\ s.fresh = d.fresh
  /\ s.update = d.update /\ s.map = d.map /\ s.reason = d.reason

\* The Host's request is stored exactly when its procedure was queued.
RequestStored(c, kind, s) ==
  /\ c.request = FALSE /\ s.request \in BOOLEAN /\ s.host_waits = s.request
  /\ s.request <=> kind = "ConnectionParameters" /\ LocalProcedureQueued(c)

\* A parameter request starts only beside procedures without instant.
MayStartLocal(c, kind, expected) ==
  kind = "ConnectionParameters" =>
    expected # None /\ c.update = None /\ ~BearsInstant(c.procedures.remote)

\* A local procedure is refused, fails on a full queue, or starts with its
\* PDU queued; the Host's request is stored in the last case only.
LEMMA LocalProcedureSound ==
  ASSUME NEW c, Sound(c), NEW op,
         NEW kind \in {"Termination", "ConnectionParameters"},
         NEW expected \in Opcodes \cup {None}, NEW timeout \in Ticks \cup {None},
         MayStartLocal(c, kind, expected),
         NEW d, d = QueueLocalProcedure(c, kind, op, expected, timeout),
         NEW s, SameButRequest(d, s), RequestStored(c, kind, s)
  PROVE  Sound(s) /\ Inherited(c, s) /\ s.event_counter = c.event_counter
<1> DEFINE p == c.procedures
           i == "local"
           token == AllocateControlToken(c)
           instant == None
           x == NewContext(kind, token, expected, instant, timeout)
           q == [p EXCEPT ![i] = x]
           b == [c EXCEPT !.procedures = q]
<1>0. c \in ConnectionRecord /\ p \in Manager /\ i \in Initiator
  BY ConnectionFields DEF Sound, Initiator
<1>s. /\ d \in ConnectionRecord => s \in ConnectionRecord
      /\ s.event_counter = d.event_counter /\ s.procedures = d.procedures
      /\ s.pending_control = d.pending_control /\ s.queued_control = d.queued_control
      /\ s.transmitted = d.transmitted /\ s.fresh = d.fresh
      /\ s.update = d.update /\ s.map = d.map /\ s.reason = d.reason
  BY DEF SameButRequest
<1>r. /\ c.request = FALSE /\ s.request \in BOOLEAN /\ s.host_waits = s.request
      /\ s.request <=> kind = "ConnectionParameters" /\ LocalProcedureQueued(c)
  BY DEF RequestStored
<1>m. kind = "ConnectionParameters" =>
        expected # None /\ c.update = None /\ ~BearsInstant(p.remote)
  BY DEF MayStartLocal
<1>1. CASE StartLocalError(p) # None
  <2>1. d = c /\ s.request = FALSE
    BY <1>1, <1>r DEF QueueLocalProcedure, LocalProcedureQueued
  <2>2. \A j \in Initiator : HoldsItsPdu(p[j], s) /\ HasIndication(p[j], s)
    BY <1>s, <2>1, ForSlots DEF HoldsItsPdu, HasIndication
  <2>3. NotPassed(s) /\ RequestTracked(s)
    BY <1>s, <1>r, <2>1 DEF Sound, NotPassed, RequestTracked
  <2>4. Sound(s)
    BY <1>0, <1>s, <2>1, <2>2, <2>3, ForSlots, FromSlots
  <2> QED BY <1>s, <2>1, <2>4, SameTimers
<1>2. CASE StartLocalError(p) = None /\ ControlQueueFull(c)
  <2> DEFINE y == None
             r == [p EXCEPT ![i] = y]
             t == [c EXCEPT !.procedures = r]
  <2>1. y \in Context \cup {None} /\ Retired(p[i], y)
    BY DEF Retired
  <2>2. d = t /\ s.request = FALSE
    BY <1>0, <1>r, <1>2 DEF QueueLocalProcedure, LocalProcedureQueued, ConnectionRecord, Manager
  <2>3. r \in Manager /\ r.local = None
    BY <1>0, <2>1, AssignedSlot
  <2> HIDE DEF y, r
  <2>4. /\ t.event_counter = c.event_counter /\ t.procedures = r
        /\ t.pending_control = c.pending_control /\ t.queued_control = c.queued_control
        /\ t.transmitted = c.transmitted /\ t.fresh = c.fresh
        /\ t.update = c.update /\ t.map = c.map /\ t.reason = c.reason
    BY <1>0 DEF ConnectionRecord
  <2>5. t \in ConnectionRecord
    BY <1>0, <2>3 DEF ConnectionRecord
  <2> HIDE DEF t
  <2>6. RequestTracked(s)
    BY <1>s, <1>r, <2>2, <2>3, <2>4 DEF RequestTracked, ActiveKind, Active
  <2> HIDE DEF i
  <2>7. Sound(s) /\ Inherited(c, s)
    BY <1>0, <1>s, <2>1, <2>2, <2>4, <2>5, <2>6, RetiredSound DEF r
  <2> QED BY <1>s, <2>2, <2>4, <2>7
<1>3. CASE StartLocalError(p) = None /\ ~ControlQueueFull(c)
  <2>1. token \in Tokens
    BY <1>0, FreshToken
  <2>2. instant \in Counters \cup {None} /\ kind \in Kinds
    BY DEF Kinds, InstantKinds
  <2>3. StartLocal(p, x) = q
    BY DEF StartLocal
  <2>4. d = QueueControlWithToken(b, op, token)
    BY <1>3, <2>3 DEF QueueLocalProcedure
  <2> HIDE DEF token, instant
  <2>5. /\ x \in Context /\ x # None /\ x.kind = kind /\ x.token = token /\ x.phase = "Queued"
        /\ x.expected = expected /\ x.instant = None /\ x.deadline = None
    BY <2>1, <2>2, NewContextFacts DEF instant
  <2> HIDE DEF x
  <2>6. Assigned(c, i, x, b)
    BY DEF Assigned
  <2>7. q = [p EXCEPT ![i] = x] /\ q.local = x
    <3>1. q["local"] = x
      BY <1>0 DEF Manager
    <3>2. q \in Manager
      BY <1>0, <2>5 DEF Manager
    <3> QED BY <3>1, <3>2, Slots
  <2> HIDE DEF q, b
  <2>8. \A j \in Initiator : j # i => ~(BearsInstant(x) /\ BearsInstant(p[j]))
    <3>1. \A j \in Initiator : j # i => p[j] = p.remote
      BY <1>0, Slots DEF Initiator
    <3>2. kind \in InstantKinds => kind = "ConnectionParameters"
      BY DEF InstantKinds
    <3> QED BY <1>m, <2>5, <3>1, <3>2 DEF BearsInstant
  <2>9. s.request = (kind = "ConnectionParameters")
    BY <1>3, <1>r DEF LocalProcedureQueued
  <2> HIDE DEF i
  <2>10. /\ x.phase \in Unsent /\ x.token = AllocateControlToken(c)
         /\ x.kind \notin {"ConnectionUpdate", "ChannelMapUpdate"}
    BY <2>5 DEF Unsent, token
  <2>10a. d = QueueControlWithToken(b, op, x.token)
    BY <2>4, <2>5
  <2>10b. x.kind = "ConnectionParameters" => x.expected # None
    BY <1>m, <2>5
  <2>11. /\ d \in ConnectionRecord /\ d.procedures = [c.procedures EXCEPT ![i] = x]
         /\ SoundContext(x) /\ HoldsItsPdu(x, d) /\ HasIndication(x, d)
         /\ \A j \in Initiator : j # i =>
              /\ HoldsItsPdu(c.procedures[j], d) /\ HasIndication(c.procedures[j], d)
              /\ TokensApart(x, c.procedures[j])
              /\ ~(BearsInstant(x) /\ BearsInstant(c.procedures[j]))
         /\ NotPassed(d) /\ Inherits(c.procedures[i], x)
         /\ d.update = c.update /\ d.map = c.map
    BY <1>0, <1>3, <2>5, <2>6, <2>8, <2>10, <2>10a, <2>10b, Enqueued
  <2>12. d.event_counter = c.event_counter
    <3>1. /\ b \in ConnectionRecord /\ b.event_counter = c.event_counter
      <4>1. q \in Manager
        BY <1>0, <2>5, <2>7, AssignedSlot
      <4> QED BY <1>0, <4>1 DEF b, ConnectionRecord
    <3>2. d.event_counter = b.event_counter
      BY <2>1, <2>4, <3>1, QueueFacts
    <3> QED BY <3>1, <3>2
  <2>13. HoldsItsPdu(x, s) /\ HasIndication(x, s) /\ NotPassed(s)
    BY <1>s, <2>11, <2>12 DEF HoldsItsPdu, HasIndication, NotPassed
  <2>14. \A j \in Initiator : j # i => HoldsItsPdu(p[j], s) /\ HasIndication(p[j], s)
    BY <1>s, <2>11 DEF HoldsItsPdu, HasIndication
  <2>15. RequestTracked(s)
    <3>1. s.procedures.local = x /\ s.update = c.update
      BY <1>s, <2>7, <2>11
    <3>2. ActiveKind(x, "ConnectionParameters") <=> kind = "ConnectionParameters"
      BY <2>5 DEF ActiveKind, Active
    <3>3. CASE kind = "ConnectionParameters"
      BY <1>m, <1>r, <2>9, <3>1, <3>2, <3>3 DEF RequestTracked
    <3>4. CASE kind # "ConnectionParameters"
      BY <1>r, <2>9, <3>1, <3>2, <3>4 DEF RequestTracked
    <3> QED BY <3>3, <3>4
  <2>16. Sound(s) /\ Inherited(c, s)
    BY <1>0, <1>s, <2>5, <2>11, <2>13, <2>14, <2>15, Replaced
  <2> QED BY <1>s, <2>12, <2>16
<1> QED BY <1>1, <1>2, <1>3

\* A command that arms no timer keeps what holds between two passes.
LEMMA HostStepKeeps ==
  ASSUME NEW c, NEW s, Unexpired(c.procedures), Inherited(c, s),
         s.event_counter = c.event_counter
  PROVE  Unexpired(s.procedures) /\ Restrained(c, s)
<1>1. None # 0
  BY LlcpAssumption
<1>2. Unexpired(s.procedures)
  BY <1>1 DEF Unexpired, Inherited, Inherits, Armed
<1>3. Restrained(c, s)
  BY DEF Restrained, Inherited, Inherits, Armed
<1> QED BY <1>2, <1>3

\* A local procedure that starts or fails to leaves the Host's request alone.
LEMMA LocalProcedureType ==
  ASSUME NEW c \in ConnectionRecord, NEW op, NEW kind \in Kinds,
         NEW expected \in Opcodes \cup {None}, NEW timeout \in Ticks \cup {None},
         NEW d, d = QueueLocalProcedure(c, kind, op, expected, timeout)
  PROVE  d \in ConnectionRecord /\ d.request = c.request /\ d.host_waits = c.host_waits
<1> DEFINE none == None
           token == AllocateControlToken(c)
           x == NewContext(kind, token, expected, none, timeout)
           b == [c EXCEPT !.procedures = StartLocal(c.procedures, x)]
           t == [c EXCEPT !.procedures.local = None]
<1>0. c.procedures \in Manager /\ none \in Counters \cup {None} /\ token \in Tokens
  BY ConnectionFields, FreshToken
<1>1. d = c \/ d = t \/ d = QueueControlWithToken(b, op, token)
  BY DEF QueueLocalProcedure
<1>2. t \in ConnectionRecord
  <2>1. [c.procedures EXCEPT !.local = None] \in Manager
    BY <1>0 DEF Manager
  <2> QED BY <2>1 DEF ConnectionRecord
<1>3. t.request = c.request /\ t.host_waits = c.host_waits
  BY DEF ConnectionRecord
<1>4. b.request = c.request /\ b.host_waits = c.host_waits
  BY DEF ConnectionRecord
<1>5. b \in ConnectionRecord
  <2> HIDE DEF token, none
  <2>1. x \in Context
    BY <1>0, NewContextFacts
  <2> HIDE DEF x
  <2>2. StartLocal(c.procedures, x) \in Manager
    BY <1>0, <2>1 DEF StartLocal, Manager
  <2> QED BY <2>2 DEF ConnectionRecord
<1> HIDE DEF b, t, token
<1>6. CASE d = QueueControlWithToken(b, op, token)
  <2>1. d \in ConnectionRecord /\ d.request = b.request /\ d.host_waits = b.host_waits
    BY <1>0, <1>5, <1>6, QueueFacts
  <2> QED BY <1>4, <2>1
<1> QED BY <1>1, <1>2, <1>3, <1>6

\* LL_TERMINATE_IND is queued or the command is refused.
LEMMA TerminationSound ==
  ASSUME NEW c, Sound(c), c.request = FALSE, NEW op,
         NEW d, d = QueueLocalProcedure(c, "Termination", op, None, None)
  PROVE  Sound(d) /\ Inherited(c, d) /\ d.event_counter = c.event_counter
<1> DEFINE kind == "Termination"
           none == None
<1>1. /\ none \in Opcodes \cup {None} /\ none \in Ticks \cup {None}
      /\ kind \in {"Termination", "ConnectionParameters"} /\ kind # "ConnectionParameters"
      /\ kind \in Kinds /\ c \in ConnectionRecord
      /\ d = QueueLocalProcedure(c, kind, op, none, none)
  BY DEF Kinds, Sound
<1> HIDE DEF kind, none
<1>2. d.request = c.request /\ d.host_waits = c.host_waits
  BY <1>1, LocalProcedureType
<1>3. c.host_waits = FALSE
  BY DEF Sound, RequestTracked
<1>4. RequestStored(c, kind, d)
  BY <1>1, <1>2, <1>3 DEF RequestStored
<1>5. SameButRequest(d, d)
  BY DEF SameButRequest
<1>6. MayStartLocal(c, kind, none)
  BY <1>1 DEF MayStartLocal
<1> QED BY <1>1, <1>4, <1>5, <1>6, LocalProcedureSound

\* HCI_Disconnect keeps the invariant.
LEMMA HciDisconnectKeeps ==
  ASSUME IInv, HciDisconnect
  PROVE  Sound(conn') /\ Unexpired(conn'.procedures) /\ Restrained(conn, conn')
<1> DEFINE op == "TERMINATE_IND"
           d == QueueLocalProcedure(conn, "Termination", op, None, None)
<1>0. Sound(conn) /\ Unexpired(conn.procedures) /\ conn' = d
  BY DEF IInv, HciDisconnect
<1>1. CASE conn.request
  <2>1. Active(conn.procedures.local)
    BY <1>0, <1>1 DEF Sound, RequestTracked, ActiveKind
  <2>2. StartLocalError(conn.procedures) # None
    BY <2>1, LlcpAssumption DEF StartLocalError, Busy
  <2>3. d = conn
    BY <2>2 DEF QueueLocalProcedure
  <2>4. Inherited(conn, conn)
    BY SameTimers
  <2> QED BY <1>0, <2>3, <2>4, HostStepKeeps
<1>2. CASE ~conn.request
  <2>1. conn.request = FALSE
    BY <1>0, <1>2, ConnectionFields DEF Sound
  <2>2. d = QueueLocalProcedure(conn, "Termination", op, None, None)
    OBVIOUS
  <2> HIDE DEF d, op
  <2>3. Sound(d) /\ Inherited(conn, d) /\ d.event_counter = conn.event_counter
    BY <1>0, <2>1, <2>2, TerminationSound
  <2> QED BY <1>0, <2>3, HostStepKeeps
<1> QED BY <1>1, <1>2

\* HCI_LE_Connection_Update keeps the invariant.
LEMMA HciConnectionUpdateKeeps ==
  ASSUME IInv, HciConnectionUpdate
  PROVE  Sound(conn') /\ Unexpired(conn'.procedures) /\ Restrained(conn, conn')
<1> DEFINE kind == "ConnectionParameters"
           op == "PARAM_REQ"
           expected == "UPDATE_IND"
           timeout == ResponseTimeout
           c == conn
           d == QueueLocalProcedure(c, kind, op, expected, timeout)
           queued == LocalProcedureQueued(c)
           waits == d.host_waits \/ queued
           s == [d EXCEPT !.request = queued, !.host_waits = waits]
<1>0. Sound(c) /\ Unexpired(c.procedures) /\ conn' = s /\ ~UpdateBusy(c)
  BY DEF IInv, HciConnectionUpdate
<1>1. /\ kind \in Kinds /\ kind \in {"Termination", "ConnectionParameters"}
      /\ kind = "ConnectionParameters" /\ expected \in Opcodes \cup {None}
      /\ expected # None /\ timeout \in Ticks \cup {None} /\ queued \in BOOLEAN
  BY LlcpAssumption DEF Kinds, InstantKinds, Opcodes, Ticks, LocalProcedureQueued
<1>2. /\ c.request = FALSE /\ c.host_waits = FALSE /\ c.update = None /\ c.map = None
      /\ ~ActiveKind(c.procedures.remote, "ConnectionParameters")
      /\ c \in ConnectionRecord
  BY <1>0, ConnectionFields DEF Sound, RequestTracked, UpdateBusy,
     RemoteConnectionParametersActive
<1>3. ~BearsInstant(c.procedures.remote)
  <2> DEFINE x == c.procedures.remote
  <2>1. /\ SoundContext(x) /\ HasIndication(x, c) /\ None \notin Counters
    BY <1>0, NoneFacts DEF Sound, SoundProcedures
  <2>2. SUFFICES ASSUME Active(x), x.kind \in InstantKinds PROVE FALSE
    BY DEF BearsInstant
  <2>3. x # None /\ x.kind \in {"ConnectionUpdate", "ChannelMapUpdate"}
    BY <1>2, <2>2 DEF ActiveKind, Active, InstantKinds
  <2>4. x.phase = "AwaitingInstant" /\ x.instant \in Counters
    BY <2>1, <2>3 DEF SoundContext
  <2> QED BY <1>2, <2>1, <2>3, <2>4 DEF HasIndication
<1> HIDE DEF kind, op, expected, timeout, c
<1>4. MayStartLocal(c, kind, expected)
  BY <1>1, <1>2, <1>3 DEF MayStartLocal
<1>5. d \in ConnectionRecord /\ d.request = c.request /\ d.host_waits = c.host_waits
  BY <1>1, <1>2, LocalProcedureType
<1>6. d = QueueLocalProcedure(c, kind, op, expected, timeout)
  OBVIOUS
<1> HIDE DEF d
<1>7a. waits = queued
  BY <1>1, <1>2, <1>5
<1> HIDE DEF waits, queued
<1>7. s.request = queued /\ s.host_waits = queued
  BY <1>5, <1>7a DEF ConnectionRecord
<1>8. RequestStored(c, kind, s)
  BY <1>1, <1>2, <1>7 DEF RequestStored, queued
<1>9. SameButRequest(d, s)
  <2>1. s \in ConnectionRecord
    BY <1>1, <1>5, <1>7a DEF ConnectionRecord
  <2>2. /\ s.event_counter = d.event_counter /\ s.procedures = d.procedures
        /\ s.pending_control = d.pending_control /\ s.queued_control = d.queued_control
        /\ s.transmitted = d.transmitted /\ s.fresh = d.fresh
        /\ s.update = d.update /\ s.map = d.map /\ s.reason = d.reason
    BY <1>5 DEF ConnectionRecord
  <2> QED BY <2>1, <2>2 DEF SameButRequest
<1> HIDE DEF s
<1>10. Sound(s) /\ Inherited(c, s) /\ s.event_counter = c.event_counter
  BY <1>0, <1>1, <1>4, <1>6, <1>8, <1>9, LocalProcedureSound
<1>11. Unexpired(s.procedures) /\ Restrained(c, s)
  BY <1>0, <1>10, HostStepKeeps
<1> QED BY <1>0, <1>10, <1>11 DEF c

\* HCI_Reset drops the connection.
LEMMA HciResetKeeps ==
  ASSUME IInv, HciReset
  PROVE  Sound(conn') /\ Unexpired(conn'.procedures) /\ Restrained(conn, conn')
<1> DEFINE reason == \h16
           d == Disconnect(conn, reason)
<1>1. conn' = d /\ reason \in Reasons
  BY DEF HciReset, Reasons
<1> HIDE DEF reason
<1>2. /\ Sound(d) /\ Unexpired(d.procedures)
      /\ d.procedures.local = None /\ d.procedures.remote = None
  BY <1>1, DisconnectSound
<1> HIDE DEF d
<1>3. d.procedures \in Manager
  BY <1>2, ConnectionFields DEF Sound
<1>4. Restrained(conn, d)
  BY <1>2, <1>3, Slots DEF Restrained
<1> QED BY <1>1, <1>2, <1>4

\* A new connection starts without procedure.
LEMMA ReconnectKeeps ==
  ASSUME IInv, Reconnect
  PROVE  Sound(conn') /\ Unexpired(conn'.procedures) /\ Restrained(conn, conn')
<1> DEFINE d == NewConnection
<1>1. conn' = d /\ Sound(d) /\ Unexpired(d.procedures)
  BY NewConnectionSound DEF Reconnect
<1>2. d.procedures = NewManager
  BY DEF NewConnection
<1> HIDE DEF d
<1>3. /\ d.procedures \in Manager
      /\ d.procedures.local = None /\ d.procedures.remote = None
  BY <1>2, NewConnectionType
<1>4. Restrained(conn, d)
  BY <1>3, Slots DEF Restrained
<1> QED BY <1>1, <1>4

-----------------------------------------------------------------------------
(***************************************************************************)
(* The steps together.                                                     *)
(***************************************************************************)
\* One pass of the loop through connection_event.
LEMMA EventEndsKeeps ==
  ASSUME IInv, NEW rx, NEW transmitted \in BOOLEAN, NEW Hears \in SUBSET BOOLEAN,
         NEW pdu, pdu = NoPdu \/ SoundPdu(pdu), EventEnds(rx, transmitted, Hears, pdu)
  PROVE  /\ Sound(conn') /\ Unexpired(conn'.procedures) /\ Restrained(conn, conn')
         /\ central' \in CentralView /\ last' \in {"heard", "reset", "other"}
<1> DEFINE c == conn
           before == Elapse(c)
           frame == StageFrame(ApplyInstants(before))
           acked == rx = "good" /\ ~frame.fresh /\ central.heard
           after == Exchange(before, rx, transmitted, acked, pdu)
<1>0. Sound(c) /\ Unexpired(c.procedures) /\ c.reason = None /\ central \in CentralView
  BY DEF IInv, TypeOK, EventEnds, Up
<1>1. PICK hears \in BOOLEAN :
      /\ conn' = CheckDeadlines(Then(after, ScheduleFollowingEvent(after)))
      /\ central' = IF frame.reason = None THEN CentralAfter(frame, hears, acked) ELSE central
      /\ last' \in {"heard", "reset", "other"}
  BY DEF EventEnds
<1>2. acked \in BOOLEAN
  OBVIOUS
<1> HIDE DEF c, frame, acked
<1>3. after = Exchange(Elapse(c), rx, transmitted, acked, pdu)
  OBVIOUS
<1> HIDE DEF after
<1>4. LET d == CheckDeadlines(Then(after, ScheduleFollowingEvent(after)))
      IN  Sound(d) /\ Unexpired(d.procedures) /\ Restrained(c, d)
  BY <1>0, <1>2, <1>3, EventKeeps
<1>5. CentralAfter(frame, hears, acked) \in CentralView
  <2> DEFINE heard == ~acked /\ (central.heard \/ hears)
             leaves == /\ hears /\ ~central.heard
                       /\ frame.transmitted = "Control"
                       /\ frame.pending_control.terminate
             state == IF central.state # "up" THEN "gone"
                      ELSE IF leaves THEN "leaving" ELSE "up"
  <2>1. heard \in BOOLEAN
    OBVIOUS
  <2>2. state \in {"up", "leaving", "gone"}
    OBVIOUS
  <2>3. CentralAfter(frame, hears, acked) = [heard |-> heard, state |-> state]
    BY DEF CentralAfter
  <2> HIDE DEF heard, state
  <2> QED BY <2>1, <2>2, <2>3 DEF CentralView
<1>6. central' \in CentralView
  BY <1>0, <1>1, <1>5
<1> QED BY <1>1, <1>4, <1>6 DEF c

\* Every step keeps the invariant and moves no deadline away.
LEMMA NextKeeps ==
  ASSUME IInv, Next
  PROVE  IInv' /\ Restrained(conn, conn')
<1> DEFINE Kept == /\ Sound(conn') /\ Unexpired(conn'.procedures) /\ Restrained(conn, conn')
                   /\ central' \in CentralView /\ last' \in {"heard", "reset", "other"}
<1>0. /\ Sound(conn) /\ Unexpired(conn.procedures) /\ central \in CentralView
      /\ conn \in ConnectionRecord
  BY DEF IInv, TypeOK
<1>1. ASSUME MissedEvent PROVE Kept
  <2> DEFINE rx == "none"
             no == FALSE
             unheard == {FALSE}
             pdu == NoPdu
  <2>1. /\ no \in BOOLEAN /\ unheard \in SUBSET BOOLEAN /\ pdu = NoPdu
        /\ EventEnds(rx, no, unheard, pdu)
    BY <1>1 DEF MissedEvent
  <2> HIDE DEF rx, no, unheard, pdu
  <2> QED BY <2>1, EventEndsKeeps
<1>2. ASSUME NEW transmitted \in BOOLEAN, RefusedEvent(transmitted)
      PROVE  Kept
  <2> DEFINE rx == "bad"
             any == BOOLEAN
             pdu == NoPdu
  <2>1. any \in SUBSET BOOLEAN /\ pdu = NoPdu /\ EventEnds(rx, transmitted, any, pdu)
    BY <1>2 DEF RefusedEvent
  <2> HIDE DEF rx, any, pdu
  <2> QED BY <2>1, EventEndsKeeps
<1>3. ASSUME NEW transmitted \in BOOLEAN, NEW pdu \in CentralPdus(conn),
             ReceivedEvent(transmitted, pdu)
      PROVE  Kept
  <2> DEFINE rx == "good"
             any == BOOLEAN
  <2>1. any \in SUBSET BOOLEAN /\ EventEnds(rx, transmitted, any, pdu)
    BY <1>3 DEF ReceivedEvent
  <2>2. pdu = NoPdu \/ SoundPdu(pdu)
    BY <1>0, CentralPduFacts
  <2> HIDE DEF rx, any
  <2> QED BY <2>1, <2>2, EventEndsKeeps
<1>4. ASSUME NEW two \in BOOLEAN, SkipExpiredEvents(two)
      PROVE  Kept
  <2>1. /\ conn.reason = None /\ last' = "other"
        /\ conn' = CheckDeadlines(IF two THEN SkipEvent(SkipEvent(conn)) ELSE SkipEvent(conn))
        /\ central' = [central EXCEPT !.state = IF @ = "leaving" THEN "gone" ELSE @]
    BY <1>4 DEF SkipExpiredEvents, Up
  <2>2. Sound(conn') /\ Unexpired(conn'.procedures) /\ Restrained(conn, conn')
    BY <1>0, <2>1, SkipExpiredKeeps
  <2>3. central' \in CentralView
    BY <1>0, <2>1 DEF CentralView
  <2> QED BY <2>1, <2>2, <2>3
<1>5. ASSUME HciDisconnect PROVE Kept
  BY <1>0, <1>5, HciDisconnectKeeps DEF HciDisconnect
<1>6. ASSUME HciConnectionUpdate PROVE Kept
  BY <1>0, <1>6, HciConnectionUpdateKeeps DEF HciConnectionUpdate
<1>7. ASSUME HciReset PROVE Kept
  BY <1>0, <1>7, HciResetKeeps DEF HciReset
<1>8. ASSUME Reconnect PROVE Kept
  <2>1. central' = [heard |-> FALSE, state |-> "up"] /\ last' = "other"
    BY <1>8 DEF Reconnect
  <2>2. central' \in CentralView
    BY <2>1 DEF CentralView
  <2> QED BY <1>8, <2>1, <2>2, ReconnectKeeps
<1>9. Kept
  BY <1>1, <1>2, <1>3, <1>4, <1>5, <1>6, <1>7, <1>8 DEF Next
<1>10. conn' \in ConnectionRecord
  BY <1>9 DEF Sound
<1>11. Sound(conn)'
  BY <1>9 DEF Sound, SoundProcedures, SoundContext, TokensApart, BearsInstant, Active,
     HoldsItsPdu, CarriesToken, HasIndication, NotPassed, RequestTracked
<1>12. Unexpired(conn.procedures)'
  BY <1>9 DEF Unexpired
<1> QED BY <1>9, <1>10, <1>11, <1>12 DEF IInv, TypeOK

\* The first connection satisfies the invariant.
LEMMA InitKeeps == Init => IInv
<1> SUFFICES ASSUME Init PROVE IInv
  OBVIOUS
<1>1. conn = NewConnection /\ central = [heard |-> FALSE, state |-> "up"] /\ last = "other"
  BY DEF Init
<1>2. central \in CentralView
  BY <1>1 DEF CentralView
<1>3. Sound(conn) /\ Unexpired(conn.procedures) /\ conn \in ConnectionRecord
  BY <1>1, NewConnectionSound, NewConnectionType
<1> QED BY <1>1, <1>2, <1>3 DEF IInv, TypeOK

-----------------------------------------------------------------------------
(***************************************************************************)
(* The theorems.                                                           *)
(***************************************************************************)
\* The contexts, the control queue, the stored indications and the Host's
\* request of run_connection agree at every turn of its loop.
THEOREM ConnectionInvariant == Spec => []IInv
<1>1. Init => IInv
  BY InitKeeps
<1>2. IInv /\ [Next]_vars => IInv'
  <2>1. SUFFICES ASSUME IInv, [Next]_vars PROVE IInv'
    OBVIOUS
  <2>2. CASE Next
    BY <2>1, <2>2, NextKeeps
  <2>3. CASE UNCHANGED vars
    BY <2>1, <2>3 DEF vars, IInv, TypeOK, Sound, SoundProcedures, SoundContext,
       TokensApart, BearsInstant, Active, HoldsItsPdu, CarriesToken, HasIndication,
       NotPassed, RequestTracked, Unexpired
  <2> QED BY <2>1, <2>2, <2>3
<1> QED BY <1>1, <1>2, PTL DEF Spec

\* Every field of the connection keeps its type: the counter its width, the
\* control slots one PDU, the timers their range.
THEOREM ConnectionTypes == Spec => []TypeOK
<1>1. IInv => TypeOK
  BY DEF IInv
<1> QED BY <1>1, ConnectionInvariant, PTL

\* No procedure loses the PDU it waits for, whatever the acknowledgements,
\* failures and full queues between queue_control and the NESN.
THEOREM ConnectionOrphans == Spec => []NoOrphanProcedure
<1>1. IInv => NoOrphanProcedure
  <2>1. SUFFICES ASSUME IInv, NEW i \in Initiator
        PROVE  LET ctx == conn.procedures[i]
               IN  /\ ctx # None /\ ctx.phase \in HoldsPdu => ctx.token \in QueuedTokens
                   /\ ctx # None /\ ctx.phase = "AwaitingTxAck" =>
                        /\ conn.transmitted = "Control" /\ ~conn.fresh
                        /\ conn.pending_control.token = ctx.token
    BY DEF NoOrphanProcedure
  <2>2. HoldsItsPdu(conn.procedures[i], conn)
    BY <2>1, ForSlots DEF IInv
  <2> QED BY <2>2 DEF HoldsItsPdu, CarriesToken, QueuedTokens
<1> QED BY <1>1, ConnectionInvariant, PTL

\* No stored instant is ever passed over, and every procedure that waits for
\* one has its indication.
THEOREM ConnectionInstants == Spec => []InstantNeverMissed
<1>1. IInv => InstantNeverMissed
  <2>1. SUFFICES ASSUME IInv PROVE InstantNeverMissed
    OBVIOUS
  <2>2. NotPassed(conn) /\ Sound(conn)
    BY <2>1 DEF IInv, Sound
  <2>3. \A i \in Initiator : HasIndication(conn.procedures[i], conn)
    BY <2>2, ForSlots
  <2> QED BY <2>2, <2>3 DEF InstantNeverMissed, NotPassed, HasIndication
<1> QED BY <1>1, ConnectionInvariant, PTL

\* At most one of the two procedures bears an instant.
THEOREM ConnectionOverlap == Spec => []NoInstantOverlap
<1>1. IInv => NoInstantOverlap
  <2>1. SUFFICES ASSUME IInv PROVE NoInstantOverlap
    OBVIOUS
  <2>2. /\ conn.procedures \in Manager
        /\ ~(BearsInstant(conn.procedures.local) /\ BearsInstant(conn.procedures.remote))
    BY <2>1, ConnectionFields DEF IInv, Sound, SoundProcedures
  <2> QED BY <2>2, Slots DEF NoInstantOverlap, BearsInstant, Initiator
<1> QED BY <1>1, ConnectionInvariant, PTL

\* The Host is owed a result exactly while its request is stored, and the
\* request is stored exactly while its procedure is active.
THEOREM ConnectionAnswered == Spec => []UpdateAnswered
<1>1. IInv => UpdateAnswered
  BY DEF IInv, Sound, RequestTracked, UpdateAnswered, LocalProcedureActive
<1> QED BY <1>1, ConnectionInvariant, PTL

\* No step of the connection moves an armed response deadline away, and every
\* step of the event counter brings it closer.
THEOREM ConnectionDeadlines == Spec => DeadlineNeverRestarted
<1> DEFINE A == \A i \in Initiator :
                  LET before == conn.procedures[i]
                      after == conn'.procedures[i]
                  IN  (before # None /\ after # None /\ before.deadline # None
                         /\ after.deadline # None) =>
                        IF conn'.event_counter # conn.event_counter
                        THEN after.deadline < before.deadline
                        ELSE after.deadline = before.deadline
<1>1. IInv /\ [Next]_vars => [A]_vars
  BY NextKeeps DEF Restrained
<1> QED BY <1>1, ConnectionInvariant, PTL DEF Spec, DeadlineNeverRestarted
=============================================================================
