------------------------ MODULE HostInterfaceProofs ------------------------
(***************************************************************************)
(* Proofs about HostInterface, for every capacity of the two queues, any   *)
(* number of credits and successive links, and any masks.                  *)
(***************************************************************************)
EXTENDS HostInterface, FiniteSetTheorems, SequenceTheorems, TLAPS

-----------------------------------------------------------------------------
(***************************************************************************)
(* The inductive invariant.                                                *)
(*                                                                         *)
(* The runner sends nothing while `out` waits, so what is on its way to    *)
(* the Host is one sequence, to which a handler appends and from which the *)
(* Host takes the first: the invariant is about the order in that sequence.*)
(***************************************************************************)
Linked == mode \in {"Connection", "Event"}
Connecting(e) == e.code = "ConnectionComplete"
Refusing(e) == e.op = "Enable" /\ e.status # "Success"
\* The events that end what the Host knows of its link.
Clears(e) == e.code = "Disconnection" \/ (e \in Answers /\ e.op = "Reset")

ModeInv ==
  /\ link_connected <=> mode \in {"Connection", "Event", "Closing"}
  /\ link_connected => link > 0 /\ ~enabled
  /\ mode = "Advertising" => enabled /\ out = << >>
  /\ mode \in {"Standby", "Advertising"} => acl = << >>

CommandInv ==
  /\ AnsweredExactlyOnce
  /\ writer # None => writer.op = command
  /\ \A i \in 1 .. Len(h2c) : h2c[i] \in Commands => h2c[i].op = command

\* No link is newer than the last one; an answer that turns advertising off,
\* or refuses to turn it on, is the last word until the Host has read it.
OrderInv(q) ==
  /\ \A i \in 1 .. Len(q) : q[i] \in Notices => q[i].link <= link
  /\ \A k \in 1 .. Len(q) :
       q[k] \in Answers /\ (q[k].op \in {"Reset", "Disable"} \/ Refusing(q[k])) =>
         ~enabled /\ \A i \in k + 1 .. Len(q) : ~Connecting(q[i])

\* A Host with view v knows of a link once it has read the first n events.
KnowsAfter(v, q, n) ==
  \/ v # 0 /\ \A j \in 1 .. n : ~Clears(q[j])
  \/ \E i \in 1 .. n : Connecting(q[i]) /\ \A j \in i + 1 .. n : ~Clears(q[j])

ToldInv(q) ==
  /\ Linked /\ announced => KnowsAfter(view, q, Len(q))
  /\ \A k \in 1 .. Len(q) :
       q[k] \in Answers /\ Refusing(q[k]) /\ announced => KnowsAfter(view, q, k - 1)

\* Enable is on its way to the runner.
Enabling ==
  \/ writer # None /\ writer.op = "Enable"
  \/ \E i \in 1 .. Len(h2c) : h2c[i] \in Commands /\ h2c[i].op = "Enable"

\* Of a Host that does not enable advertising twice: while advertising may be
\* on it knows so and of no link, and it has yet to learn of at most one.
HostInv(q) ==
  /\ view \in {0, link}
  /\ enabled \/ Enabling => advertises /\ view = 0 /\ \A i \in 1 .. Len(q) : ~Connecting(q[i])
  /\ ~(enabled /\ Enabling)
  /\ \A k \in 1 .. Len(q) : q[k] \in Answers /\ q[k].op = "Enable" /\ q[k].status = "Success" =>
       advertises /\ view = 0 /\ \A i \in 1 .. k - 1 : ~Connecting(q[i])
  /\ \A k \in 1 .. Len(q) : Connecting(q[k]) =>
       /\ advertises /\ view = 0 /\ q[k].link = link
       /\ \A i \in 1 .. Len(q) : Connecting(q[i]) => i = k

\* ACL packets are for the last link, and there are none before the Host knows
\* of it.
NoAcl == acl_writer = None /\ acl = << >> /\ \A i \in 1 .. Len(h2c) : h2c[i] \notin AclPackets
AclInv(q) ==
  /\ acl_writer # None => acl_writer.link = link
  /\ \A i \in 1 .. Len(h2c) : h2c[i] \in AclPackets => h2c[i].link = link
  /\ \A i \in 1 .. Len(acl) : acl[i] = link
  /\ mode = "Advertising" \/ (\E k \in 1 .. Len(q) : Connecting(q[k])) => NoAcl

\* What the Host is still to read is about the link it knows of, and does not
\* end it.
Current(e) == ~Clears(e) /\ (e \in Notices => e.link = link)
LinkedInv(q) ==
  /\ view # 0 => /\ \A i \in 1 .. Len(q) : Current(q[i])
                 /\ unacked = CreditsOnTheWay
  /\ \A k \in 1 .. Len(q) : Connecting(q[k]) =>
       /\ \A i \in k + 1 .. Len(q) : Current(q[i])
       /\ \A i \in 1 .. Len(q) : q[i] # Event("CompletedPackets", link)

IInv ==
  /\ TypeOK /\ ModeInv /\ CommandInv
  /\ OrderInv(Outgoing) /\ ToldInv(Outgoing)
  /\ ~reenabled => /\ HostInv(Outgoing) /\ AclInv(Outgoing)
                   /\ Linked => LinkedInv(Outgoing)

-----------------------------------------------------------------------------
(***************************************************************************)
(* Sequences and counting.                                                 *)
(***************************************************************************)
\* What Tail leaves of a queue.
LEMMA TailFacts ==
  ASSUME NEW T, NEW s \in Seq(T), s # << >>
  PROVE  /\ Len(s) \in Nat /\ Len(s) > 0 /\ Head(s) = s[1] /\ s[1] \in T
         /\ Tail(s) \in Seq(T) /\ Len(Tail(s)) = Len(s) - 1
         /\ \A i \in 1 .. Len(s) - 1 : Tail(s)[i] = s[i + 1]
  OBVIOUS

\* What Append makes of a queue.
LEMMA AppendFacts ==
  ASSUME NEW T, NEW s \in Seq(T), NEW e \in T
  PROVE  /\ Append(s, e) \in Seq(T) /\ Len(Append(s, e)) = Len(s) + 1 /\ Len(s) \in Nat
         /\ \A i \in 1 .. Len(s) : Append(s, e)[i] = s[i]
         /\ Append(s, e)[Len(s) + 1] = e
  OBVIOUS

\* A sequence of one.
LEMMA OneFacts ==
  ASSUME NEW T, NEW e \in T
  PROVE  <<e>> \in Seq(T) /\ Len(<<e>>) = 1 /\ <<e>>[1] = e
  OBVIOUS

\* What is counted is finite.
LEMMA CountType ==
  ASSUME NEW T, NEW s \in Seq(T), NEW S
  PROVE  /\ Count(s, S) \in Nat /\ Len(s) \in Nat
         /\ IsFiniteSet({i \in 1 .. Len(s) : s[i] \in S})
<1> DEFINE I == {i \in 1 .. Len(s) : s[i] \in S}
<1>1. Len(s) \in Nat
  OBVIOUS
<1>2. IsFiniteSet(1 .. Len(s)) /\ I \in SUBSET (1 .. Len(s))
  BY <1>1, FS_Interval
<1>3. IsFiniteSet(I)
  BY <1>2, FS_Subset
<1> QED BY <1>1, <1>3, FS_CardinalityType DEF Count

\* Nothing is counted exactly when no element is in the set.
LEMMA CountNone ==
  ASSUME NEW T, NEW s \in Seq(T), NEW S
  PROVE  Count(s, S) = 0 <=> \A i \in 1 .. Len(s) : s[i] \notin S
<1> DEFINE I == {i \in 1 .. Len(s) : s[i] \in S}
<1>1. IsFiniteSet(I)
  BY CountType
<1>2. Count(s, S) = 0 <=> I = {}
  BY <1>1, FS_EmptySet DEF Count
<1> QED BY <1>2

\* A sequence of one counts once or not at all.
LEMMA CountOne ==
  ASSUME NEW T, NEW e \in T, NEW S
  PROVE  Count(<<e>>, S) = IF e \in S THEN 1 ELSE 0
<1> DEFINE s == <<e>>
           I == {i \in 1 .. Len(s) : s[i] \in S}
<1>1. s \in Seq(T) /\ Len(s) = 1 /\ s[1] = e
  BY OneFacts
<1> HIDE DEF s
<1>2. CASE e \in S
  <2>1. I = {1}
    BY <1>1, <1>2
  <2>2. Cardinality(I) = 1
    BY <2>1, FS_Singleton
  <2> QED BY <1>2, <2>2 DEF Count, s
<1>3. CASE e \notin S
  <2>1. \A i \in 1 .. Len(s) : s[i] \notin S
    BY <1>1, <1>3
  <2>2. Count(s, S) = 0
    BY <1>1, <2>1, CountNone
  <2> QED BY <1>3, <2>2 DEF s
<1> QED BY <1>2, <1>3

\* The parts of a concatenation are counted separately.
LEMMA CountConcat ==
  ASSUME NEW T, NEW s \in Seq(T), NEW t \in Seq(T), NEW S
  PROVE  Count(s \o t, S) = Count(s, S) + Count(t, S)
<1> DEFINE r == s \o t
           m == Len(s)
           n == Len(t)
           A == {i \in 1 .. m : s[i] \in S}
           B == {i \in 1 .. n : t[i] \in S}
           C == {i \in 1 .. m + n : r[i] \in S}
           D == {i \in m + 1 .. m + n : r[i] \in S}
           f == [i \in B |-> i + m]
<1>1. /\ r \in Seq(T) /\ Len(r) = m + n /\ m \in Nat /\ n \in Nat
      /\ \A i \in 1 .. m : r[i] = s[i]
      /\ \A i \in 1 .. n : r[i + m] = t[i]
  OBVIOUS
<1>2. IsFiniteSet(A) /\ IsFiniteSet(B) /\ Cardinality(A) = Count(s, S)
      /\ Cardinality(B) = Count(t, S)
  BY CountType DEF Count
<1>3. Cardinality(C) = Count(r, S)
  BY <1>1 DEF Count
<1> HIDE DEF r, m, n
<1>4. C = A \cup D /\ A \cap D = {}
  BY <1>1
<1>5. f \in Bijection(B, D)
  <2>1. \A i \in B : i + m \in D
    BY <1>1
  <2>2. \A j \in D : j - m \in B /\ (j - m) + m = j
    BY <1>1
  <2>3. f \in [B -> D] /\ \A i \in B : f[i] = i + m
    BY <2>1
  <2> HIDE DEF f
  <2>4. \A i, j \in B : f[i] = f[j] => i = j
    BY <1>1, <2>3
  <2>5. \A j \in D : \E i \in B : f[i] = j
    BY <2>2, <2>3
  <2> HIDE DEF B, D
  <2> QED BY <2>3, <2>4, <2>5 DEF Bijection, Injection, Surjection, IsInjective
<1>6. ExistsBijection(B, D)
  BY <1>5 DEF ExistsBijection
<1>7. IsFiniteSet(D) /\ Cardinality(D) = Cardinality(B)
  BY <1>2, <1>6, FS_Bijection
<1>8. Cardinality(A \cup D) = Cardinality(A) + Cardinality(D) - Cardinality(A \cap D)
  BY <1>2, <1>7, FS_Union
<1>9. Cardinality(A \cap D) = 0
  BY <1>4, FS_EmptySet
<1>10. Cardinality(A) \in Nat /\ Cardinality(B) \in Nat
  BY <1>2, FS_CardinalityType
<1> HIDE DEF A, B, C, D
<1> QED BY <1>2, <1>3, <1>4, <1>7, <1>8, <1>9, <1>10 DEF r

\* Counting with one element appended.
LEMMA CountAppend ==
  ASSUME NEW T, NEW s \in Seq(T), NEW e \in T, NEW S
  PROVE  Count(Append(s, e), S) = Count(s, S) + (IF e \in S THEN 1 ELSE 0)
<1> DEFINE t == <<e>>
<1>1. Append(s, e) = s \o t /\ t \in Seq(T)
  OBVIOUS
<1>2. Count(t, S) = IF e \in S THEN 1 ELSE 0
  BY CountOne
<1> HIDE DEF t
<1>3. Count(s \o t, S) = Count(s, S) + Count(t, S)
  BY <1>1, CountConcat
<1> QED BY <1>1, <1>2, <1>3

\* Counting without the first element.
LEMMA CountTail ==
  ASSUME NEW T, NEW s \in Seq(T), s # << >>, NEW S
  PROVE  Count(s, S) = (IF Head(s) \in S THEN 1 ELSE 0) + Count(Tail(s), S)
<1>1. s = <<Head(s)>> \o Tail(s) /\ Head(s) \in T /\ Tail(s) \in Seq(T)
  OBVIOUS
<1> DEFINE e == Head(s)
           t == <<e>>
           u == Tail(s)
<1>2. t \in Seq(T) /\ s = t \o u /\ u \in Seq(T) /\ e \in T
  BY <1>1
<1> HIDE DEF e, u
<1>3. Count(t, S) = IF e \in S THEN 1 ELSE 0
  BY <1>2, CountOne
<1> HIDE DEF t
<1>4. Count(t \o u, S) = Count(t, S) + Count(u, S)
  BY <1>2, CountConcat
<1> QED BY <1>2, <1>3, <1>4 DEF e, u

-----------------------------------------------------------------------------
(***************************************************************************)
(* Packets and events.                                                     *)
(***************************************************************************)
\* The codes of an event tell notices from answers.
LEMMA EventKinds ==
  ASSUME NEW e \in Events
  PROVE  /\ e \in Notices \/ e \in Answers
         /\ e \in Notices => /\ e \notin Answers /\ e.link \in Links
                             /\ e.code \notin {"CommandComplete", "CommandStatus"}
         /\ e \in Answers => /\ e \notin Notices /\ ~Connecting(e)
                             /\ e.code # "Disconnection" /\ e.code # "CompletedPackets"
                             /\ e.op \in Opcodes /\ e.status \in Statuses
                             /\ e.code \in {"CommandComplete", "CommandStatus"}
  BY DEF Events, Notices, Answers, LeMeta, Connecting

\* A notice and its fields.
LEMMA NoticeFacts ==
  ASSUME NEW code \in LeMeta \cup {"Disconnection", "CompletedPackets", "AclData"},
         NEW l \in Links
  PROVE  /\ Event(code, l) \in Notices /\ Event(code, l) \in Events
         /\ Event(code, l).code = code /\ Event(code, l).link = l
  BY DEF Event, Notices, Events

\* An answer and its fields.
LEMMA AnswerFacts ==
  ASSUME NEW code \in {"CommandComplete", "CommandStatus"}, NEW op \in Opcodes,
         NEW status \in Statuses
  PROVE  /\ Answer(code, op, status) \in Answers /\ Answer(code, op, status) \in Events
         /\ Answer(code, op, status).op = op /\ Answer(code, op, status).status = status
  BY DEF Answer, Answers, Events

\* The kind of a packet tells data from commands.
LEMMA PacketKinds ==
  ASSUME NEW p \in Packets
  PROVE  /\ p.kind = "Acl" <=> p \in AclPackets
         /\ p.kind # "Acl" <=> p \in Commands
         /\ p \in AclPackets => p.link \in Links /\ p = Acl(p.link) /\ p \notin Commands
         /\ p \in Commands => /\ p.op \in Opcodes /\ p.mask \in MaskChoices(p.op)
                              /\ p \notin AclPackets /\ p # None
<1>1. p \in AclPackets \/ p \in Commands
  BY DEF Packets
<1>2. ASSUME p \in AclPackets
      PROVE  p.kind = "Acl" /\ p.link \in Links /\ p = Acl(p.link)
  BY <1>2 DEF AclPackets, Acl
<1>3. ASSUME p \in Commands
      PROVE  p.kind = "Cmd" /\ p.op \in Opcodes /\ p.mask \in MaskChoices(p.op)
  BY <1>3 DEF Commands
<1>4. p \in Commands => p # None
  BY NoneAssumption
<1> QED BY <1>1, <1>2, <1>3, <1>4

\* An ACL packet for a link.
LEMMA AclFacts ==
  ASSUME NEW l \in Links
  PROVE  Acl(l) \in AclPackets /\ Acl(l) \in Packets /\ Acl(l).link = l /\ Acl(l) # None
<1>1. Acl(l) \in AclPackets /\ Acl(l).link = l
  BY DEF Acl, AclPackets
<1> QED BY <1>1, NoneAssumption DEF Packets

\* What is on its way to the Host, with its first event.
LEMMA OutgoingFacts ==
  ASSUME TypeOK
  PROVE  /\ Outgoing \in Seq(Events) /\ Len(Outgoing) \in Nat
         /\ \A i \in 1 .. Len(Outgoing) : Outgoing[i] \in Events
         /\ out = << >> => Outgoing = c2h
         /\ c2h # << >> => /\ Outgoing # << >> /\ Head(Outgoing) = Head(c2h)
                           /\ Tail(Outgoing) = Tail(c2h) \o out
<1>1. c2h \in Seq(Events) /\ out \in Seq(Events)
  BY DEF TypeOK
<1>2. Outgoing \in Seq(Events) /\ Len(Outgoing) \in Nat
  BY <1>1 DEF Outgoing
<1>3. out = << >> => Outgoing = c2h
  BY <1>1 DEF Outgoing
<1>4. ASSUME c2h # << >>
      PROVE  /\ Outgoing # << >> /\ Head(Outgoing) = Head(c2h)
             /\ Tail(Outgoing) = Tail(c2h) \o out
  BY <1>1, <1>4 DEF Outgoing
<1> QED BY <1>2, <1>3, <1>4

\* What a handler sends goes behind what is on its way.
LEMMA Extended ==
  ASSUME TypeOK, out = << >>, c2h' = c2h, out' \in Seq(Events)
  PROVE  /\ Outgoing' \in Seq(Events) /\ Len(Outgoing') = Len(Outgoing) + Len(out')
         /\ Len(out') \in Nat /\ Len(Outgoing) \in Nat
         /\ \A i \in 1 .. Len(Outgoing) : Outgoing'[i] = Outgoing[i]
         /\ \A i \in 1 .. Len(out') : Outgoing'[Len(Outgoing) + i] = out'[i]
         /\ \A i \in Len(Outgoing) + 1 .. Len(Outgoing') :
              i - Len(Outgoing) \in 1 .. Len(out') /\ Outgoing'[i] = out'[i - Len(Outgoing)]
         /\ \A S : Count(Outgoing', S) = Count(Outgoing, S) + Count(out', S)
<1>1. Outgoing = c2h /\ Outgoing' = c2h \o out' /\ c2h \in Seq(Events)
  BY OutgoingFacts DEF Outgoing, TypeOK
<1>2. \A S : Count(c2h \o out', S) = Count(c2h, S) + Count(out', S)
  BY <1>1, CountConcat
<1>3. /\ c2h \o out' \in Seq(Events) /\ Len(c2h \o out') = Len(c2h) + Len(out')
      /\ Len(out') \in Nat /\ Len(c2h) \in Nat
      /\ \A i \in 1 .. Len(c2h) : (c2h \o out')[i] = c2h[i]
      /\ \A i \in 1 .. Len(out') : (c2h \o out')[Len(c2h) + i] = out'[i]
      /\ \A i \in Len(c2h) + 1 .. Len(c2h) + Len(out') :
           i - Len(c2h) \in 1 .. Len(out') /\ (c2h \o out')[i] = out'[i - Len(c2h)]
  BY <1>1
<1> QED BY <1>1, <1>2, <1>3

\* The packets of the queue towards the runner.
LEMMA QueueFacts ==
  ASSUME TypeOK
  PROVE  /\ h2c \in Seq(Packets) /\ Len(h2c) \in Nat
         /\ \A i \in 1 .. Len(h2c) : h2c[i] \in Packets
  BY DEF TypeOK

\* Without a step of the Host, knowledge lasts through what does not end it.
LEMMA KnowsLonger ==
  ASSUME NEW v, NEW q, NEW r, NEW n \in Nat, NEW m \in Nat, n <= m,
         \A i \in 1 .. n : r[i] = q[i], \A j \in n + 1 .. m : ~Clears(r[j]),
         KnowsAfter(v, q, n)
  PROVE  KnowsAfter(v, r, m)
<1>1. CASE v # 0 /\ \A j \in 1 .. n : ~Clears(q[j])
  <2>1. \A j \in 1 .. m : j \in 1 .. n \/ j \in n + 1 .. m
    OBVIOUS
  <2>2. \A j \in 1 .. m : ~Clears(r[j])
    BY <1>1, <2>1
  <2> QED BY <1>1, <2>2 DEF KnowsAfter
<1>2. CASE \E i \in 1 .. n : Connecting(q[i]) /\ \A j \in i + 1 .. n : ~Clears(q[j])
  <2>1. PICK i \in 1 .. n : Connecting(q[i]) /\ \A j \in i + 1 .. n : ~Clears(q[j])
    BY <1>2
  <2>2. \A j \in i + 1 .. m : (j \in i + 1 .. n /\ j \in 1 .. n) \/ j \in n + 1 .. m
    BY <2>1
  <2>3. \A j \in i + 1 .. m : ~Clears(r[j])
    BY <2>1, <2>2
  <2>4. i \in 1 .. m /\ Connecting(r[i])
    BY <2>1
  <2> QED BY <2>3, <2>4 DEF KnowsAfter
<1> QED BY <1>1, <1>2 DEF KnowsAfter

-----------------------------------------------------------------------------
(***************************************************************************)
(* Commands and their answers.                                             *)
(***************************************************************************)
\* What the handlers do to advertising and the masks, and what they answer.
Handled(p, a) ==
  /\ a.op = p.op
  /\ p.op \in {"Reset", "Disable"} => ~enabled'
  /\ p.op = "Enable" => IF link_connected THEN a.status # "Success" /\ enabled' = enabled
                        ELSE a.status = "Success"
  /\ p.op \notin {"Reset", "Disable", "Enable"} => enabled' = enabled
  /\ enabled' \in BOOLEAN /\ event_mask' \subseteq MaskBits /\ le_event_mask' \subseteq LeMeta

\* One answer, with a status, to a command.
LEMMA OneAnswer ==
  ASSUME NEW op \in Opcodes, NEW status \in Statuses, NEW o,
         o = Complete(op, status) \/ o = Status(op, status)
  PROVE  \E a \in Answers : o = <<a>> /\ a.op = op /\ a.status = status
<1>1. CASE o = Complete(op, status)
  <2> DEFINE code == "CommandComplete"
             a == Answer(code, op, status)
  <2>1. code \in {"CommandComplete", "CommandStatus"} /\ o = <<a>>
    BY <1>1 DEF Complete
  <2> HIDE DEF code
  <2>2. a \in Answers /\ a.op = op /\ a.status = status
    BY <2>1, AnswerFacts
  <2> HIDE DEF a
  <2> QED BY <2>1, <2>2
<1>2. CASE o = Status(op, status)
  <2> DEFINE code == "CommandStatus"
             a == Answer(code, op, status)
  <2>1. code \in {"CommandComplete", "CommandStatus"} /\ o = <<a>>
    BY <1>2 DEF Status
  <2> HIDE DEF code
  <2>2. a \in Answers /\ a.op = op /\ a.status = status
    BY <2>1, AnswerFacts
  <2> HIDE DEF a
  <2> QED BY <2>1, <2>2
<1> QED BY <1>1, <1>2

\* handle_command answers every command once.
LEMMA HandleCommandFacts ==
  ASSUME TypeOK, NEW p \in Commands, HandleCommand(p)
  PROVE  \E a \in Answers : out' = <<a>> /\ Handled(p, a)
<1>0. /\ p.op \in Opcodes /\ p.mask \in MaskChoices(p.op)
      /\ enabled \in BOOLEAN /\ event_mask \subseteq MaskBits /\ le_event_mask \subseteq LeMeta
      /\ link_connected \in BOOLEAN
  BY PacketKinds DEF Packets, TypeOK
<1> DEFINE Kept == event_mask' \subseteq MaskBits /\ le_event_mask' \subseteq LeMeta
<1>1. ASSUME NEW status \in Statuses,
             out' = Complete(p.op, status) \/ out' = Status(p.op, status), Kept,
             enabled' \in BOOLEAN,
             p.op \in {"Reset", "Disable"} => ~enabled',
             p.op = "Enable" => IF link_connected THEN status # "Success" /\ enabled' = enabled
                                ELSE status = "Success",
             p.op \notin {"Reset", "Disable", "Enable"} => enabled' = enabled
      PROVE  \E a \in Answers : out' = <<a>> /\ Handled(p, a)
  <2>1. PICK a \in Answers : out' = <<a>> /\ a.op = p.op /\ a.status = status
    <3> DEFINE o == out'
               op == p.op
    <3>1. (o = Complete(op, status) \/ o = Status(op, status)) /\ op \in Opcodes
      BY <1>0, <1>1
    <3> HIDE DEF o, op
    <3>2. \E a \in Answers : o = <<a>> /\ a.op = op /\ a.status = status
      BY <3>1, OneAnswer
    <3> QED BY <3>2 DEF o, op
  <2>2. Handled(p, a)
    BY <1>1, <2>1 DEF Handled
  <2> QED BY <2>1, <2>2
<1>2. /\ "Success" \in Statuses /\ "Disallowed" \in Statuses /\ "Invalid" \in Statuses
      /\ "Unknown" \in Statuses
  BY DEF Statuses
<1>3. CASE p.op = "Reset" /\ ResetController /\ out' = Complete("Reset", "Success")
  <2>1. enabled' \in BOOLEAN /\ ~enabled' /\ Kept
    BY <1>3 DEF ResetController
  <2> QED BY <1>1, <1>2, <1>3, <2>1
<1>4. CASE /\ p.op = "SetEventMask" /\ event_mask' = p.mask
           /\ out' = Complete(p.op, "Success") /\ UNCHANGED <<le_event_mask, enabled>>
  <2>1. Kept
    BY <1>0, <1>4, HostAssumption DEF MaskChoices
  <2> QED BY <1>0, <1>1, <1>2, <1>4, <2>1
<1>5. CASE /\ p.op = "SetLeEventMask" /\ le_event_mask' = p.mask
           /\ out' = Complete(p.op, "Success") /\ UNCHANGED <<event_mask, enabled>>
  <2>1. Kept
    BY <1>0, <1>5, HostAssumption DEF MaskChoices
  <2> QED BY <1>0, <1>1, <1>2, <1>5, <2>1
<1>6. CASE p.op = "Enable" /\ SetAdvertisingEnable(TRUE) /\ UNCHANGED maskVars
  <2>1. Kept
    BY <1>0, <1>6 DEF maskVars
  <2>2. CASE link_connected
    <3>1. out' = Complete(p.op, "Disallowed") /\ enabled' = enabled
      BY <1>6, <2>2 DEF SetAdvertisingEnable
    <3>2. "Disallowed" # "Success"
      OBVIOUS
    <3> QED BY <1>0, <1>1, <1>2, <1>6, <2>1, <2>2, <3>1, <3>2
  <2>3. CASE ~link_connected
    <3>1. out' = Complete(p.op, "Success") /\ enabled' = TRUE
      BY <1>6, <2>3 DEF SetAdvertisingEnable
    <3>2. enabled' \in BOOLEAN
      BY <3>1
    <3> QED BY <1>1, <1>2, <1>6, <2>1, <2>3, <3>1, <3>2
  <2> QED BY <2>2, <2>3
<1>7. CASE p.op = "Disable" /\ SetAdvertisingEnable(FALSE) /\ UNCHANGED maskVars
  <2>1. Kept
    BY <1>0, <1>7 DEF maskVars
  <2>2. out' = Complete(p.op, "Success") /\ enabled' = FALSE
    BY <1>7 DEF SetAdvertisingEnable
  <2>3. enabled' \in BOOLEAN /\ ~enabled'
    BY <2>2
  <2> QED BY <1>1, <1>2, <1>7, <2>1, <2>2, <2>3
<1>8. CASE /\ p.op \in {"SetAddress", "Other", "Disconnect", "ConnectionUpdate"}
           /\ UNCHANGED <<maskVars, enabled>>
           /\ \E status \in Statuses : out' = Complete(p.op, status) \/ out' = Status(p.op, status)
  <2>1. Kept /\ enabled' = enabled
    BY <1>0, <1>8 DEF maskVars
  <2>2. PICK status \in Statuses : out' = Complete(p.op, status) \/ out' = Status(p.op, status)
    BY <1>8
  <2> QED BY <1>0, <1>1, <1>8, <2>1, <2>2
<1>9. \/ p.op = "Reset" /\ ResetController /\ out' = Complete("Reset", "Success")
      \/ /\ p.op = "SetEventMask" /\ event_mask' = p.mask
         /\ out' = Complete(p.op, "Success") /\ UNCHANGED <<le_event_mask, enabled>>
      \/ /\ p.op = "SetLeEventMask" /\ le_event_mask' = p.mask
         /\ out' = Complete(p.op, "Success") /\ UNCHANGED <<event_mask, enabled>>
      \/ p.op \in {"Enable", "Disable"} /\ SetAdvertisingEnable(p.op = "Enable") /\ UNCHANGED maskVars
      \/ /\ p.op \in {"SetAddress", "Other", "Disconnect", "ConnectionUpdate"}
         /\ UNCHANGED <<maskVars, enabled>>
         /\ \E status \in Statuses : out' = Complete(p.op, status) \/ out' = Status(p.op, status)
  BY <1>2 DEF HandleCommand
<1>10. CASE p.op \in {"Enable", "Disable"} /\ SetAdvertisingEnable(p.op = "Enable") /\ UNCHANGED maskVars
  <2>1. CASE p.op = "Enable"
    <3>1. (p.op = "Enable") = TRUE
      BY <2>1
    <3> QED BY <1>6, <1>10, <2>1, <3>1
  <2>2. CASE p.op = "Disable"
    <3>1. (p.op = "Enable") = FALSE
      BY <2>2
    <3> QED BY <1>7, <1>10, <2>2, <3>1
  <2> QED BY <1>10, <2>1, <2>2
<1> QED BY <1>3, <1>4, <1>5, <1>8, <1>9, <1>10

\* A command at the head of the queue is the one the Host waits for, and no
\* other command or answer is on its way.
LEMMA CommandAlone ==
  ASSUME TypeOK, CommandInv, h2c # << >>, Head(h2c) \in Commands
  PROVE  /\ command = Head(h2c).op /\ command # None /\ writer = None
         /\ Tail(h2c) \in Seq(Packets) /\ Count(Tail(h2c), Commands) = 0
         /\ \A i \in 1 .. Len(Tail(h2c)) : Tail(h2c)[i] \notin Commands
         /\ Count(Outgoing, Answers) = 0
         /\ \A i \in 1 .. Len(Outgoing) : Outgoing[i] \notin Answers
<1>1. /\ h2c \in Seq(Packets) /\ Tail(h2c) \in Seq(Packets) /\ Outgoing \in Seq(Events)
      /\ Len(h2c) \in Nat /\ Len(h2c) > 0 /\ Head(h2c) = h2c[1]
  BY TailFacts, OutgoingFacts DEF TypeOK
<1>2. Count(h2c, Commands) = 1 + Count(Tail(h2c), Commands)
  BY <1>1, CountTail
<1>3. Count(Tail(h2c), Commands) \in Nat /\ Count(Outgoing, Answers) \in Nat
  BY <1>1, CountType
<1>4. /\ Count(Tail(h2c), Commands) = 0 /\ Count(Outgoing, Answers) = 0 /\ writer = None
      /\ command # None
  <2>1. (IF writer = None THEN 0 ELSE 1) + Count(h2c, Commands) + Count(Outgoing, Answers)
          = IF command = None THEN 0 ELSE 1
    BY DEF CommandInv, AnsweredExactlyOnce, CommandsOnTheWay, AnswersOnTheWay
  <2> QED BY <1>2, <1>3, <2>1
<1>5. command = Head(h2c).op
  BY <1>1 DEF CommandInv
<1>6. \A i \in 1 .. Len(Tail(h2c)) : Tail(h2c)[i] \notin Commands
  BY <1>1, <1>4, CountNone
<1>7. \A i \in 1 .. Len(Outgoing) : Outgoing[i] \notin Answers
  BY <1>1, <1>4, CountNone
<1> QED BY <1>1, <1>4, <1>5, <1>6, <1>7

\* How a handler that answers command p leaves the runner: in the same mode,
\* or, after a Reset of a link, closing it with a Disconnection behind the
\* answer.
Moves(p, t) ==
  /\ mode \in {"Standby", "Connection"} /\ mode' \in {mode, "Closing"}
  /\ mode' = "Closing" => mode = "Connection"
  /\ mode' = "Connection" => t = << >> /\ p.op # "Reset"
  /\ \A i \in 1 .. Len(t) : t[i].code = "Disconnection" /\ t[i].link = link

\* Answering a command keeps the invariant.
LEMMA AnswerKeeps ==
  ASSUME IInv, out = << >>, h2c # << >>, h2c' = Tail(h2c), c2h' = c2h,
         NEW p, p = Head(h2c), p \in Commands, NEW a \in Answers, NEW t \in Seq(Notices),
         out' = <<a>> \o t, Handled(p, a), Moves(p, t), terminating' \in BOOLEAN,
         UNCHANGED <<hostVars, link_connected, link, acl, announced>>
  PROVE  IInv'
<1> DEFINE q == Outgoing
           r == Outgoing'
           n == Len(q)
<1>0. /\ TypeOK /\ ModeInv /\ CommandInv /\ OrderInv(q) /\ ToldInv(q)
      /\ UNCHANGED <<command, writer, acl_writer, view, advertises, unacked, reenabled>>
      /\ UNCHANGED <<link_connected, link, acl, announced>>
  BY DEF IInv, hostVars
<1>1. /\ command = p.op /\ command # None /\ writer = None
      /\ Tail(h2c) \in Seq(Packets) /\ Count(Tail(h2c), Commands) = 0
      /\ \A i \in 1 .. Len(Tail(h2c)) : Tail(h2c)[i] \notin Commands
      /\ Count(q, Answers) = 0 /\ \A i \in 1 .. n : q[i] \notin Answers
  BY <1>0, CommandAlone
<1>2. /\ out' \in Seq(Events) /\ Len(out') = Len(t) + 1 /\ Len(t) \in Nat
      /\ \A i \in 1 .. Len(out') : i = 1 \/ i - 1 \in 1 .. Len(t)
      /\ out'[1] = a /\ \A i \in 1 .. Len(t) : out'[i + 1] = t[i]
      /\ \A i \in 1 .. Len(t) : t[i] \in Notices
  <2>1. t \in Seq(Events) /\ a \in Events
    BY DEF Events
  <2> QED BY <2>1
<1>3. /\ r \in Seq(Events) /\ Len(r) = n + 1 + Len(t) /\ n \in Nat
      /\ \A i \in 1 .. n : r[i] = q[i]
      /\ r[n + 1] = a
      /\ \A i \in n + 2 .. Len(r) : i - n - 1 \in 1 .. Len(t) /\ r[i] = t[i - n - 1]
      /\ \A S : Count(r, S) = Count(q, S) + Count(out', S)
  <2>1. /\ r \in Seq(Events) /\ Len(r) = n + Len(out')
        /\ Len(out') \in Nat /\ n \in Nat
        /\ \A i \in 1 .. n : r[i] = q[i]
        /\ \A i \in 1 .. Len(out') : r[n + i] = out'[i]
        /\ \A i \in n + 1 .. Len(r) : i - n \in 1 .. Len(out') /\ r[i] = out'[i - n]
        /\ \A S : Count(r, S) = Count(q, S) + Count(out', S)
    BY <1>0, <1>2, Extended
  <2> HIDE DEF q, r, n
  <2>2. r[n + 1] = a
    <3>1. 1 \in 1 .. Len(out')
      BY <1>2
    <3>2. r[n + 1] = out'[1]
      BY <2>1, <3>1
    <3> QED BY <1>2, <3>2
  <2>3. ASSUME NEW i \in n + 2 .. Len(r)
        PROVE  i - n - 1 \in 1 .. Len(t) /\ r[i] = t[i - n - 1]
    <3>1. r[i] = out'[i - n] /\ i - n - 1 \in 1 .. Len(t)
      BY <1>2, <2>1
    <3>2. out'[(i - n - 1) + 1] = t[i - n - 1] /\ (i - n - 1) + 1 = i - n
      BY <1>2, <2>1, <3>1
    <3> QED BY <3>1, <3>2
  <2> QED BY <1>2, <2>1, <2>2, <2>3
<1>4. /\ \A i \in 1 .. n : q[i] \in Events
      /\ \A i \in n + 2 .. Len(r) : /\ r[i] \in Notices /\ r[i] \notin Answers
                                    /\ r[i].code = "Disconnection" /\ r[i].link = link
                                    /\ ~Connecting(r[i])
      /\ a \notin Notices /\ ~Connecting(a) /\ a.op \in Opcodes
      /\ Clears(a) <=> a.op = "Reset"
  <2>1. \A i \in 1 .. n : q[i] \in Events
    BY <1>0, OutgoingFacts
  <2>2. a \in Events
    BY DEF Events
  <2>3. \A i \in 1 .. Len(t) : t[i] \in Notices /\ t[i] \notin Answers
    BY <1>2, EventKinds DEF Events
  <2>4. a \notin Notices /\ ~Connecting(a) /\ a.op \in Opcodes /\ a.code # "Disconnection"
    BY <2>2, EventKinds
  <2> HIDE DEF q, r
  <2>5. \A i \in n + 2 .. Len(r) : /\ r[i] \in Notices /\ r[i] \notin Answers
                                   /\ r[i].code = "Disconnection" /\ r[i].link = link
                                   /\ ~Connecting(r[i])
    BY <1>3, <2>3 DEF Moves, Connecting
  <2> QED BY <2>1, <2>4, <2>5 DEF Clears
<1>5. \A i \in 1 .. Len(r) : i \in 1 .. n \/ i = n + 1 \/ i \in n + 2 .. Len(r)
  BY <1>3
<1>6. TypeOK'
  <2>1. h2c' \in Seq(Packets) /\ Len(h2c') <= HostCapacity
    <3>1. Len(Tail(h2c)) = Len(h2c) - 1 /\ Len(h2c) <= HostCapacity /\ Len(h2c) \in Nat
      BY <1>0, TailFacts DEF TypeOK
    <3> QED BY <1>1, <3>1, CapacityAssumption
  <2>2. mode' \in {"Standby", "Advertising", "Connection", "Event", "Closing"}
    BY DEF Moves
  <2>3. enabled' \in BOOLEAN /\ event_mask' \subseteq MaskBits /\ le_event_mask' \subseteq LeMeta
    BY DEF Handled
  <2> QED BY <1>0, <1>2, <2>1, <2>2, <2>3 DEF TypeOK
<1>7. ModeInv'
  <2>1. link_connected => ~enabled'
    BY <1>0, <1>1, <1>4 DEF Handled, ModeInv
  <2> QED BY <1>0, <2>1 DEF ModeInv, Moves
<1>8. Count(r, Answers) = 1
  <2>1. Count(<<a>>, Answers) = 1
    BY CountOne
  <2>2. Count(t, Answers) = 0
    <3>1. \A i \in 1 .. Len(t) : t[i] \notin Answers
      BY <1>2, EventKinds DEF Events
    <3> QED BY <3>1, CountNone
  <2>3. Count(<<a>> \o t, Answers) = Count(<<a>>, Answers) + Count(t, Answers)
    <3> DEFINE u == <<a>>
    <3>1. u \in Seq(Events) /\ t \in Seq(Events)
      BY DEF Events
    <3> HIDE DEF u
    <3>2. Count(u \o t, Answers) = Count(u, Answers) + Count(t, Answers)
      BY <3>1, CountConcat
    <3> QED BY <3>2 DEF u
  <2>4. Count(out', Answers) = 1
    BY <2>1, <2>2, <2>3
  <2>5. Count(r, Answers) = Count(q, Answers) + Count(out', Answers)
    BY <1>3
  <2> QED BY <1>1, <2>4, <2>5
<1>9. CommandInv'
  <2>1. \A i \in 1 .. Len(r) : r[i] \in Answers => r[i].op = command
    BY <1>1, <1>3, <1>4, <1>5 DEF Handled
  <2>2. CommandsOnTheWay' = 0
    BY <1>0, <1>1 DEF CommandsOnTheWay
  <2>3. AnswersOnTheWay' = 1
    BY <1>8 DEF AnswersOnTheWay
  <2>4. AnsweredExactlyOnce'
    <3>1. command' = command /\ command # None /\ 0 + 1 = 1
      BY <1>0, <1>1
    <3>2. (CommandsOnTheWay + AnswersOnTheWay = IF command = None THEN 0 ELSE 1)'
      BY <2>2, <2>3, <3>1
    <3>3. (\A i \in 1 .. Len(Outgoing) : Outgoing[i] \in Answers => Outgoing[i].op = command)'
      BY <2>1, <3>1
    <3> QED BY <3>2, <3>3 DEF AnsweredExactlyOnce
  <2> QED BY <1>0, <1>1, <2>4 DEF CommandInv
<1>10. OrderInv(Outgoing)'
  <2>1. \A i \in 1 .. Len(r) : r[i] \in Notices => r[i].link <= link
    <3>1. link <= link
      BY <1>0 DEF TypeOK
    <3> QED BY <1>0, <1>3, <1>4, <1>5, <3>1 DEF OrderInv
  <2>2. ASSUME NEW k \in 1 .. Len(r), r[k] \in Answers,
               r[k].op \in {"Reset", "Disable"} \/ Refusing(r[k])
        PROVE  ~enabled' /\ \A i \in k + 1 .. Len(r) : ~Connecting(r[i])
    <3>1. k = n + 1
      BY <1>1, <1>3, <1>4, <1>5, <2>2
    <3>2. \A i \in k + 1 .. Len(r) : i \in n + 2 .. Len(r)
      BY <1>3, <3>1
    <3>3. ~enabled'
      BY <1>0, <1>3, <2>2, <3>1 DEF Handled, Refusing, ModeInv
    <3> QED BY <1>4, <3>2, <3>3
  <2> QED BY <1>0, <2>1, <2>2 DEF OrderInv
<1>11. ToldInv(Outgoing)'
  <2>1. ASSUME mode = "Connection", announced
        PROVE  KnowsAfter(view, r, n)
    <3>1. KnowsAfter(view, q, n)
      BY <1>0, <2>1 DEF ToldInv, Linked
    <3> DEFINE v == view
    <3>2. KnowsAfter(v, q, n) /\ n \in Nat /\ n <= n /\ \A i \in 1 .. n : r[i] = q[i]
      BY <1>3, <3>1
    <3> HIDE DEF q, r, n, v
    <3>4. \A j \in n + 1 .. n : ~Clears(r[j])
      BY <3>2
    <3>3. KnowsAfter(v, r, n)
      BY <3>2, <3>4, KnowsLonger
    <3> QED BY <3>3 DEF v
  <2>2. ASSUME mode' \in {"Connection", "Event"}, announced
        PROVE  KnowsAfter(view, r, Len(r))
    <3>1. mode = "Connection" /\ t = << >> /\ p.op # "Reset"
      BY <2>2 DEF Moves
    <3>2. Len(r) = n + 1 /\ ~Clears(r[n + 1])
      BY <1>3, <1>4, <3>1 DEF Handled
    <3>3. KnowsAfter(view, r, n)
      BY <2>1, <2>2, <3>1
    <3> DEFINE m == n + 1
               v == view
    <3>4. \A j \in n + 1 .. m : ~Clears(r[j])
      BY <1>3, <3>2
    <3>5. m \in Nat /\ n <= m
      BY <1>3
    <3> HIDE DEF m, q, r, n, v
    <3>6. KnowsAfter(v, r, m)
      BY <1>3, <3>3, <3>4, <3>5, KnowsLonger DEF v
    <3> QED BY <3>2, <3>6 DEF m, v
  <2>3. ASSUME NEW k \in 1 .. Len(r), r[k] \in Answers, Refusing(r[k]), announced
        PROVE  KnowsAfter(view, r, k - 1)
    <3>1. k = n + 1
      BY <1>1, <1>3, <1>4, <1>5, <2>3
    <3>2. link_connected /\ mode = "Connection"
      BY <1>0, <1>3, <2>3, <3>1 DEF Handled, Refusing, ModeInv, Moves
    <3>3. k - 1 = n
      BY <1>3, <3>1
    <3> QED BY <2>1, <2>3, <3>2, <3>3
  <2> QED BY <1>0, <2>2, <2>3 DEF ToldInv, Linked
<1>12. ASSUME ~reenabled
       PROVE  HostInv(Outgoing)' /\ AclInv(Outgoing)' /\ (Linked' => LinkedInv(Outgoing)')
  <2>0. HostInv(q) /\ AclInv(q) /\ (Linked => LinkedInv(q))
    BY <1>12 DEF IInv
  <2>1. ~Enabling'
    BY <1>0, <1>1 DEF Enabling
  <2>2. p.op = "Enable" => Enabling
    <3>1. h2c[1] = p /\ 1 \in 1 .. Len(h2c)
      BY <1>0, TailFacts DEF TypeOK
    <3> QED BY <3>1 DEF Enabling
  <2>3. \A k \in 1 .. Len(r) : Connecting(r[k]) => k \in 1 .. n /\ Connecting(q[k])
    BY <1>3, <1>4, <1>5
  <2>4. enabled' => enabled \/ Enabling
    BY <1>4, <2>2 DEF Handled
  <2>5. HostInv(Outgoing)'
    <3>1. enabled' => advertises /\ view = 0 /\ \A i \in 1 .. Len(r) : ~Connecting(r[i])
      BY <2>0, <2>3, <2>4 DEF HostInv
    <3>2. ASSUME NEW k \in 1 .. Len(r), r[k] \in Answers, r[k].op = "Enable",
                 r[k].status = "Success"
          PROVE  advertises /\ view = 0 /\ \A i \in 1 .. k - 1 : ~Connecting(r[i])
      <4>1. k = n + 1 /\ p.op = "Enable"
        BY <1>1, <1>3, <1>4, <1>5, <3>2 DEF Handled
      <4>2. \A i \in 1 .. k - 1 : i \in 1 .. n
        BY <1>3, <4>1
      <4> QED BY <1>3, <2>0, <2>2, <4>1, <4>2 DEF HostInv
    <3>3. ASSUME NEW k \in 1 .. Len(r), Connecting(r[k])
          PROVE  /\ advertises /\ view = 0 /\ r[k].link = link
                 /\ \A i \in 1 .. Len(r) : Connecting(r[i]) => i = k
      <4>1. k \in 1 .. n /\ Connecting(q[k]) /\ r[k] = q[k]
        BY <1>3, <2>3, <3>3
      <4> QED BY <2>0, <2>3, <4>1 DEF HostInv
    <3>4. view \in {0, link}
      BY <2>0 DEF HostInv
    <3> QED BY <1>0, <2>1, <3>1, <3>2, <3>3, <3>4 DEF HostInv
  <2>6. \A i \in 1 .. Len(h2c') : i + 1 \in 1 .. Len(h2c) /\ h2c'[i] = h2c[i + 1]
    <3>1. /\ Len(h2c) \in Nat /\ Len(Tail(h2c)) = Len(h2c) - 1
          /\ \A i \in 1 .. Len(h2c) - 1 : Tail(h2c)[i] = h2c[i + 1]
      BY <1>0, TailFacts DEF TypeOK
    <3> QED BY <3>1
  <2>7. AclInv(Outgoing)'
    <3>1. mode' # "Advertising"
      BY DEF Moves
    <3>2. NoAcl => NoAcl'
      BY <1>0, <2>6 DEF NoAcl
    <3> QED BY <1>0, <2>0, <2>3, <2>6, <3>1, <3>2 DEF AclInv
  <2>8. ASSUME Linked' PROVE LinkedInv(Outgoing)'
    <3>1. mode = "Connection" /\ Linked /\ t = << >> /\ p.op # "Reset"
      BY <2>8 DEF Linked, Moves
    <3>2. LinkedInv(q) /\ Len(r) = n + 1 /\ Current(a)
      BY <1>3, <1>4, <2>0, <3>1 DEF Handled, Current
    <3>3. \A i \in 1 .. Len(r) : i \in 1 .. n \/ i = n + 1
      BY <1>3, <3>2
    <3>4. \A x : /\ Count(h2c', {Acl(x)}) = Count(h2c, {Acl(x)})
                 /\ Count(r, {Event("CompletedPackets", x)})
                      = Count(q, {Event("CompletedPackets", x)})
                 /\ a # Event("CompletedPackets", x)
      <4>1. SUFFICES ASSUME NEW x
                     PROVE  /\ Count(h2c', {Acl(x)}) = Count(h2c, {Acl(x)})
                            /\ Count(r, {Event("CompletedPackets", x)})
                                 = Count(q, {Event("CompletedPackets", x)})
                            /\ a # Event("CompletedPackets", x)
        OBVIOUS
      <4>2. p # Acl(x)
        BY DEF Commands, Acl
      <4>3. a # Event("CompletedPackets", x)
        <5>1. a.code # "CompletedPackets"
          BY EventKinds DEF Events
        <5> QED BY <5>1 DEF Event
      <4> DEFINE A == {Acl(x)}
                 E == {Event("CompletedPackets", x)}
      <4>4. p \notin A /\ a \notin E
        BY <4>2, <4>3
      <4> HIDE DEF A, E
      <4>5. Count(h2c, A) = 0 + Count(Tail(h2c), A) /\ Count(Tail(h2c), A) \in Nat
        BY <1>0, <1>1, <4>4, CountTail, CountType DEF TypeOK
      <4>6. Count(out', E) = 0
        <5>1. out' = <<a>>
          BY <3>1, <1>2
        <5>2. Count(<<a>>, E) = 0
          BY <4>4, CountOne
        <5> QED BY <5>1, <5>2
      <4>7. Count(r, E) = Count(q, E) + 0 /\ Count(q, E) \in Nat
        BY <1>0, <1>3, <4>6, CountType, OutgoingFacts
      <4> QED BY <4>3, <4>5, <4>7 DEF A, E
    <3>5. CreditsOnTheWay' = CreditsOnTheWay
      BY <1>0, <3>4 DEF CreditsOnTheWay
    <3>6. view # 0 => \A i \in 1 .. Len(r) : Current(r[i])
      BY <1>3, <3>2, <3>3 DEF LinkedInv
    <3>7. ASSUME NEW k \in 1 .. Len(r), Connecting(r[k])
          PROVE  /\ \A i \in k + 1 .. Len(r) : Current(r[i])
                 /\ \A i \in 1 .. Len(r) : r[i] # Event("CompletedPackets", link)
      <4>1. k \in 1 .. n /\ Connecting(q[k])
        BY <2>3, <3>7
      <4>2. \A i \in k + 1 .. Len(r) : i \in k + 1 .. n \/ i = n + 1
        BY <1>3, <3>2, <4>1
      <4>3. \A i \in k + 1 .. n : i \in 1 .. n
        BY <1>3, <4>1
      <4> QED BY <1>3, <3>2, <3>3, <3>4, <4>1, <4>2, <4>3 DEF LinkedInv
    <3> QED BY <1>0, <3>2, <3>5, <3>6, <3>7 DEF LinkedInv, Current
  <2> QED BY <2>5, <2>7, <2>8
<1> QED BY <1>0, <1>6, <1>7, <1>9, <1>10, <1>11, <1>12 DEF IInv

-----------------------------------------------------------------------------
(***************************************************************************)
(* The runner's steps.                                                     *)
(***************************************************************************)
\* Steps that leave the Host, the queue towards the runner and the sequence
\* on its way to the Host alone.
LEMMA QuietKeeps ==
  ASSUME IInv, TypeOK', ModeInv', Outgoing' = Outgoing,
         UNCHANGED <<h2c, enabled, link, announced, hostVars>>,
         acl' = acl \/ acl' = << >>, Linked' => Linked /\ acl' = acl,
         mode' = "Advertising" => NoAcl
  PROVE  IInv'
<1> DEFINE q == Outgoing
<1>0. /\ CommandInv /\ OrderInv(q) /\ ToldInv(q)
      /\ UNCHANGED <<command, writer, acl_writer, view, advertises, unacked, reenabled>>
      /\ UNCHANGED <<h2c, enabled, link, announced>> /\ Outgoing' = q
  BY DEF IInv, hostVars
<1>1. CommandInv'
  BY <1>0 DEF CommandInv, AnsweredExactlyOnce, CommandsOnTheWay, AnswersOnTheWay
<1>2. OrderInv(Outgoing)'
  <2> HIDE DEF q
  <2> QED BY <1>0 DEF OrderInv
<1>3. ToldInv(Outgoing)'
  <2> HIDE DEF q
  <2> QED BY <1>0 DEF ToldInv
<1>4. ASSUME ~reenabled
      PROVE  HostInv(Outgoing)' /\ AclInv(Outgoing)' /\ (Linked' => LinkedInv(Outgoing)')
  <2>1. HostInv(q) /\ AclInv(q) /\ (Linked => LinkedInv(q))
    BY <1>4 DEF IInv
  <2>2. Enabling' <=> Enabling
    BY <1>0 DEF Enabling
  <2>3. NoAcl => NoAcl'
    BY <1>0 DEF NoAcl
  <2>4. Linked' => CreditsOnTheWay' = CreditsOnTheWay
    BY <1>0 DEF CreditsOnTheWay
  <2> HIDE DEF q
  <2>5. HostInv(Outgoing)'
    BY <1>0, <2>1, <2>2 DEF HostInv
  <2>6. \A i \in 1 .. Len(acl') : acl'[i] = link
    <3>1. CASE acl' = acl
      BY <2>1, <3>1 DEF AclInv
    <3>2. CASE acl' = << >>
      <4>1. Len(acl') = 0
        BY <3>2
      <4> QED BY <4>1
    <3> QED BY <3>1, <3>2
  <2>7. AclInv(Outgoing)'
    BY <1>0, <2>1, <2>3, <2>6 DEF AclInv
  <2>8. ASSUME Linked' PROVE LinkedInv(Outgoing)'
    BY <1>0, <2>1, <2>4, <2>8 DEF LinkedInv, Current
  <2> QED BY <2>5, <2>7, <2>8
<1> QED BY <1>0, <1>1, <1>2, <1>3, <1>4 DEF IInv

\* A packet of ACL data leaves the queue towards the runner, dropped outside
\* a connection and queued on the link in one.
LEMMA AclTakenKeeps ==
  ASSUME IInv, h2c # << >>, Head(h2c) \in AclPackets, h2c' = Tail(h2c),
         UNCHANGED <<c2h, out, mode, maskVars, enabled, link_connected, link, terminating,
                     announced, hostVars>>,
         \/ mode = "Standby" /\ acl' = acl
         \/ mode = "Connection" /\ acl' = Append(acl, Head(h2c).link)
  PROVE  IInv'
<1> DEFINE q == Outgoing
           p == Head(h2c)
<1>0. /\ TypeOK /\ ModeInv /\ CommandInv /\ OrderInv(q) /\ ToldInv(q)
      /\ UNCHANGED <<command, writer, acl_writer, view, advertises, unacked, reenabled>>
      /\ UNCHANGED <<c2h, out, mode, enabled, link_connected, link, terminating, announced>>
      /\ UNCHANGED <<event_mask, le_event_mask>> /\ Outgoing' = q
  BY DEF IInv, hostVars, maskVars, Outgoing
<1>1. /\ Len(h2c) \in Nat /\ Len(h2c) > 0 /\ p = h2c[1] /\ p \in Packets
      /\ h2c' \in Seq(Packets) /\ Len(h2c') = Len(h2c) - 1
      /\ \A i \in 1 .. Len(h2c') : i + 1 \in 1 .. Len(h2c) /\ h2c'[i] = h2c[i + 1]
  <2>1. /\ Len(h2c) \in Nat /\ Len(h2c) > 0 /\ p = h2c[1] /\ p \in Packets
        /\ Tail(h2c) \in Seq(Packets) /\ Len(Tail(h2c)) = Len(h2c) - 1
        /\ \A i \in 1 .. Len(h2c) - 1 : Tail(h2c)[i] = h2c[i + 1]
    BY <1>0, TailFacts DEF TypeOK
  <2> HIDE DEF p
  <2> QED BY <2>1
<1>2. p.link \in Links /\ p = Acl(p.link) /\ p \notin Commands
  BY <1>1, PacketKinds
<1>3. \A S : Count(h2c, S) = (IF p \in S THEN 1 ELSE 0) + Count(h2c', S)
  BY <1>0, CountTail DEF TypeOK
<1>4. \A S : Count(h2c', S) \in Nat
  BY <1>1, CountType
<1> HIDE DEF p
<1>5. TypeOK'
  <2>1. acl' \in Seq(Links)
    <3>1. acl \in Seq(Links) /\ (acl' = acl \/ acl' = Append(acl, p.link))
      BY <1>0 DEF TypeOK, p
    <3>2. Append(acl, p.link) \in Seq(Links)
      BY <1>2, <3>1, AppendFacts
    <3> QED BY <3>1, <3>2
  <2>2. Len(h2c') <= HostCapacity
    BY <1>0, <1>1, CapacityAssumption DEF TypeOK
  <2>3. h2c' \in Seq(Packets)
    BY <1>1
  <2> HIDE DEF q
  <2> QED BY <1>0, <2>1, <2>2, <2>3 DEF TypeOK
<1>6. ModeInv'
  BY <1>0 DEF ModeInv
<1>7. CommandInv'
  <2>1. Count(h2c', Commands) = Count(h2c, Commands)
    BY <1>2, <1>3, <1>4
  <2>2. AnsweredExactlyOnce'
    BY <1>0, <2>1 DEF CommandInv, AnsweredExactlyOnce, CommandsOnTheWay, AnswersOnTheWay
  <2> QED BY <1>0, <1>1, <2>2 DEF CommandInv
<1>8. OrderInv(Outgoing)' /\ ToldInv(Outgoing)'
  <2> HIDE DEF q
  <2> QED BY <1>0 DEF OrderInv, ToldInv, Linked
<1>9. ASSUME ~reenabled
      PROVE  HostInv(Outgoing)' /\ AclInv(Outgoing)' /\ (Linked' => LinkedInv(Outgoing)')
  <2>1. HostInv(q) /\ AclInv(q) /\ (Linked => LinkedInv(q))
    BY <1>9 DEF IInv
  <2>2. Enabling' => Enabling
    BY <1>0, <1>1 DEF Enabling
  <2>3. ~NoAcl /\ p.link = link
    <3>1. 1 \in 1 .. Len(h2c) /\ h2c[1] \in AclPackets
      BY <1>1 DEF p
    <3> QED BY <1>1, <2>1, <3>1 DEF NoAcl, AclInv
  <2> HIDE DEF q
  <2>4. HostInv(Outgoing)'
    BY <1>0, <2>1, <2>2 DEF HostInv
  <2>5. \A i \in 1 .. Len(acl') : acl'[i] = link
    <3>1. acl \in Seq(Links) /\ \A i \in 1 .. Len(acl) : acl[i] = link
      BY <1>0, <2>1 DEF TypeOK, AclInv
    <3>2. CASE acl' = Append(acl, p.link)
      <4>1. /\ Len(acl') = Len(acl) + 1 /\ Len(acl) \in Nat /\ acl'[Len(acl) + 1] = p.link
            /\ \A i \in 1 .. Len(acl) : acl'[i] = acl[i]
        BY <1>2, <3>1, <3>2, AppendFacts
      <4>2. \A i \in 1 .. Len(acl') : i \in 1 .. Len(acl) \/ i = Len(acl) + 1
        BY <4>1
      <4> QED BY <2>3, <3>1, <4>1, <4>2
    <3> QED BY <3>1, <3>2 DEF p
  <2>6. AclInv(Outgoing)'
    BY <1>0, <1>1, <2>1, <2>3, <2>5 DEF AclInv
  <2>7. ASSUME Linked' PROVE LinkedInv(Outgoing)'
    <3>1. Linked /\ Len(acl') = Len(acl) + 1 /\ Len(acl) \in Nat
      <4>1. mode = "Connection" /\ acl' = Append(acl, p.link) /\ acl \in Seq(Links)
        BY <1>0, <2>7 DEF Linked, TypeOK, p
      <4>2. Len(acl') = Len(acl) + 1 /\ Len(acl) \in Nat
        BY <1>2, <4>1, AppendFacts
      <4> QED BY <4>1, <4>2 DEF Linked
    <3>2. view # 0 => CreditsOnTheWay' = CreditsOnTheWay
      <4>1. SUFFICES ASSUME view # 0 PROVE CreditsOnTheWay' = CreditsOnTheWay
        OBVIOUS
      <4>2. p = Acl(view)
        BY <1>2, <2>1, <2>3, <4>1 DEF HostInv
      <4> DEFINE A == {Acl(view)}
                 w == IF acl_writer = Acl(view) THEN 1 ELSE 0
                 c == Count(q, {Event("CompletedPackets", view)})
      <4>3. Count(h2c, A) = 1 + Count(h2c', A) /\ Count(h2c', A) \in Nat
        BY <1>3, <1>4, <4>2
      <4>4. w \in Nat /\ c \in Nat
        BY <1>0, OutgoingFacts, CountType DEF q
      <4>5. CreditsOnTheWay = w + Count(h2c, A) + Len(acl) + c
        BY DEF CreditsOnTheWay, q
      <4>6. CreditsOnTheWay' = w + Count(h2c', A) + Len(acl') + c
        BY <1>0 DEF CreditsOnTheWay, q
      <4> HIDE DEF A, w, c
      <4> QED BY <3>1, <4>3, <4>4, <4>5, <4>6
    <3> QED BY <1>0, <2>1, <3>1, <3>2 DEF LinkedInv, Current
  <2> QED BY <2>4, <2>6, <2>7
<1> QED BY <1>0, <1>5, <1>6, <1>7, <1>8, <1>9 DEF IInv

\* What a connection sends of its own accord: nothing that announces a link,
\* a Disconnection only when it closes, and a credit for each packet that
\* leaves its queue.
Sends ==
  /\ mode' \in {"Connection", "Event", "Closing"}
  /\ \A i \in 1 .. Len(out') : /\ ~Connecting(out'[i]) /\ out'[i].link = link
                               /\ out'[i].code = "Disconnection" => mode' = "Closing"
  /\ acl' = acl \/ (acl # << >> /\ acl' = Tail(acl))
  /\ Len(acl') + Count(out', {Event("CompletedPackets", link)}) = Len(acl)

\* What a connection sends of its own accord keeps the invariant.
LEMMA NoticesKeep ==
  ASSUME IInv, out = << >>, Linked, out' \in Seq(Notices), Sends,
         UNCHANGED <<queueVars, maskVars, enabled, link_connected, link, terminating,
                     announced, hostVars>>
  PROVE  IInv'
<1> DEFINE q == Outgoing
           r == Outgoing'
           n == Len(q)
           m == Len(r)
<1>0. /\ TypeOK /\ ModeInv /\ CommandInv /\ OrderInv(q) /\ ToldInv(q)
      /\ UNCHANGED <<command, writer, acl_writer, view, advertises, unacked, reenabled>>
      /\ UNCHANGED <<h2c, c2h, enabled, link_connected, link, terminating, announced>>
      /\ UNCHANGED <<event_mask, le_event_mask>>
  BY DEF IInv, hostVars, maskVars, queueVars
<1>1. /\ out' \in Seq(Events) /\ Len(out') \in Nat
      /\ \A i \in 1 .. Len(out') : /\ out'[i] \in Notices /\ out'[i] \notin Answers
                                   /\ Clears(out'[i]) => mode' = "Closing"
                                   /\ ~Connecting(out'[i]) /\ out'[i].link = link
  <2>1. out' \in Seq(Events)
    BY DEF Events
  <2>2. \A i \in 1 .. Len(out') : out'[i] \in Notices /\ out'[i] \notin Answers
    BY EventKinds DEF Events
  <2> QED BY <2>1, <2>2 DEF Sends, Clears
<1>2. /\ r \in Seq(Events) /\ m = n + Len(out') /\ n \in Nat /\ m \in Nat /\ n <= m
      /\ \A i \in 1 .. n : r[i] = q[i]
      /\ \A i \in n + 1 .. m : i - n \in 1 .. Len(out') /\ r[i] = out'[i - n]
      /\ \A S : Count(r, S) = Count(q, S) + Count(out', S)
  <2>1. /\ r \in Seq(Events) /\ m = n + Len(out') /\ n \in Nat
        /\ \A i \in 1 .. n : r[i] = q[i]
        /\ \A i \in n + 1 .. m : i - n \in 1 .. Len(out') /\ r[i] = out'[i - n]
        /\ \A S : Count(r, S) = Count(q, S) + Count(out', S)
    BY <1>0, <1>1, Extended
  <2> HIDE DEF q, r, n, m
  <2> QED BY <1>1, <2>1
<1>3. /\ \A i \in 1 .. m : i \in 1 .. n \/ i \in n + 1 .. m
      /\ \A i \in 1 .. n : i \in 1 .. m
  <2> HIDE DEF q, r, n, m
  <2> QED BY <1>2
<1>4. \A i \in n + 1 .. m : /\ r[i] \in Notices /\ r[i] \notin Answers
                            /\ Clears(r[i]) => mode' = "Closing"
                            /\ ~Connecting(r[i]) /\ r[i].link = link
  <2> HIDE DEF q, r, n, m
  <2> QED BY <1>1, <1>2
<1>5. /\ Len(acl) \in Nat /\ acl' \in Seq(Links) /\ Len(acl') <= Len(acl) /\ Len(acl') \in Nat
      /\ \A i \in 1 .. Len(acl') : acl'[i] = acl[i] \/ (i + 1 \in 1 .. Len(acl) /\ acl'[i] = acl[i + 1])
  <2>1. acl \in Seq(Links)
    BY <1>0 DEF TypeOK
  <2>2. CASE acl' = acl
    BY <2>1, <2>2
  <2>3. CASE acl # << >> /\ acl' = Tail(acl)
    <3>1. /\ Len(acl) \in Nat /\ Len(acl) > 0 /\ Tail(acl) \in Seq(Links)
          /\ Len(Tail(acl)) = Len(acl) - 1
          /\ \A i \in 1 .. Len(acl) - 1 : Tail(acl)[i] = acl[i + 1]
      BY <2>1, <2>3, TailFacts
    <3> QED BY <2>3, <3>1
  <2> QED BY <2>2, <2>3 DEF Sends
<1>6. TypeOK'
  <2>1. mode' \in {"Standby", "Advertising", "Connection", "Event", "Closing"}
    BY DEF Sends
  <2> HIDE DEF q, r, n, m
  <2> QED BY <1>0, <1>1, <1>5, <2>1 DEF TypeOK
<1>7. ModeInv'
  BY <1>0 DEF ModeInv, Sends, Linked
<1>8. Count(r, Answers) = Count(q, Answers)
  <2>1. Count(out', Answers) = 0
    BY <1>1, CountNone
  <2>2. Count(q, Answers) \in Nat
    BY <1>0, OutgoingFacts, CountType
  <2>3. Count(r, Answers) = Count(q, Answers) + Count(out', Answers)
    BY <1>2
  <2> HIDE DEF q, r
  <2> QED BY <2>1, <2>2, <2>3
<1>9. CommandInv'
  <2>1. \A i \in 1 .. m : r[i] \in Answers => r[i].op = command
    <3>1. \A i \in 1 .. n : q[i] \in Answers => q[i].op = command
      BY <1>0 DEF CommandInv, AnsweredExactlyOnce
    <3> HIDE DEF q, r, n, m
    <3> QED BY <1>2, <1>3, <1>4, <3>1
  <2>2. AnsweredExactlyOnce'
    BY <1>0, <1>8, <2>1 DEF CommandInv, AnsweredExactlyOnce, CommandsOnTheWay, AnswersOnTheWay
  <2> QED BY <1>0, <2>2 DEF CommandInv
<1>10. OrderInv(Outgoing)'
  <2>1. \A i \in 1 .. m : r[i] \in Notices => r[i].link <= link
    <3>1. link <= link
      BY <1>0 DEF TypeOK
    <3>2. \A i \in 1 .. n : q[i] \in Notices => q[i].link <= link
      BY <1>0 DEF OrderInv
    <3> HIDE DEF q, r, n, m
    <3> QED BY <1>2, <1>3, <1>4, <3>1, <3>2
  <2>2. ASSUME NEW k \in 1 .. m, r[k] \in Answers,
               r[k].op \in {"Reset", "Disable"} \/ Refusing(r[k])
        PROVE  ~enabled' /\ \A i \in k + 1 .. m : ~Connecting(r[i])
    <3>1. k \in 1 .. n /\ r[k] = q[k]
      BY <1>2, <1>3, <1>4, <2>2
    <3>2. ~enabled /\ \A i \in k + 1 .. n : ~Connecting(q[i])
      BY <1>0, <2>2, <3>1 DEF OrderInv
    <3> HIDE DEF q, r, n, m
    <3>3. \A i \in k + 1 .. m : (i \in k + 1 .. n /\ i \in 1 .. n) \/ i \in n + 1 .. m
      BY <1>2, <3>1
    <3> QED BY <1>0, <1>2, <1>4, <3>2, <3>3
  <2> QED BY <1>0, <2>1, <2>2 DEF OrderInv
<1>11. ToldInv(Outgoing)'
  <2>1. ASSUME NEW l \in Nat, NEW k \in Nat, l <= k, KnowsAfter(view, q, l),
               \A i \in 1 .. l : r[i] = q[i], \A j \in l + 1 .. k : ~Clears(r[j])
        PROVE  KnowsAfter(view, r, k)
    <3> HIDE DEF q, r, n, m
    <3> QED BY <2>1, KnowsLonger
  <2>2. ASSUME mode' \in {"Connection", "Event"}, announced
        PROVE  KnowsAfter(view, r, m)
    <3>1. KnowsAfter(view, q, n)
      BY <1>0, <2>2 DEF ToldInv
    <3>2. \A j \in n + 1 .. m : ~Clears(r[j])
      BY <1>4, <2>2
    <3> HIDE DEF q, r, n, m
    <3> QED BY <1>2, <2>1, <3>1, <3>2
  <2>3. ASSUME NEW k \in 1 .. m, r[k] \in Answers, Refusing(r[k]), announced
        PROVE  KnowsAfter(view, r, k - 1)
    <3>1. k \in 1 .. n /\ r[k] = q[k]
      BY <1>2, <1>3, <1>4, <2>3
    <3>2. KnowsAfter(view, q, k - 1)
      BY <1>0, <2>3, <3>1 DEF ToldInv
    <3> DEFINE l == k - 1
    <3> HIDE DEF q, r, n, m
    <3>3. /\ l \in Nat /\ l <= l /\ KnowsAfter(view, q, l)
          /\ \A i \in 1 .. l : r[i] = q[i] /\ \A j \in l + 1 .. l : ~Clears(r[j])
      BY <1>2, <3>1, <3>2
    <3> HIDE DEF l
    <3>4. KnowsAfter(view, r, l)
      BY <2>1, <3>3
    <3> QED BY <3>4 DEF l
  <2> QED BY <1>0, <2>2, <2>3 DEF ToldInv, Linked
<1>12. ASSUME ~reenabled
       PROVE  HostInv(Outgoing)' /\ AclInv(Outgoing)' /\ (Linked' => LinkedInv(Outgoing)')
  <2>1. HostInv(q) /\ AclInv(q) /\ LinkedInv(q)
    BY <1>12 DEF IInv
  <2>2. Enabling' <=> Enabling
    BY <1>0 DEF Enabling
  <2>3. \A k \in 1 .. m : Connecting(r[k]) => k \in 1 .. n /\ Connecting(q[k])
    BY <1>2, <1>3, <1>4
  <2>4. HostInv(Outgoing)'
    <3>1. \A k \in 1 .. m : r[k] \in Answers => k \in 1 .. n /\ r[k] = q[k]
      BY <1>2, <1>3, <1>4
    <3>2. ASSUME NEW k \in 1 .. m, r[k] \in Answers, r[k].op = "Enable", r[k].status = "Success"
          PROVE  advertises /\ view = 0 /\ \A i \in 1 .. k - 1 : ~Connecting(r[i])
      <4>1. k \in 1 .. n /\ \A i \in 1 .. k - 1 : ~Connecting(q[i])
        BY <2>1, <3>1, <3>2 DEF HostInv
      <4>2. \A i \in 1 .. k - 1 : i \in 1 .. n
        BY <1>2, <4>1
      <4> QED BY <1>2, <2>1, <3>1, <3>2, <4>1, <4>2 DEF HostInv
    <3>3. ASSUME NEW k \in 1 .. m, Connecting(r[k])
          PROVE  /\ advertises /\ view = 0 /\ r[k].link = link
                 /\ \A i \in 1 .. m : Connecting(r[i]) => i = k
      <4>1. k \in 1 .. n /\ Connecting(q[k]) /\ r[k] = q[k]
        BY <1>2, <2>3, <3>3
      <4> QED BY <2>1, <2>3, <4>1 DEF HostInv
    <3>4. view \in {0, link} /\ ~(enabled /\ Enabling)
      BY <2>1 DEF HostInv
    <3>5. enabled \/ Enabling => advertises /\ view = 0 /\ \A i \in 1 .. m : ~Connecting(r[i])
      BY <2>1, <2>3 DEF HostInv
    <3> QED BY <1>0, <2>2, <3>2, <3>3, <3>4, <3>5 DEF HostInv
  <2>5. AclInv(Outgoing)'
    <3>1. NoAcl => NoAcl'
      BY <1>0 DEF NoAcl, Sends
    <3>2. \A i \in 1 .. Len(acl') : acl'[i] = link
      <4>1. \A i \in 1 .. Len(acl) : acl[i] = link
        BY <2>1 DEF AclInv
      <4>2. \A i \in 1 .. Len(acl') : i \in 1 .. Len(acl)
        BY <1>5
      <4> QED BY <1>5, <4>1, <4>2
    <3>3. mode' # "Advertising"
      BY DEF Sends
    <3> QED BY <1>0, <2>1, <2>3, <3>1, <3>2, <3>3 DEF AclInv
  <2>6. ASSUME Linked' PROVE LinkedInv(Outgoing)'
    <3>1. \A i \in n + 1 .. m : Current(r[i])
      BY <1>4, <2>6 DEF Current, Linked
    <3> DEFINE E == {Event("CompletedPackets", link)}
    <3>2. /\ Count(r, E) = Count(q, E) + Count(out', E) /\ Count(q, E) \in Nat
          /\ Count(out', E) \in Nat /\ Len(acl') + Count(out', E) = Len(acl)
      BY <1>0, <1>1, <1>2, OutgoingFacts, CountType DEF Sends
    <3>3. ASSUME view # 0
          PROVE  /\ \A i \in 1 .. m : Current(r[i])
                 /\ unacked' = CreditsOnTheWay'
      <4>1. view = link /\ unacked = CreditsOnTheWay /\ \A i \in 1 .. n : Current(q[i])
        BY <2>1, <3>3 DEF HostInv, LinkedInv
      <4> DEFINE w == IF acl_writer = Acl(view) THEN 1 ELSE 0
                 c == Count(h2c, {Acl(view)})
      <4>2. w \in Nat /\ c \in Nat
        BY <1>0, QueueFacts, CountType
      <4>3. CreditsOnTheWay = w + c + Len(acl) + Count(q, E)
        BY <4>1 DEF CreditsOnTheWay
      <4>4. CreditsOnTheWay' = w + c + Len(acl') + Count(r, E)
        BY <1>0, <4>1 DEF CreditsOnTheWay
      <4> HIDE DEF E, w, c, q, r, n, m
      <4>5. CreditsOnTheWay' = CreditsOnTheWay
        BY <1>5, <3>2, <4>2, <4>3, <4>4
      <4> QED BY <1>0, <1>2, <1>3, <3>1, <4>1, <4>5
    <3>4. ASSUME NEW k \in 1 .. m, Connecting(r[k])
          PROVE  /\ \A i \in k + 1 .. m : Current(r[i])
                 /\ \A i \in 1 .. m : r[i] # Event("CompletedPackets", link)
      <4>1. k \in 1 .. n /\ Connecting(q[k])
        BY <2>3, <3>4
      <4>2. /\ \A i \in k + 1 .. n : Current(q[i])
            /\ \A i \in 1 .. n : q[i] # Event("CompletedPackets", link)
        BY <2>1, <4>1 DEF LinkedInv
      <4>3. Len(acl) = 0
        BY <2>1, <4>1 DEF AclInv, NoAcl
      <4>4. Count(q, E) = 0
        <5>1. \A i \in 1 .. n : q[i] \notin E
          BY <4>2
        <5> HIDE DEF E
        <5> QED BY <1>0, <5>1, OutgoingFacts, CountNone
      <4>5. Count(r, E) = 0
        BY <1>5, <3>2, <4>3, <4>4
      <4>6. \A i \in 1 .. m : r[i] \notin E
        BY <1>2, <4>5, CountNone
      <4>7. \A i \in 1 .. m : r[i] # Event("CompletedPackets", link)
        BY <4>6
      <4> HIDE DEF E, q, r, n, m
      <4>8. \A i \in k + 1 .. m : (i \in k + 1 .. n /\ i \in 1 .. n) \/ i \in n + 1 .. m
        BY <1>2, <4>1
      <4> QED BY <1>2, <3>1, <4>2, <4>7, <4>8
    <3> HIDE DEF E
    <3> QED BY <1>0, <3>3, <3>4 DEF LinkedInv, Current
  <2> QED BY <2>4, <2>5, <2>6
<1> QED BY <1>0, <1>6, <1>7, <1>9, <1>10, <1>11, <1>12 DEF IInv

\* A new link is announced behind everything that concerns older ones, to a
\* Host that advertises and knows of no link.
LEMMA ConnectsKeeps ==
  ASSUME IInv, Connects
  PROVE  IInv'
<1> DEFINE q == Outgoing
           r == Outgoing'
           n == Len(q)
           m == Len(r)
<1>0. /\ TypeOK /\ ModeInv /\ CommandInv /\ OrderInv(q) /\ ToldInv(q)
      /\ UNCHANGED <<command, writer, acl_writer, view, advertises, unacked, reenabled>>
      /\ UNCHANGED <<h2c, c2h, event_mask, le_event_mask>>
  BY DEF IInv, Connects, hostVars, maskVars, queueVars
<1>1. /\ mode = "Advertising" /\ mode' = "Connection" /\ enabled /\ out = << >> /\ enabled' = FALSE
      /\ link_connected' = TRUE /\ link' = link + 1 /\ link \in Nat /\ link' \in Links
      /\ acl' = << >> /\ terminating' = FALSE /\ announced' \in BOOLEAN
      /\ out' = IF announced' THEN <<Event("ConnectionComplete", link')>> ELSE << >>
  <2>1. /\ mode = "Advertising" /\ link < MaxLinks /\ link \in 0 .. MaxLinks
        /\ announced' = EventEnabled("ConnectionComplete", event_mask, le_event_mask)
        /\ mode' = "Connection" /\ enabled' = FALSE /\ link_connected' = TRUE
        /\ link' = link + 1 /\ acl' = << >> /\ terminating' = FALSE
        /\ out' = IF announced' THEN <<Event("ConnectionComplete", link')>> ELSE << >>
    BY <1>0 DEF Connects, TypeOK
  <2>2. EventEnabled("ConnectionComplete", event_mask, le_event_mask) \in BOOLEAN
    BY DEF EventEnabled
  <2>3. enabled /\ out = << >>
    BY <1>0, <2>1 DEF ModeInv
  <2>4. link \in Nat /\ link' \in Links
    BY <2>1, CapacityAssumption DEF Links
  <2> QED BY <2>1, <2>2, <2>3, <2>4
<1> DEFINE e == Event("ConnectionComplete", link')
<1>2. /\ e \in Notices /\ e \in Events /\ e \notin Answers /\ e.link = link' /\ Connecting(e)
      /\ ~Clears(e) /\ e # Event("CompletedPackets", link')
  <2> DEFINE code == "ConnectionComplete"
             l == link'
  <2>1. code \in LeMeta \cup {"Disconnection", "CompletedPackets", "AclData"} /\ l \in Links
    BY <1>1 DEF LeMeta
  <2> HIDE DEF code, l
  <2>2. /\ Event(code, l) \in Notices /\ Event(code, l) \in Events
        /\ Event(code, l).code = code /\ Event(code, l).link = l
    BY <2>1, NoticeFacts
  <2>3. e \in Notices /\ e \in Events /\ e.code = "ConnectionComplete" /\ e.link = link'
    BY <2>2 DEF code, l
  <2>4. e \notin Answers
    BY <2>3, EventKinds
  <2>5. e # Event("CompletedPackets", link')
    BY DEF Event
  <2> HIDE DEF e
  <2> QED BY <2>3, <2>4, <2>5 DEF Connecting, Clears
<1>3. /\ out' \in Seq(Events) /\ Len(out') = IF announced' THEN 1 ELSE 0
      /\ \A i \in 1 .. Len(out') : i = 1 /\ out'[i] = e
  <2> HIDE DEF e
  <2>1. CASE announced'
    <3>1. out' = <<e>>
      BY <1>1, <2>1 DEF e
    <3> QED BY <1>2, <2>1, <3>1
  <2>2. CASE ~announced'
    <3>1. out' = << >>
      BY <1>1, <2>2
    <3> QED BY <2>2, <3>1
  <2> QED BY <2>1, <2>2
<1>4. /\ r \in Seq(Events) /\ n \in Nat /\ m = n + (IF announced' THEN 1 ELSE 0)
      /\ \A i \in 1 .. n : r[i] = q[i]
      /\ \A i \in n + 1 .. m : i = n + 1 /\ announced' /\ r[i] = e
      /\ \A S : Count(r, S) = Count(q, S) + Count(out', S)
  <2>1. /\ r \in Seq(Events) /\ m = n + Len(out') /\ n \in Nat
        /\ \A i \in 1 .. n : r[i] = q[i]
        /\ \A i \in n + 1 .. m : i - n \in 1 .. Len(out') /\ r[i] = out'[i - n]
        /\ \A S : Count(r, S) = Count(q, S) + Count(out', S)
    BY <1>0, <1>1, <1>3, Extended
  <2> HIDE DEF q, r, n, m, e
  <2> QED BY <1>3, <2>1
<1>5. /\ \A i \in 1 .. m : i \in 1 .. n \/ i \in n + 1 .. m
      /\ \A i \in 1 .. n : i \in 1 .. m
  <2> HIDE DEF q, r, n, m
  <2> QED BY <1>4
<1>6. \A i \in 1 .. n : q[i] \in Events
  BY <1>0, OutgoingFacts
<1>7. TypeOK'
  <2>1. acl' \in Seq(Links) /\ link' \in 0 .. MaxLinks
    BY <1>1 DEF Links
  <2> HIDE DEF q, r, n, m, e
  <2> QED BY <1>0, <1>1, <1>3, <2>1 DEF TypeOK
<1>8. ModeInv'
  BY <1>1 DEF ModeInv
<1>9. CommandInv'
  <2>1. Count(r, Answers) = Count(q, Answers)
    <3>1. Count(out', Answers) = 0
      <4>1. \A i \in 1 .. Len(out') : out'[i] \notin Answers
        BY <1>2, <1>3
      <4> QED BY <1>3, <4>1, CountNone
    <3>2. Count(q, Answers) \in Nat
      BY <1>0, OutgoingFacts, CountType
    <3>3. Count(r, Answers) = Count(q, Answers) + Count(out', Answers)
      BY <1>4
    <3> HIDE DEF q, r
    <3> QED BY <3>1, <3>2, <3>3
  <2>2. \A i \in 1 .. m : r[i] \in Answers => r[i].op = command
    <3>1. \A i \in 1 .. n : q[i] \in Answers => q[i].op = command
      BY <1>0 DEF CommandInv, AnsweredExactlyOnce
    <3> HIDE DEF q, r, n, m, e
    <3> QED BY <1>2, <1>4, <1>5, <3>1
  <2>3. AnsweredExactlyOnce'
    BY <1>0, <2>1, <2>2 DEF CommandInv, AnsweredExactlyOnce, CommandsOnTheWay, AnswersOnTheWay
  <2> QED BY <1>0, <2>3 DEF CommandInv
<1>10. \A k \in 1 .. m : r[k] \in Answers =>
         /\ k \in 1 .. n /\ r[k] = q[k]
         /\ r[k].op \notin {"Reset", "Disable"} /\ ~Refusing(r[k])
  <2>1. \A k \in 1 .. n : q[k] \in Answers =>
          q[k].op \notin {"Reset", "Disable"} /\ ~Refusing(q[k])
    BY <1>0, <1>1 DEF OrderInv
  <2> HIDE DEF q, r, n, m, e
  <2> QED BY <1>2, <1>4, <1>5, <2>1
<1>11. OrderInv(Outgoing)'
  <2>1. \A i \in 1 .. n : q[i] \in Notices => q[i].link <= link /\ q[i].link \in Nat
    BY <1>0, <1>6, EventKinds DEF OrderInv, Links
  <2>2. link' <= link'
    BY <1>1
  <2>3. \A i \in 1 .. m : r[i] \in Notices => r[i].link <= link'
    <3> HIDE DEF q, r, n, m, e
    <3> QED BY <1>1, <1>2, <1>4, <1>5, <2>1, <2>2
  <2> HIDE DEF e
  <2> QED BY <1>10, <2>3 DEF OrderInv
<1>12. ToldInv(Outgoing)'
  <2>1. ASSUME announced' PROVE KnowsAfter(view, r, m)
    <3> HIDE DEF q, r, n, m, e
    <3>1. n + 1 \in 1 .. m /\ r[n + 1] = e
      BY <1>4, <2>1
    <3>2. \A j \in (n + 1) + 1 .. m : ~Clears(r[j])
      BY <1>4, <2>1
    <3> QED BY <1>2, <3>1, <3>2 DEF KnowsAfter
  <2> HIDE DEF e
  <2> QED BY <1>0, <1>10, <2>1 DEF ToldInv
<1>13. ASSUME ~reenabled
       PROVE  HostInv(Outgoing)' /\ AclInv(Outgoing)' /\ (Linked' => LinkedInv(Outgoing)')
  <2>1. HostInv(q) /\ AclInv(q)
    BY <1>13 DEF IInv
  <2>2. ~Enabling' /\ advertises /\ view = 0 /\ \A i \in 1 .. n : ~Connecting(q[i])
    BY <1>0, <1>1, <2>1 DEF Enabling, HostInv
  <2>3. \A k \in 1 .. m : Connecting(r[k]) => k = n + 1 /\ r[k] = e
    <3> HIDE DEF q, r, n, m, e
    <3> QED BY <1>4, <1>5, <2>2
  <2>4. HostInv(Outgoing)'
    <3>1. \A k \in 1 .. m : r[k] \in Answers => \A i \in 1 .. k - 1 : ~Connecting(r[i])
      <4> SUFFICES ASSUME NEW k \in 1 .. m, r[k] \in Answers, NEW i \in 1 .. k - 1
                   PROVE  ~Connecting(r[i])
        OBVIOUS
      <4>1. k \in 1 .. n
        BY <1>10
      <4> HIDE DEF q, r, n, m, e
      <4>2. i \in 1 .. n
        BY <1>4, <4>1
      <4> QED BY <1>4, <2>2, <4>2
    <3>2. \A k \in 1 .. m : Connecting(r[k]) =>
            r[k].link = link' /\ \A i \in 1 .. m : Connecting(r[i]) => i = k
      BY <1>2, <2>3
    <3> HIDE DEF e
    <3> QED BY <1>0, <1>1, <2>2, <3>1, <3>2 DEF HostInv
  <2>5. AclInv(Outgoing)'
    <3>1. NoAcl
      BY <1>1, <2>1 DEF AclInv
    <3>2. NoAcl' /\ Len(acl') = 0
      BY <1>0, <1>1, <3>1 DEF NoAcl
    <3> QED BY <3>2 DEF AclInv, NoAcl
  <2>6. LinkedInv(Outgoing)'
    <3>1. ASSUME NEW k \in 1 .. m, Connecting(r[k])
          PROVE  /\ \A i \in k + 1 .. m : FALSE
                 /\ \A i \in 1 .. m : r[i] # Event("CompletedPackets", link')
      <4>1. k = n + 1
        BY <2>3, <3>1
      <4>2. \A i \in k + 1 .. m : FALSE
        <5> HIDE DEF q, r, n, m, e
        <5> QED BY <1>4, <4>1
      <4>3. \A i \in 1 .. n : q[i] # Event("CompletedPackets", link')
        <5> SUFFICES ASSUME NEW i \in 1 .. n, q[i] = Event("CompletedPackets", link')
                     PROVE  FALSE
          OBVIOUS
        <5>1. q[i] \in Notices /\ q[i].link = link'
          BY <1>1 DEF Event, Notices
        <5>2. q[i].link <= link
          BY <1>0, <5>1 DEF OrderInv
        <5> QED BY <1>1, <5>1, <5>2
      <4>4. \A i \in 1 .. m : r[i] # Event("CompletedPackets", link')
        <5> HIDE DEF q, r, n, m, e
        <5> QED BY <1>2, <1>4, <1>5, <4>3
      <4> QED BY <4>2, <4>4
    <3> HIDE DEF e
    <3>2. view' = 0
      BY <1>0, <2>2
    <3> QED BY <3>1, <3>2 DEF LinkedInv
  <2> QED BY <2>4, <2>5, <2>6
<1> HIDE DEF e
<1> QED BY <1>0, <1>7, <1>8, <1>9, <1>11, <1>12, <1>13 DEF IInv

\* Notices of the current link, with their codes, and the credits in them.
Ongoing == {"CompletedPackets", "AclData", "ConnectionUpdateComplete"}
Final == Ongoing \cup {"Disconnection"}
Tells(s, C) ==
  s \in Seq(Notices) /\ \A i \in 1 .. Len(s) : s[i].code \in C /\ s[i].link = link
Returned(s) == Count(s, {Event("CompletedPackets", link)})

\* Nothing tells nothing.
LEMMA TellsNothing ==
  ASSUME NEW C
  PROVE  Tells(<< >>, C) /\ Returned(<< >>) = 0
<1> DEFINE s == << >>
<1>1. s \in Seq(Notices) /\ Len(s) = 0
  OBVIOUS
<1> HIDE DEF s
<1>2. \A i \in 1 .. Len(s) : FALSE
  BY <1>1
<1>3. Count(s, {Event("CompletedPackets", link)}) = 0
  BY <1>1, <1>2, CountNone
<1> QED BY <1>1, <1>2, <1>3 DEF Tells, Returned, s

\* One notice of the current link.
LEMMA TellsOne ==
  ASSUME NEW C \in SUBSET Final, NEW code \in C, link \in Links
  PROVE  /\ Tells(<<Event(code, link)>>, C)
         /\ Returned(<<Event(code, link)>>) = IF code = "CompletedPackets" THEN 1 ELSE 0
<1> DEFINE e == Event(code, link)
           E == {Event("CompletedPackets", link)}
<1>1. e \in Notices /\ e.code = code /\ e.link = link
  <2>1. code \in LeMeta \cup {"Disconnection", "CompletedPackets", "AclData"}
    BY DEF Final, Ongoing, LeMeta
  <2> QED BY <2>1, NoticeFacts
<1>2. e \in E <=> code = "CompletedPackets"
  BY DEF Event
<1> HIDE DEF e, E
<1>3. Count(<<e>>, E) = IF e \in E THEN 1 ELSE 0
  BY <1>1, CountOne
<1>4. <<e>> \in Seq(Notices) /\ Len(<<e>>) = 1 /\ <<e>>[1] = e
  BY <1>1, OneFacts
<1>5. Tells(<<e>>, C)
  BY <1>1, <1>4 DEF Tells
<1> QED BY <1>2, <1>3, <1>5 DEF Returned, e, E

\* One thing told after another.
LEMMA TellsBoth ==
  ASSUME NEW C, NEW s, NEW t, Tells(s, C), Tells(t, C)
  PROVE  Tells(s \o t, C) /\ Returned(s \o t) = Returned(s) + Returned(t)
<1>1. s \in Seq(Notices) /\ t \in Seq(Notices)
  BY DEF Tells
<1>2. Returned(s \o t) = Returned(s) + Returned(t)
  BY <1>1, CountConcat DEF Returned
<1>3. /\ s \o t \in Seq(Notices) /\ Len(s \o t) = Len(s) + Len(t) /\ Len(s) \in Nat /\ Len(t) \in Nat
      /\ \A i \in 1 .. Len(s) : (s \o t)[i] = s[i]
      /\ \A i \in Len(s) + 1 .. Len(s) + Len(t) :
           i - Len(s) \in 1 .. Len(t) /\ (s \o t)[i] = t[i - Len(s)]
  BY <1>1
<1> DEFINE u == s \o t
<1> HIDE DEF u
<1>4. \A i \in 1 .. Len(u) : i \in 1 .. Len(s) \/ i \in Len(s) + 1 .. Len(s) + Len(t)
  BY <1>3 DEF u
<1>5. \A i \in 1 .. Len(u) : u[i].code \in C /\ u[i].link = link
  BY <1>3, <1>4 DEF Tells, u
<1> QED BY <1>2, <1>3, <1>5 DEF Tells, u

\* What passes the masks is told, and credits always pass.
LEMMA EmitTells ==
  ASSUME NEW C \in SUBSET Final, NEW code \in C, link \in Links
  PROVE  /\ Tells(Emit(code), C)
         /\ Returned(Emit(code)) = IF code = "CompletedPackets" THEN 1 ELSE 0
<1>1. CASE EventEnabled(code, event_mask, le_event_mask)
  <2>1. Emit(code) = <<Event(code, link)>>
    BY <1>1 DEF Emit
  <2> QED BY <2>1, TellsOne
<1>2. CASE ~EventEnabled(code, event_mask, le_event_mask)
  <2>1. Emit(code) = << >> /\ code # "CompletedPackets"
    BY <1>2 DEF Emit, EventEnabled, Bypassing
  <2> QED BY <2>1, TellsNothing
<1> QED BY <1>1, <1>2

\* A connection that tells what concerns it keeps the invariant.
LEMMA TellingKeeps ==
  ASSUME IInv, out = << >>, Linked, mode' \in {"Connection", "Event", "Closing"},
         NEW C \in {Ongoing, Final}, Tells(out', C), C = Final => mode' = "Closing",
         acl' = acl \/ (acl # << >> /\ acl' = Tail(acl)),
         Len(acl') + Returned(out') = Len(acl),
         UNCHANGED <<queueVars, maskVars, enabled, link_connected, link, terminating,
                     announced, hostVars>>
  PROVE  IInv'
<1>1. \A i \in 1 .. Len(out') : /\ ~Connecting(out'[i]) /\ out'[i].link = link
                                /\ out'[i].code = "Disconnection" => mode' = "Closing"
  <2> SUFFICES ASSUME NEW i \in 1 .. Len(out')
               PROVE  /\ ~Connecting(out'[i]) /\ out'[i].link = link
                      /\ out'[i].code = "Disconnection" => mode' = "Closing"
    OBVIOUS
  <2>1. out'[i].code \in C /\ out'[i].link = link
    BY DEF Tells
  <2> QED BY <2>1 DEF Connecting, Ongoing, Final
<1>2. Sends /\ out' \in Seq(Notices)
  BY <1>1 DEF Sends, Tells, Returned
<1> QED BY <1>2, NoticesKeep

\* In a connection there is a link.
LEMMA LinkedFacts ==
  ASSUME IInv, mode \in {"Connection", "Event", "Closing"}
  PROVE  link \in Links /\ acl \in Seq(Links) /\ Len(acl) \in Nat
<1>1. TypeOK /\ ModeInv
  BY DEF IInv
<1>2. link \in 0 .. MaxLinks /\ link > 0 /\ acl \in Seq(Links)
  BY <1>1 DEF TypeOK, ModeInv
<1> QED BY <1>2, CapacityAssumption DEF Links

\* A timeout ends the link.
LEMMA TimesOutKeeps ==
  ASSUME IInv, TimesOut
  PROVE  IInv'
<1>1. /\ mode = "Connection" /\ Linked /\ out = << >> /\ mode' = "Closing"
      /\ out' = << >> \o Emit("Disconnection") /\ acl' = acl
      /\ UNCHANGED <<queueVars, maskVars, enabled, link_connected, link, terminating,
                     announced, hostVars>>
  BY DEF TimesOut, LinkEnds, linkVars, Linked
<1>2. link \in Links /\ acl \in Seq(Links) /\ Len(acl) \in Nat
  BY <1>1, LinkedFacts
<1> DEFINE code == "Disconnection"
           s == Emit(code)
<1>3. code \in Final /\ Final \in SUBSET Final /\ code # "CompletedPackets"
  BY DEF Final
<1> HIDE DEF code
<1>4. Tells(s, Final) /\ Returned(s) = 0
  BY <1>2, <1>3, EmitTells
<1>5. out' = s
  <2>1. s \in Seq(Notices)
    BY <1>4 DEF Tells
  <2> HIDE DEF s
  <2>2. << >> \o s = s
    BY <2>1
  <2> QED BY <1>1, <2>2 DEF s, code
<1> HIDE DEF s
<1> QED BY <1>1, <1>2, <1>4, <1>5, TellingKeeps

\* A finished update is told unless it is masked.
LEMMA UpdateTells ==
  ASSUME NEW update, NEW C \in {Ongoing, Final}, link \in Links
  PROVE  Tells(UpdateNotice(update), C) /\ Returned(UpdateNotice(update)) = 0
<1> DEFINE code == "ConnectionUpdateComplete"
<1>1. code \in C /\ C \in SUBSET Final /\ code # "CompletedPackets"
  BY DEF Ongoing, Final
<1> HIDE DEF code
<1>2. Tells(Emit(code), C) /\ Returned(Emit(code)) = 0
  BY <1>1, EmitTells
<1>3. Tells(<< >>, C) /\ Returned(<< >>) = 0
  BY TellsNothing
<1> QED BY <1>2, <1>3 DEF UpdateNotice, code

\* Skipping expired events tells at most of an update.
LEMMA SkipsKeeps ==
  ASSUME IInv, SkipsExpiredEvents
  PROVE  IInv'
<1> DEFINE update == TRUE
<1>1. /\ mode = "Connection" /\ Linked /\ out = << >> /\ mode' = "Connection"
      /\ out' = UpdateNotice(update) /\ acl' = acl
      /\ UNCHANGED <<queueVars, maskVars, enabled, link_connected, link, terminating,
                     announced, hostVars>>
  BY DEF SkipsExpiredEvents, linkVars, Linked
<1> HIDE DEF update
<1>2. link \in Links /\ acl \in Seq(Links) /\ Len(acl) \in Nat
  BY <1>1, LinkedFacts
<1>3. Ongoing \in {Ongoing, Final} /\ Ongoing # Final
  BY DEF Ongoing, Final
<1>4. Tells(out', Ongoing) /\ Returned(out') = 0
  BY <1>1, <1>2, <1>3, UpdateTells
<1> QED BY <1>1, <1>2, <1>3, <1>4, TellingKeeps

\* Opening the receive window tells at most of an update.
LEMMA EventStartsKeeps ==
  ASSUME IInv, NEW update \in BOOLEAN, ConnectionEventStarts(update)
  PROVE  IInv'
<1>1. /\ mode = "Connection" /\ Linked /\ out = << >> /\ mode' = "Event"
      /\ out' = UpdateNotice(update) /\ acl' = acl
      /\ UNCHANGED <<queueVars, maskVars, enabled, link_connected, link, terminating,
                     announced, hostVars>>
  BY DEF ConnectionEventStarts, linkVars, Linked
<1>2. link \in Links /\ acl \in Seq(Links) /\ Len(acl) \in Nat
  BY <1>1, LinkedFacts
<1>3. Ongoing \in {Ongoing, Final} /\ Ongoing # Final
  BY DEF Ongoing, Final
<1>4. Tells(out', Ongoing) /\ Returned(out') = 0
  BY <1>1, <1>2, <1>3, UpdateTells
<1> QED BY <1>1, <1>2, <1>3, <1>4, TellingKeeps

\* What a connection event sends: a credit exactly for a completed packet.
LEMMA EventSendsTells ==
  ASSUME NEW completes \in BOOLEAN, NEW data \in BOOLEAN, NEW update \in BOOLEAN,
         NEW C \in {Ongoing, Final}, link \in Links
  PROVE  /\ Tells(EventSends(completes, data, update), C)
         /\ Returned(EventSends(completes, data, update)) = IF completes THEN 1 ELSE 0
<1> DEFINE s == IF completes THEN Emit("CompletedPackets") ELSE << >>
           t == IF data THEN <<Event("AclData", link)>> ELSE << >>
           u == UpdateNotice(update)
<1>0. Tells(<< >>, C) /\ Returned(<< >>) = 0
  BY TellsNothing
<1>1. Tells(s, C) /\ Returned(s) = IF completes THEN 1 ELSE 0
  <2> DEFINE code == "CompletedPackets"
  <2>1. code \in C /\ C \in SUBSET Final
    BY DEF Ongoing, Final
  <2>2. Tells(Emit(code), C) /\ Returned(Emit(code)) = 1
    <3>1. code = "CompletedPackets"
      OBVIOUS
    <3> HIDE DEF code
    <3> QED BY <2>1, <3>1, EmitTells
  <2> QED BY <1>0, <2>2
<1>2. Tells(t, C) /\ Returned(t) = 0
  <2> DEFINE code == "AclData"
  <2>1. code \in C /\ C \in SUBSET Final /\ code # "CompletedPackets"
    BY DEF Ongoing, Final
  <2> HIDE DEF code
  <2>2. Tells(<<Event(code, link)>>, C) /\ Returned(<<Event(code, link)>>) = 0
    BY <2>1, TellsOne
  <2> QED BY <1>0, <2>2 DEF code
<1>3. Tells(u, C) /\ Returned(u) = 0
  BY UpdateTells
<1>4. EventSends(completes, data, update) = (s \o t) \o u
  BY DEF EventSends
<1> HIDE DEF s, t, u
<1>5. Tells(s \o t, C) /\ Returned(s \o t) = Returned(s) + 0
  BY <1>1, <1>2, TellsBoth
<1> DEFINE w == s \o t
<1> HIDE DEF w
<1>6. Tells(w \o u, C) /\ Returned(w \o u) = Returned(w) + 0
  BY <1>3, <1>5, TellsBoth DEF w
<1> QED BY <1>1, <1>4, <1>5, <1>6 DEF w

\* A connection event.
LEMMA EventEndsKeeps ==
  ASSUME IInv, NEW completes \in BOOLEAN, NEW data \in BOOLEAN, NEW update \in BOOLEAN,
         NEW ends \in BOOLEAN, ConnectionEventEnds(completes, data, update, ends)
  PROVE  IInv'
<1> DEFINE s == EventSends(completes, data, update)
           C == IF ends THEN Final ELSE Ongoing
<1>1. /\ mode = "Event" /\ Linked /\ out = << >> /\ (completes => acl # << >>)
      /\ acl' = IF completes THEN Tail(acl) ELSE acl
      /\ UNCHANGED <<queueVars, maskVars, enabled, link_connected, link, terminating,
                     announced, hostVars>>
      /\ mode' = IF ends THEN "Closing" ELSE "Connection"
      /\ out' = IF ends THEN s \o Emit("Disconnection") ELSE s
  BY DEF ConnectionEventEnds, LinkEnds, Linked
<1>2. link \in Links /\ acl \in Seq(Links) /\ Len(acl) \in Nat
  BY <1>1, LinkedFacts
<1>3. C \in {Ongoing, Final} /\ (C = Final => ends) /\ (ends => C = Final)
  BY DEF Ongoing, Final
<1> HIDE DEF C
<1>4. Tells(s, C) /\ Returned(s) = IF completes THEN 1 ELSE 0
  BY <1>2, <1>3, EventSendsTells
<1>5. Tells(out', C) /\ Returned(out') = IF completes THEN 1 ELSE 0
  <2>1. CASE ends
    <3> DEFINE code == "Disconnection"
               t == Emit(code)
    <3>1. code \in Final /\ Final \in SUBSET Final /\ code # "CompletedPackets"
      BY DEF Final
    <3>2. out' = s \o t
      BY <1>1, <2>1
    <3> HIDE DEF code
    <3>3. Tells(t, Final) /\ Returned(t) = 0
      BY <1>2, <3>1, EmitTells
    <3> HIDE DEF s, t
    <3>4. Tells(s \o t, C) /\ Returned(s \o t) = Returned(s) + 0
      BY <1>3, <1>4, <2>1, <3>3, TellsBoth
    <3> QED BY <1>4, <3>2, <3>4
  <2>2. CASE ~ends
    BY <1>1, <1>4, <2>2
  <2> QED BY <2>1, <2>2
<1>6. Len(acl') + Returned(out') = Len(acl) /\ (acl' = acl \/ (acl # << >> /\ acl' = Tail(acl)))
  <2>1. CASE completes
    <3>1. Len(Tail(acl)) = Len(acl) - 1 /\ acl # << >> /\ acl' = Tail(acl)
      BY <1>1, <1>2, <2>1, TailFacts
    <3>2. Returned(out') = 1 /\ Len(acl') = Len(acl) - 1
      BY <1>5, <2>1, <3>1
    <3>3. Len(acl') + Returned(out') = Len(acl)
      BY <1>2, <3>2
    <3> QED BY <3>1, <3>3
  <2>2. CASE ~completes
    BY <1>1, <1>2, <1>5, <2>2
  <2> QED BY <2>1, <2>2
<1>7. mode' \in {"Connection", "Event", "Closing"} /\ (C = Final => mode' = "Closing")
  BY <1>1, <1>3
<1> HIDE DEF s
<1> QED BY <1>1, <1>3, <1>5, <1>6, <1>7, TellingKeeps

\* The runner takes a packet in standby.
LEMMA HostPacketKeeps ==
  ASSUME IInv, HandleHostPacket
  PROVE  IInv'
<1> DEFINE p == Head(h2c)
<1>0. /\ TypeOK /\ mode = "Standby" /\ out = << >> /\ h2c # << >> /\ h2c' = Tail(h2c)
      /\ UNCHANGED <<c2h, mode, hostVars>>
      /\ UNCHANGED <<link_connected, link, acl, terminating, announced>>
      /\ IF p.kind = "Acl" THEN UNCHANGED <<out, maskVars, enabled>> ELSE HandleCommand(p)
  BY DEF IInv, HandleHostPacket, linkVars
<1>1. p \in Packets
  BY <1>0, TailFacts DEF TypeOK
<1>2. CASE p.kind = "Acl"
  <2>1. p \in AclPackets
    BY <1>1, <1>2, PacketKinds
  <2> QED BY <1>0, <1>2, <2>1, AclTakenKeeps
<1>3. CASE p.kind # "Acl"
  <2> DEFINE t == << >>
  <2> HIDE DEF p
  <2>1. p \in Commands /\ HandleCommand(p)
    BY <1>0, <1>1, <1>3, PacketKinds
  <2>2. PICK a \in Answers : out' = <<a>> /\ Handled(p, a)
    BY <1>0, <2>1, HandleCommandFacts
  <2>3. t \in Seq(Notices) /\ out' = <<a>> \o t /\ Len(t) = 0 /\ t = << >>
    BY <2>2
  <2> HIDE DEF t
  <2>4. Moves(p, t)
    BY <1>0, <2>3 DEF Moves
  <2>5. terminating' \in BOOLEAN
    BY <1>0 DEF TypeOK
  <2> QED BY <1>0, <2>1, <2>2, <2>3, <2>4, <2>5, AnswerKeeps DEF p
<1> QED BY <1>2, <1>3

\* In a connection a command gets one answer; after a Reset the Disconnection
\* follows.
LEMMA ConnectedCommandFacts ==
  ASSUME IInv, NEW p \in Commands, mode = "Connection", HandleConnectedCommand(p)
  PROVE  /\ \E a \in Answers, t \in Seq(Notices) :
              out' = <<a>> \o t /\ Handled(p, a) /\ Moves(p, t)
         /\ terminating' \in BOOLEAN /\ UNCHANGED <<link_connected, link, acl, announced>>
<1>0. /\ TypeOK /\ p.op \in Opcodes /\ link_connected /\ ~enabled /\ enabled \in BOOLEAN
      /\ event_mask \subseteq MaskBits /\ le_event_mask \subseteq LeMeta
      /\ terminating \in BOOLEAN
  BY PacketKinds DEF IInv, ModeInv, TypeOK, Packets
<1>1. link \in Links
  BY LinkedFacts
<1>2. /\ "Success" \in Statuses /\ "Busy" \in Statuses /\ "Invalid" \in Statuses
      /\ "Disallowed" \in Statuses
  BY DEF Statuses
<1>3. ASSUME NEW a \in Answers, out' = <<a>>, Handled(p, a), p.op # "Reset", mode' = mode
      PROVE  \E b \in Answers, t \in Seq(Notices) :
               out' = <<b>> \o t /\ Handled(p, b) /\ Moves(p, t)
  <2> DEFINE t == << >>
  <2>1. t \in Seq(Notices) /\ out' = <<a>> \o t /\ Len(t) = 0 /\ t = << >>
    BY <1>3
  <2> HIDE DEF t
  <2>2. Moves(p, t)
    BY <1>3, <2>1 DEF Moves
  <2> QED BY <1>3, <2>1, <2>2
<1>4. ASSUME NEW status \in Statuses, out' = Status(p.op, status),
             p.op \in {"Disconnect", "ConnectionUpdate"}, mode' = mode,
             UNCHANGED <<maskVars, enabled>>
      PROVE  \E b \in Answers, t \in Seq(Notices) :
               out' = <<b>> \o t /\ Handled(p, b) /\ Moves(p, t)
  <2> DEFINE op == p.op
             o == out'
  <2>1. op \in Opcodes /\ (o = Complete(op, status) \/ o = Status(op, status))
    BY <1>0, <1>4
  <2> HIDE DEF op, o
  <2>2. \E a \in Answers : o = <<a>> /\ a.op = op /\ a.status = status
    BY <2>1, OneAnswer
  <2>3. PICK a \in Answers : out' = <<a>> /\ a.op = p.op
    BY <2>2 DEF o, op
  <2>4. Handled(p, a)
    BY <1>0, <1>4, <2>3 DEF Handled, maskVars
  <2>5. p.op # "Reset"
    BY <1>4
  <2> QED BY <1>3, <1>4, <2>3, <2>4, <2>5
<1>5. CASE ConnectedReset(p)
  <2> DEFINE op == "Reset"
             status == "Success"
             o == Complete(op, status)
             e == Event("Disconnection", link)
             t == <<e>>
  <2>1. /\ p.op = op /\ out' = o \o t /\ mode' = "Closing" /\ ~enabled' /\ enabled' \in BOOLEAN
        /\ event_mask' \subseteq MaskBits /\ le_event_mask' \subseteq LeMeta
        /\ UNCHANGED <<link_connected, link, acl, terminating, announced>>
    BY <1>5 DEF ConnectedReset, ResetController, linkVars
  <2>2. op \in Opcodes /\ status \in Statuses /\ o = Complete(op, status)
    BY <1>2 DEF Opcodes
  <2>3. e \in Notices /\ e.code = "Disconnection" /\ e.link = link
    BY <1>1 DEF Event, Notices
  <2> HIDE DEF status, o, e
  <2>4. t \in Seq(Notices) /\ Len(t) = 1 /\ t[1] = e
    BY <2>3, OneFacts
  <2>5. \E a \in Answers : o = <<a>> /\ a.op = op /\ a.status = status
    <3> HIDE DEF op
    <3> QED BY <2>2, OneAnswer
  <2>6. PICK a \in Answers : o = <<a>> /\ a.op = op
    BY <2>5
  <2>7. Handled(p, a)
    BY <2>1, <2>6 DEF Handled
  <2> HIDE DEF t
  <2>8. Moves(p, t)
    BY <2>1, <2>3, <2>4 DEF Moves
  <2> QED BY <1>0, <2>1, <2>4, <2>6, <2>7, <2>8
<1>6. CASE ConnectedDisconnect(p)
  <2>1. /\ p.op = "Disconnect" /\ mode' = mode /\ UNCHANGED <<maskVars, enabled>>
        /\ UNCHANGED <<link_connected, link, acl, announced>>
        /\ terminating' \in BOOLEAN
        /\ \E status \in Statuses : out' = Status(p.op, status)
    BY <1>0, <1>2, <1>6 DEF ConnectedDisconnect
  <2> QED BY <1>4, <2>1
<1>7. CASE ConnectedUpdate(p)
  <2>1. /\ p.op = "ConnectionUpdate" /\ mode' = mode /\ UNCHANGED <<maskVars, enabled>>
        /\ UNCHANGED <<link_connected, link, acl, terminating, announced>>
        /\ \E status \in Statuses : out' = Status(p.op, status)
    BY <1>2, <1>7 DEF ConnectedUpdate, linkVars
  <2> QED BY <1>0, <1>4, <2>1
<1>8. CASE /\ p.op \notin {"Reset", "Disconnect", "ConnectionUpdate"} /\ HandleCommand(p)
           /\ UNCHANGED <<mode, linkVars>>
  <2>1. PICK a \in Answers : out' = <<a>> /\ Handled(p, a)
    BY <1>0, <1>8, HandleCommandFacts
  <2>2. mode' = mode /\ UNCHANGED <<link_connected, link, acl, terminating, announced>>
        /\ p.op # "Reset"
    BY <1>8 DEF linkVars
  <2> QED BY <1>0, <1>3, <2>1, <2>2
<1> QED BY <1>5, <1>6, <1>7, <1>8 DEF HandleConnectedCommand

\* The runner takes a packet in a connection.
LEMMA ConnectedPacketKeeps ==
  ASSUME IInv, ProcessConnectedHostPacket
  PROVE  IInv'
<1> DEFINE p == Head(h2c)
<1>0. /\ TypeOK /\ mode = "Connection" /\ out = << >> /\ h2c # << >> /\ h2c' = Tail(h2c)
      /\ UNCHANGED <<c2h, hostVars>>
      /\ IF p.kind = "Acl"
         THEN /\ acl' = Append(acl, p.link)
              /\ UNCHANGED <<out, mode, maskVars, enabled, link_connected, link,
                             terminating, announced>>
         ELSE HandleConnectedCommand(p)
  BY DEF IInv, ProcessConnectedHostPacket
<1>1. p \in Packets
  BY <1>0, TailFacts DEF TypeOK
<1>2. CASE p.kind = "Acl"
  <2>1. p \in AclPackets
    BY <1>1, <1>2, PacketKinds
  <2> QED BY <1>0, <1>2, <2>1, AclTakenKeeps
<1>3. CASE p.kind # "Acl"
  <2> HIDE DEF p
  <2>1. p \in Commands /\ HandleConnectedCommand(p)
    BY <1>0, <1>1, <1>3, PacketKinds
  <2>2. /\ \E a \in Answers, t \in Seq(Notices) :
             out' = <<a>> \o t /\ Handled(p, a) /\ Moves(p, t)
        /\ terminating' \in BOOLEAN /\ UNCHANGED <<link_connected, link, acl, announced>>
    BY <1>0, <2>1, ConnectedCommandFacts
  <2>3. PICK a \in Answers, t \in Seq(Notices) :
          out' = <<a>> \o t /\ Handled(p, a) /\ Moves(p, t)
    BY <2>2
  <2> QED BY <1>0, <2>1, <2>2, <2>3, AnswerKeeps DEF p
<1> QED BY <1>2, <1>3

\* The steps that only move the runner, and the send of what it has to say.
LEMMA QuietStepsKeep ==
  ASSUME IInv, AdvertisingStarts \/ AdvertisingEnds \/ LinkClosed \/ SendControllerPacket
  PROVE  IInv'
<1>0. TypeOK /\ ModeInv
  BY DEF IInv
<1>1. CASE AdvertisingStarts
  <2>1. /\ mode = "Standby" /\ out = << >> /\ h2c = << >> /\ enabled /\ acl_writer = None
        /\ mode' = "Advertising"
        /\ UNCHANGED <<h2c, c2h, out, event_mask, le_event_mask, enabled, hostVars>>
        /\ UNCHANGED <<link_connected, link, acl, terminating, announced>>
    BY <1>1 DEF AdvertisingStarts, queueVars, maskVars, linkVars
  <2>2. TypeOK'
    BY <1>0, <2>1 DEF TypeOK, hostVars
  <2>3. ModeInv'
    BY <1>0, <2>1 DEF ModeInv
  <2>4. NoAcl /\ ~Linked'
    <3>1. acl = << >> /\ Len(h2c) = 0
      BY <1>0, <2>1 DEF ModeInv
    <3> QED BY <2>1, <3>1 DEF NoAcl, Linked
  <2>5. Outgoing' = Outgoing
    BY <2>1 DEF Outgoing
  <2> QED BY <2>1, <2>2, <2>3, <2>4, <2>5, QuietKeeps
<1>2. CASE AdvertisingEnds
  <2>1. /\ mode = "Advertising" /\ mode' = "Standby"
        /\ UNCHANGED <<h2c, c2h, out, event_mask, le_event_mask, enabled, hostVars>>
        /\ UNCHANGED <<link_connected, link, acl, terminating, announced>>
    BY <1>2 DEF AdvertisingEnds, queueVars, maskVars, linkVars
  <2>2. TypeOK'
    BY <1>0, <2>1 DEF TypeOK, hostVars
  <2>3. ModeInv' /\ ~Linked'
    BY <1>0, <2>1 DEF ModeInv, Linked
  <2>4. Outgoing' = Outgoing
    BY <2>1 DEF Outgoing
  <2> QED BY <2>1, <2>2, <2>3, <2>4, QuietKeeps
<1>3. CASE LinkClosed
  <2>1. /\ mode = "Closing" /\ mode' = "Standby" /\ link_connected' = FALSE
        /\ acl' = << >> /\ terminating' = FALSE
        /\ UNCHANGED <<h2c, c2h, out, event_mask, le_event_mask, enabled, link, announced, hostVars>>
    BY <1>3 DEF LinkClosed, queueVars, maskVars
  <2>2. TypeOK'
    <3>1. << >> \in Seq(Links)
      OBVIOUS
    <3>2. terminating' \in BOOLEAN /\ link_connected' \in BOOLEAN
      BY <2>1
    <3>3. acl' \in Seq(Links)
      BY <2>1, <3>1
    <3>4. mode' \in {"Standby", "Advertising", "Connection", "Event", "Closing"}
      BY <2>1
    <3> QED BY <1>0, <2>1, <3>2, <3>3, <3>4 DEF TypeOK, hostVars
  <2>3. ModeInv' /\ ~Linked'
    BY <1>0, <2>1 DEF ModeInv, Linked
  <2>4. Outgoing' = Outgoing
    BY <2>1 DEF Outgoing
  <2> QED BY <2>1, <2>2, <2>3, <2>4, QuietKeeps
<1>4. CASE SendControllerPacket
  <2>1. /\ out # << >> /\ Len(c2h) < EventCapacity /\ c2h' = Append(c2h, Head(out))
        /\ out' = Tail(out) /\ c2h \in Seq(Events) /\ out \in Seq(Events)
        /\ UNCHANGED <<h2c, mode, event_mask, le_event_mask, enabled, hostVars>>
        /\ UNCHANGED <<link_connected, link, acl, terminating, announced>>
    BY <1>0, <1>4 DEF SendControllerPacket, TypeOK, maskVars, linkVars
  <2>2. Head(out) \in Events /\ Tail(out) \in Seq(Events)
    BY <2>1, TailFacts
  <2>3. c2h' \in Seq(Events) /\ Len(c2h') <= EventCapacity
    <3>1. Append(c2h, Head(out)) \in Seq(Events) /\ Len(c2h') = Len(c2h) + 1 /\ Len(c2h) \in Nat
      BY <2>1, <2>2, AppendFacts
    <3> QED BY <2>1, <3>1, CapacityAssumption
  <2>4. TypeOK'
    BY <1>0, <2>1, <2>2, <2>3 DEF TypeOK, hostVars
  <2>5. ModeInv'
    BY <1>0, <2>1 DEF ModeInv
  <2>6. Outgoing' = Outgoing
    <3>1. Append(c2h, Head(out)) \o Tail(out) = c2h \o out
      <4> DEFINE s == c2h
                 t == out
      <4>1. s \in Seq(Events) /\ t \in Seq(Events) /\ t # << >>
        BY <2>1
      <4> HIDE DEF s, t
      <4>2. Append(s, Head(t)) \o Tail(t) = s \o t
        BY <4>1
      <4> QED BY <4>2 DEF s, t
    <3> QED BY <2>1, <3>1 DEF Outgoing
  <2>7. (Linked' => Linked) /\ mode' # "Advertising"
    BY <1>0, <2>1 DEF Linked, ModeInv
  <2> QED BY <2>1, <2>4, <2>5, <2>6, <2>7, QuietKeeps
<1> QED BY <1>1, <1>2, <1>3, <1>4

-----------------------------------------------------------------------------
(***************************************************************************)
(* The Host's steps.                                                       *)
(***************************************************************************)
\* Nothing of the runner changes.
Untouched ==
  /\ UNCHANGED <<mode, out, event_mask, le_event_mask, enabled>>
  /\ UNCHANGED <<link_connected, link, acl, terminating, announced>>

\* The Host starts a command when it waits for no answer: neither a command
\* nor an answer is on its way.
LEMMA IssuesCommandKeeps ==
  ASSUME IInv, NEW op \in Opcodes, HostIssuesCommand(op)
  PROVE  IInv'
<1> DEFINE q == Outgoing
<1>0. /\ TypeOK /\ ModeInv /\ CommandInv /\ OrderInv(q) /\ ToldInv(q)
      /\ UNCHANGED <<h2c, c2h, acl_writer, view, unacked>> /\ Untouched
      /\ command = None /\ command' = op
      /\ advertises' = (advertises \/ op = "Enable")
      /\ reenabled' = (reenabled \/ (advertises /\ op = "Enable"))
      /\ op \in {"Enable", "SetAddress"} => view = 0
  BY DEF IInv, HostIssuesCommand, runnerVars, queueVars, maskVars, linkVars, Untouched
<1>1. Outgoing' = q
  BY <1>0 DEF Outgoing, Untouched
<1>2. writer' \in Commands /\ writer' # None /\ writer'.op = op
  <2>1. PICK mask \in MaskChoices(op) : writer' = Command(op, mask)
    BY DEF HostIssuesCommand
  <2>2. mask \in SUBSET (MaskBits \cup LeMeta)
    BY <2>1, HostAssumption DEF MaskChoices
  <2>3. writer' \in Commands /\ writer'.op = op
    BY <2>1, <2>2 DEF Command, Commands
  <2> QED BY <2>3, NoneAssumption
<1>3. Count(h2c, Commands) = 0 /\ Count(q, Answers) = 0 /\ writer = None
  <2>1. Count(h2c, Commands) \in Nat /\ Count(q, Answers) \in Nat
    BY <1>0, QueueFacts, OutgoingFacts, CountType
  <2>2. (IF writer = None THEN 0 ELSE 1) + Count(h2c, Commands) + Count(q, Answers) = 0
    BY <1>0 DEF CommandInv, AnsweredExactlyOnce, CommandsOnTheWay, AnswersOnTheWay
  <2> HIDE DEF q
  <2> QED BY <2>1, <2>2
<1>4. \A i \in 1 .. Len(h2c) : h2c[i] \notin Commands
  BY <1>0, <1>3, QueueFacts, CountNone
<1>5. \A i \in 1 .. Len(q) : q[i] \notin Answers
  BY <1>0, <1>3, OutgoingFacts, CountNone
<1>6. op # None
  BY NoneAssumption
<1>7. TypeOK'
  BY <1>0, <1>2 DEF TypeOK, Untouched
<1>8. ModeInv'
  BY <1>0 DEF ModeInv, Untouched
<1>9. CommandInv'
  <2>1. CommandsOnTheWay' = 1 /\ AnswersOnTheWay' = 0
    BY <1>0, <1>1, <1>2, <1>3 DEF CommandsOnTheWay, AnswersOnTheWay
  <2>2. AnsweredExactlyOnce'
    BY <1>0, <1>1, <1>5, <1>6, <2>1 DEF AnsweredExactlyOnce
  <2> QED BY <1>0, <1>2, <1>4, <2>2 DEF CommandInv
<1> HIDE DEF q
<1>10. OrderInv(Outgoing)'
  BY <1>0, <1>1 DEF OrderInv, Untouched
<1>11. ToldInv(Outgoing)'
  BY <1>0, <1>1 DEF ToldInv, Untouched, Linked
<1>12. ASSUME ~reenabled'
       PROVE  HostInv(Outgoing)' /\ AclInv(Outgoing)' /\ (Linked' => LinkedInv(Outgoing)')
  <2>1. ~reenabled /\ ~(advertises /\ op = "Enable")
    BY <1>0, <1>12
  <2>2. HostInv(q) /\ AclInv(q) /\ (Linked => LinkedInv(q))
    BY <2>1 DEF IInv, q
  <2>3. Enabling' <=> op = "Enable"
    BY <1>0, <1>2, <1>4 DEF Enabling
  <2>4. advertises => advertises'
    BY <1>0
  <2>5. HostInv(Outgoing)'
    <3>1. op = "Enable" => /\ ~enabled /\ advertises' /\ view = 0
                           /\ \A i \in 1 .. Len(q) : ~Connecting(q[i])
      BY <1>0, <2>1, <2>2 DEF HostInv
    <3> QED BY <1>0, <1>1, <1>5, <2>2, <2>3, <2>4, <3>1 DEF HostInv, Untouched
  <2>6. AclInv(Outgoing)'
    BY <1>0, <1>1, <2>2 DEF AclInv, NoAcl, Untouched
  <2>7. CreditsOnTheWay' = CreditsOnTheWay
    BY <1>0, <1>1 DEF CreditsOnTheWay, Untouched, q
  <2>8. ASSUME Linked' PROVE LinkedInv(Outgoing)'
    BY <1>0, <1>1, <2>2, <2>7, <2>8 DEF LinkedInv, Current, Untouched, Linked
  <2> QED BY <2>5, <2>6, <2>8
<1> QED BY <1>7, <1>8, <1>9, <1>10, <1>11, <1>12 DEF IInv

\* Moving a packet of the Host into the queue: the packet w, waiting before.
LEMMA HostWriteFacts ==
  ASSUME TypeOK, NEW w \in Packets, Len(h2c) < HostCapacity, h2c' = Append(h2c, w)
  PROVE  /\ h2c' \in Seq(Packets) /\ Len(h2c') <= HostCapacity /\ Len(h2c') = Len(h2c) + 1
         /\ Len(h2c) \in Nat
         /\ \A i \in 1 .. Len(h2c) : i \in 1 .. Len(h2c') /\ h2c'[i] = h2c[i]
         /\ \A i \in 1 .. Len(h2c') : i \in 1 .. Len(h2c) \/ (i = Len(h2c) + 1 /\ h2c'[i] = w)
         /\ Len(h2c) + 1 \in 1 .. Len(h2c') /\ h2c'[Len(h2c) + 1] = w
         /\ \A S : Count(h2c', S) = Count(h2c, S) + (IF w \in S THEN 1 ELSE 0)
         /\ \A S : Count(h2c, S) \in Nat
<1>1. h2c \in Seq(Packets)
  BY DEF TypeOK
<1>2. /\ h2c' \in Seq(Packets) /\ Len(h2c') = Len(h2c) + 1 /\ Len(h2c) \in Nat
      /\ \A i \in 1 .. Len(h2c) : h2c'[i] = h2c[i]
      /\ h2c'[Len(h2c) + 1] = w
  BY <1>1, AppendFacts
<1>3. \A S : Count(h2c', S) = Count(h2c, S) + (IF w \in S THEN 1 ELSE 0)
  BY <1>1, CountAppend
<1>4. \A S : Count(h2c, S) \in Nat
  BY <1>1, CountType
<1>5. Len(h2c') <= HostCapacity
  BY <1>2, CapacityAssumption
<1>6. /\ \A i \in 1 .. Len(h2c) : i \in 1 .. Len(h2c')
      /\ \A i \in 1 .. Len(h2c') : i \in 1 .. Len(h2c) \/ i = Len(h2c) + 1
      /\ Len(h2c) + 1 \in 1 .. Len(h2c')
  BY <1>2
<1> QED BY <1>2, <1>3, <1>4, <1>5, <1>6

\* A waiting command enters the queue.
LEMMA WritesCommandKeeps ==
  ASSUME IInv, HostWritesCommand
  PROVE  IInv'
<1> DEFINE q == Outgoing
           w == writer
<1>0. /\ TypeOK /\ ModeInv /\ CommandInv /\ OrderInv(q) /\ ToldInv(q) /\ Untouched
      /\ UNCHANGED <<c2h, command, acl_writer, view, advertises, unacked, reenabled>>
      /\ w # None /\ writer' = None /\ h2c' = Append(h2c, w) /\ Len(h2c) < HostCapacity
  BY DEF IInv, HostWritesCommand, runnerVars, maskVars, linkVars, Untouched
<1>1. Outgoing' = q
  BY <1>0 DEF Outgoing, Untouched
<1>2. w \in Commands /\ w \in Packets /\ w \notin AclPackets
  <2>1. w \in Commands
    BY <1>0 DEF TypeOK
  <2> QED BY <2>1, PacketKinds DEF Packets
<1>3. /\ h2c' \in Seq(Packets) /\ Len(h2c') <= HostCapacity /\ Len(h2c') = Len(h2c) + 1
      /\ Len(h2c) \in Nat
      /\ \A i \in 1 .. Len(h2c) : i \in 1 .. Len(h2c') /\ h2c'[i] = h2c[i]
      /\ \A i \in 1 .. Len(h2c') : i \in 1 .. Len(h2c) \/ (i = Len(h2c) + 1 /\ h2c'[i] = w)
      /\ Len(h2c) + 1 \in 1 .. Len(h2c') /\ h2c'[Len(h2c) + 1] = w
      /\ \A S : Count(h2c', S) = Count(h2c, S) + (IF w \in S THEN 1 ELSE 0)
      /\ \A S : Count(h2c, S) \in Nat
  <2> HIDE DEF w
  <2> QED BY <1>0, <1>2, HostWriteFacts
<1>4. TypeOK'
  BY <1>0, <1>3 DEF TypeOK, Untouched
<1>5. ModeInv'
  BY <1>0 DEF ModeInv, Untouched
<1>6. CommandInv'
  <2>1. Count(h2c', Commands) = Count(h2c, Commands) + 1 /\ Count(h2c, Commands) \in Nat
    BY <1>2, <1>3
  <2>2. CommandsOnTheWay' = CommandsOnTheWay
    <3>1. CommandsOnTheWay = 1 + Count(h2c, Commands)
      BY <1>0 DEF CommandsOnTheWay
    <3>2. CommandsOnTheWay' = 0 + Count(h2c', Commands)
      BY <1>0 DEF CommandsOnTheWay
    <3> QED BY <2>1, <3>1, <3>2
  <2>3. AnsweredExactlyOnce'
    BY <1>0, <1>1, <2>2 DEF CommandInv, AnsweredExactlyOnce, AnswersOnTheWay
  <2>4. \A i \in 1 .. Len(h2c') : h2c'[i] \in Commands => h2c'[i].op = command
    BY <1>0, <1>3 DEF CommandInv
  <2> QED BY <1>0, <2>3, <2>4 DEF CommandInv
<1> HIDE DEF q
<1>7. OrderInv(Outgoing)'
  BY <1>0, <1>1 DEF OrderInv, Untouched
<1>8. ToldInv(Outgoing)'
  BY <1>0, <1>1 DEF ToldInv, Untouched, Linked
<1>9. ASSUME ~reenabled
      PROVE  HostInv(Outgoing)' /\ AclInv(Outgoing)' /\ (Linked' => LinkedInv(Outgoing)')
  <2>1. HostInv(q) /\ AclInv(q) /\ (Linked => LinkedInv(q))
    BY <1>9 DEF IInv, q
  <2>2. Enabling' => Enabling
    BY <1>0, <1>3 DEF Enabling
  <2>3. HostInv(Outgoing)'
    BY <1>0, <1>1, <2>1, <2>2 DEF HostInv, Untouched
  <2>4. /\ \A i \in 1 .. Len(h2c') : h2c'[i] \in AclPackets =>
             i \in 1 .. Len(h2c) /\ h2c'[i] = h2c[i]
        /\ NoAcl => NoAcl'
    BY <1>0, <1>2, <1>3 DEF NoAcl, Untouched
  <2>5. AclInv(Outgoing)'
    BY <1>0, <1>1, <2>1, <2>4 DEF AclInv, Untouched
  <2>6. CreditsOnTheWay' = CreditsOnTheWay
    <3>1. w # Acl(view)
      BY <1>2 DEF Commands, Acl
    <3> DEFINE A == {Acl(view)}
    <3>2. w \notin A
      BY <3>1
    <3>3. Count(h2c', A) = Count(h2c, A)
      BY <1>3, <3>2
    <3> QED BY <1>0, <1>1, <3>3 DEF CreditsOnTheWay, Untouched, q
  <2>7. ASSUME Linked' PROVE LinkedInv(Outgoing)'
    BY <1>0, <1>1, <2>1, <2>6, <2>7 DEF LinkedInv, Current, Untouched, Linked
  <2> QED BY <2>3, <2>5, <2>7
<1> QED BY <1>0, <1>4, <1>5, <1>6, <1>7, <1>8, <1>9 DEF IInv

\* The Host has a credit left and data for the link it knows of.
LEMMA IssuesAclKeeps ==
  ASSUME IInv, HostIssuesAcl
  PROVE  IInv'
<1> DEFINE q == Outgoing
<1>0. /\ TypeOK /\ ModeInv /\ CommandInv /\ OrderInv(q) /\ ToldInv(q) /\ Untouched
      /\ UNCHANGED <<h2c, c2h, command, writer, view, advertises, reenabled>>
      /\ view # 0 /\ acl_writer = None /\ unacked < Credits /\ acl_writer' = Acl(view)
      /\ unacked' = unacked + 1
  BY DEF IInv, HostIssuesAcl, runnerVars, queueVars, maskVars, linkVars, Untouched
<1>1. Outgoing' = q
  BY <1>0 DEF Outgoing, Untouched
<1>2. view \in Links /\ unacked' \in 0 .. Credits /\ unacked \in Nat
  BY <1>0, CapacityAssumption DEF TypeOK, Links
<1>3. acl_writer' \in AclPackets /\ acl_writer'.link = view /\ Acl(view) # None
  BY <1>0, <1>2, AclFacts
<1>4. TypeOK'
  BY <1>0, <1>2, <1>3 DEF TypeOK, Untouched
<1>5. ModeInv'
  BY <1>0 DEF ModeInv, Untouched
<1>6. CommandInv'
  BY <1>0, <1>1 DEF CommandInv, AnsweredExactlyOnce, CommandsOnTheWay, AnswersOnTheWay
<1> HIDE DEF q
<1>7. OrderInv(Outgoing)'
  BY <1>0, <1>1 DEF OrderInv, Untouched
<1>8. ToldInv(Outgoing)'
  BY <1>0, <1>1 DEF ToldInv, Untouched, Linked
<1>9. ASSUME ~reenabled
      PROVE  HostInv(Outgoing)' /\ AclInv(Outgoing)' /\ (Linked' => LinkedInv(Outgoing)')
  <2>1. HostInv(q) /\ AclInv(q) /\ (Linked => LinkedInv(q))
    BY <1>9 DEF IInv, q
  <2>2. Enabling' <=> Enabling
    BY <1>0 DEF Enabling
  <2>3. HostInv(Outgoing)'
    BY <1>0, <1>1, <2>1, <2>2 DEF HostInv, Untouched
  <2>4. view = link /\ mode # "Advertising" /\ \A k \in 1 .. Len(q) : ~Connecting(q[k])
    BY <1>0, <2>1 DEF HostInv, ModeInv
  <2>5. AclInv(Outgoing)'
    BY <1>0, <1>1, <1>3, <2>1, <2>4 DEF AclInv, Untouched
  <2>6. ASSUME Linked' PROVE LinkedInv(Outgoing)'
    <3>1. Linked /\ unacked = CreditsOnTheWay
      BY <1>0, <2>1, <2>6 DEF Linked, LinkedInv, Untouched
    <3> DEFINE c == Count(h2c, {Acl(view)})
               l == Len(acl)
               d == Count(Outgoing, {Event("CompletedPackets", view)})
    <3>2. c \in Nat /\ l \in Nat /\ d \in Nat
      BY <1>0, CountType, OutgoingFacts, QueueFacts DEF TypeOK
    <3>3. CreditsOnTheWay = 0 + c + l + d
      BY <1>0, <1>3 DEF CreditsOnTheWay
    <3>4. CreditsOnTheWay' = 1 + c + l + d
      BY <1>0, <1>1 DEF CreditsOnTheWay, Untouched, q
    <3> HIDE DEF c, l, d
    <3>5. unacked' = CreditsOnTheWay'
      BY <1>0, <1>2, <3>1, <3>2, <3>3, <3>4
    <3> QED BY <1>0, <1>1, <2>1, <2>4, <3>1, <3>5 DEF LinkedInv, Current, Untouched
  <2> QED BY <2>3, <2>5, <2>6
<1> QED BY <1>0, <1>4, <1>5, <1>6, <1>7, <1>8, <1>9 DEF IInv

\* Waiting ACL data enters the queue.
LEMMA WritesAclKeeps ==
  ASSUME IInv, HostWritesAcl
  PROVE  IInv'
<1> DEFINE q == Outgoing
           w == acl_writer
<1>0. /\ TypeOK /\ ModeInv /\ CommandInv /\ OrderInv(q) /\ ToldInv(q) /\ Untouched
      /\ UNCHANGED <<c2h, command, writer, view, advertises, unacked, reenabled>>
      /\ w # None /\ acl_writer' = None /\ h2c' = Append(h2c, w) /\ Len(h2c) < HostCapacity
  BY DEF IInv, HostWritesAcl, runnerVars, maskVars, linkVars, Untouched
<1>1. Outgoing' = q
  BY <1>0 DEF Outgoing, Untouched
<1>2. w \in AclPackets /\ w \in Packets /\ w \notin Commands /\ w.link \in Links
  <2>1. w \in AclPackets
    BY <1>0 DEF TypeOK
  <2> QED BY <2>1, PacketKinds DEF Packets
<1>3. /\ h2c' \in Seq(Packets) /\ Len(h2c') <= HostCapacity /\ Len(h2c') = Len(h2c) + 1
      /\ Len(h2c) \in Nat
      /\ \A i \in 1 .. Len(h2c) : i \in 1 .. Len(h2c') /\ h2c'[i] = h2c[i]
      /\ \A i \in 1 .. Len(h2c') : i \in 1 .. Len(h2c) \/ (i = Len(h2c) + 1 /\ h2c'[i] = w)
      /\ Len(h2c) + 1 \in 1 .. Len(h2c') /\ h2c'[Len(h2c) + 1] = w
      /\ \A S : Count(h2c', S) = Count(h2c, S) + (IF w \in S THEN 1 ELSE 0)
      /\ \A S : Count(h2c, S) \in Nat
  <2> HIDE DEF w
  <2> QED BY <1>0, <1>2, HostWriteFacts
<1>4. TypeOK'
  BY <1>0, <1>3 DEF TypeOK, Untouched
<1>5. ModeInv'
  BY <1>0 DEF ModeInv, Untouched
<1>6. CommandInv'
  <2>1. Count(h2c', Commands) = Count(h2c, Commands)
    BY <1>2, <1>3
  <2>2. AnsweredExactlyOnce'
    BY <1>0, <1>1, <2>1 DEF CommandInv, AnsweredExactlyOnce, CommandsOnTheWay, AnswersOnTheWay
  <2>3. \A i \in 1 .. Len(h2c') : h2c'[i] \in Commands => h2c'[i].op = command
    BY <1>0, <1>2, <1>3 DEF CommandInv
  <2> QED BY <1>0, <2>2, <2>3 DEF CommandInv
<1> HIDE DEF q
<1>7. OrderInv(Outgoing)'
  BY <1>0, <1>1 DEF OrderInv, Untouched
<1>8. ToldInv(Outgoing)'
  BY <1>0, <1>1 DEF ToldInv, Untouched, Linked
<1>9. ASSUME ~reenabled
      PROVE  HostInv(Outgoing)' /\ AclInv(Outgoing)' /\ (Linked' => LinkedInv(Outgoing)')
  <2>1. HostInv(q) /\ AclInv(q) /\ (Linked => LinkedInv(q))
    BY <1>9 DEF IInv, q
  <2>2. Enabling' => Enabling
    BY <1>0, <1>2, <1>3 DEF Enabling
  <2>3. HostInv(Outgoing)'
    BY <1>0, <1>1, <2>1, <2>2 DEF HostInv, Untouched
  <2>4. ~NoAcl /\ w.link = link
    BY <1>0, <2>1 DEF NoAcl, AclInv
  <2>5. AclInv(Outgoing)'
    <3>1. \A i \in 1 .. Len(h2c') : h2c'[i] \in AclPackets => h2c'[i].link = link
      BY <1>3, <2>1, <2>4 DEF AclInv
    <3> QED BY <1>0, <1>1, <2>1, <2>4, <3>1 DEF AclInv, Untouched
  <2>6. ASSUME view # 0 PROVE CreditsOnTheWay' = CreditsOnTheWay
    <3> DEFINE A == {Acl(view)}
               l == Len(acl)
               d == Count(Outgoing, {Event("CompletedPackets", view)})
               x == IF w = Acl(view) THEN 1 ELSE 0
    <3>1. Count(h2c', A) = Count(h2c, A) + x /\ Count(h2c, A) \in Nat
      BY <1>3
    <3>2. l \in Nat /\ d \in Nat /\ x \in Nat
      BY <1>0, CountType, OutgoingFacts DEF TypeOK
    <3>3. CreditsOnTheWay = x + Count(h2c, A) + l + d
      BY DEF CreditsOnTheWay
    <3>4. CreditsOnTheWay' = 0 + Count(h2c', A) + l + d
      <4>1. None # Acl(view)
        <5>1. view \in Links
          BY <1>0, <2>6, CapacityAssumption DEF TypeOK, Links
        <5> QED BY <5>1, AclFacts
      <4> QED BY <1>0, <1>1, <4>1 DEF CreditsOnTheWay, Untouched, q
    <3> HIDE DEF A, l, d, x
    <3> QED BY <3>1, <3>2, <3>3, <3>4
  <2>7. ASSUME Linked' PROVE LinkedInv(Outgoing)'
    BY <1>0, <1>1, <2>1, <2>6, <2>7 DEF LinkedInv, Current, Untouched, Linked
  <2> QED BY <2>3, <2>5, <2>7
<1> QED BY <1>0, <1>4, <1>5, <1>6, <1>7, <1>8, <1>9 DEF IInv

\* Reading the first event moves what the Host knows on by one event.
LEMMA KnowsShift ==
  ASSUME NEW v, NEW w, NEW q, NEW r, NEW n \in Nat, n > 0,
         \A i \in 1 .. n - 1 : r[i] = q[i + 1],
         Connecting(q[1]) => w # 0, ~Connecting(q[1]) /\ ~Clears(q[1]) => w = v,
         KnowsAfter(v, q, n)
  PROVE  KnowsAfter(w, r, n - 1)
<1>0. 1 \in 1 .. n /\ \A j \in 1 .. n - 1 : j + 1 \in 1 .. n
  OBVIOUS
<1>1. CASE v # 0 /\ \A j \in 1 .. n : ~Clears(q[j])
  <2>1. \A j \in 1 .. n - 1 : ~Clears(r[j])
    BY <1>0, <1>1
  <2>2. w # 0
    BY <1>0, <1>1
  <2> QED BY <2>1, <2>2 DEF KnowsAfter
<1>2. CASE \E i \in 1 .. n : Connecting(q[i]) /\ \A j \in i + 1 .. n : ~Clears(q[j])
  <2>1. PICK i \in 1 .. n : Connecting(q[i]) /\ \A j \in i + 1 .. n : ~Clears(q[j])
    BY <1>2
  <2>2. CASE i = 1
    <3>1. \A j \in 1 .. n - 1 : j + 1 \in i + 1 .. n
      BY <2>2
    <3>2. \A j \in 1 .. n - 1 : ~Clears(r[j])
      BY <2>1, <3>1
    <3>3. w # 0
      BY <2>1, <2>2
    <3> QED BY <3>2, <3>3 DEF KnowsAfter
  <2>3. CASE i # 1
    <3> DEFINE h == i - 1
    <3>1. h \in 1 .. n - 1 /\ h + 1 = i
      BY <2>3
    <3>2. \A j \in h + 1 .. n - 1 : j \in 1 .. n - 1 /\ j + 1 \in i + 1 .. n
      BY <3>1
    <3> HIDE DEF h
    <3>3. Connecting(r[h]) /\ \A j \in h + 1 .. n - 1 : ~Clears(r[j])
      BY <2>1, <3>1, <3>2
    <3> QED BY <3>1, <3>3 DEF KnowsAfter
  <2> QED BY <2>2, <2>3
<1> QED BY <1>1, <1>2 DEF KnowsAfter

\* The Host reads the first event.
LEMMA ReadsKeeps ==
  ASSUME IInv, HostReads
  PROVE  IInv'
<1> DEFINE q == Outgoing
           r == Outgoing'
           n == Len(q)
           m == Len(r)
           e == Head(c2h)
<1>0. /\ TypeOK /\ ModeInv /\ CommandInv /\ OrderInv(q) /\ ToldInv(q) /\ Untouched
      /\ UNCHANGED <<h2c, writer, acl_writer, reenabled>>
      /\ c2h # << >> /\ c2h' = Tail(c2h)
      /\ IF e.code \in {"CommandComplete", "CommandStatus"}
         THEN HostReadsAnswer(e) ELSE HostReadsEvent(e)
  BY DEF IInv, HostReads, runnerVars, maskVars, linkVars, Untouched
<1>1. /\ q \in Seq(Events) /\ q # << >> /\ Head(q) = e /\ r = Tail(q)
      /\ c2h' \in Seq(Events) /\ Len(c2h') <= EventCapacity
  <2>1. q \in Seq(Events) /\ q # << >> /\ Head(q) = e /\ Tail(q) = Tail(c2h) \o out
    BY <1>0, OutgoingFacts
  <2>2. r = Tail(c2h) \o out
    BY <1>0 DEF Outgoing, Untouched
  <2>3. Tail(c2h) \in Seq(Events) /\ Len(Tail(c2h)) = Len(c2h) - 1 /\ Len(c2h) \in Nat
    BY <1>0, TailFacts DEF TypeOK
  <2>4. Len(c2h) <= EventCapacity
    BY <1>0 DEF TypeOK
  <2>5. Len(c2h') <= EventCapacity
    BY <1>0, <2>3, <2>4, CapacityAssumption
  <2> QED BY <1>0, <2>1, <2>2, <2>3, <2>5
<1> HIDE DEF q, r, e
<1>2. /\ r \in Seq(Events) /\ n \in Nat /\ n > 0 /\ m = n - 1 /\ m \in Nat
      /\ q[1] = e /\ e \in Events /\ 1 \in 1 .. n
      /\ \A i \in 1 .. m : r[i] = q[i + 1] /\ i + 1 \in 1 .. n
      /\ \A i \in 1 .. n - 1 : r[i] = q[i + 1]
  <2>1. /\ r \in Seq(Events) /\ n \in Nat /\ n > 0 /\ m = n - 1
        /\ q[1] = e /\ e \in Events
        /\ \A i \in 1 .. n - 1 : r[i] = q[i + 1]
    BY <1>1, TailFacts
  <2> HIDE DEF n, m
  <2> QED BY <2>1
<1>3. \A S : Count(q, S) = (IF e \in S THEN 1 ELSE 0) + Count(r, S)
  BY <1>1, CountTail
<1>4. \A S : Count(r, S) \in Nat /\ Count(q, S) \in Nat
  BY <1>1, <1>2, CountType
<1> HIDE DEF n, m
<1>5. /\ e \in Answers <=> e.code \in {"CommandComplete", "CommandStatus"}
      /\ e \in Answers => e.op \in Opcodes /\ ~Connecting(e) /\ e.code # "Disconnection"
      /\ e \notin Answers => e \in Notices /\ e.link \in Links
  BY <1>2, EventKinds
<1>6. /\ e \in Answers => HostReadsAnswer(e)
      /\ e \notin Answers => HostReadsEvent(e)
  BY <1>0, <1>5
<1>7. TypeOK'
  <2>0. view \in 0 .. MaxLinks /\ unacked \in 0 .. Credits /\ advertises \in BOOLEAN
        /\ command \in Opcodes \cup {None}
    BY <1>0 DEF TypeOK
  <2>1. command' \in Opcodes \cup {None}
    BY <1>6, <2>0 DEF HostReadsAnswer, HostReadsEvent
  <2>2. advertises' \in BOOLEAN
    <3>1. CASE e \in Answers
      BY <1>6, <2>0, <3>1 DEF HostReadsAnswer
    <3>2. CASE e \notin Answers
      BY <1>6, <2>0, <3>2 DEF HostReadsEvent
    <3> QED BY <3>1, <3>2
  <2>3. view' \in 0 .. MaxLinks
    <3>1. 0 \in 0 .. MaxLinks /\ \A l \in Links : l \in 0 .. MaxLinks
      BY CapacityAssumption DEF Links
    <3> QED BY <1>5, <1>6, <2>0, <3>1 DEF HostReadsAnswer, HostReadsEvent
  <2>4. unacked' \in 0 .. Credits
    <3>1. 0 \in 0 .. Credits /\ (unacked > 0 => unacked - 1 \in 0 .. Credits)
      BY <2>0, CapacityAssumption
    <3> QED BY <1>5, <1>6, <2>0, <3>1 DEF HostReadsAnswer, HostReadsEvent
  <2> QED BY <1>0, <1>1, <2>1, <2>2, <2>3, <2>4 DEF TypeOK, Untouched
<1>8. ModeInv'
  BY <1>0 DEF ModeInv, Untouched
<1>9. /\ Connecting(e) => view' # 0
      /\ ~Connecting(e) /\ ~Clears(e) => view' = view
  <2>1. CASE e \in Answers
    <3>1. ~Connecting(e) /\ (~Clears(e) => e.op # "Reset")
      BY <1>5, <2>1 DEF Clears
    <3> QED BY <1>6, <2>1, <3>1 DEF HostReadsAnswer
  <2>2. CASE e \notin Answers
    <3>1. e.link # 0
      BY <1>5, <2>2 DEF Links
    <3> QED BY <1>6, <2>2, <3>1 DEF HostReadsEvent, Connecting, Clears
  <2> QED BY <2>1, <2>2
<1>10. CommandInv'
  <2>1. (IF writer = None THEN 0 ELSE 1) + Count(h2c, Commands) + Count(q, Answers)
          = IF command = None THEN 0 ELSE 1
    BY <1>0 DEF CommandInv, AnsweredExactlyOnce, CommandsOnTheWay, AnswersOnTheWay, q
  <2>2. \A i \in 1 .. n : q[i] \in Answers => q[i].op = command
    BY <1>0 DEF CommandInv, AnsweredExactlyOnce, q, n
  <2>3. Count(h2c, Commands) \in Nat
    BY <1>0, QueueFacts, CountType
  <2>4. CASE e \in Answers
    <3>1. Count(q, Answers) = 1 + Count(r, Answers) /\ Count(r, Answers) \in Nat
      BY <1>3, <1>4, <2>4
    <3>2. Count(r, Answers) = 0 /\ Count(h2c, Commands) = 0 /\ writer = None
      BY <2>1, <2>3, <3>1
    <3>3. command' = None
      BY <1>6, <2>4 DEF HostReadsAnswer
    <3>4. \A i \in 1 .. m : r[i] \notin Answers
      BY <1>2, <3>2, CountNone DEF m
    <3>5. \A i \in 1 .. Len(h2c) : h2c[i] \notin Commands
      BY <1>0, <3>2, QueueFacts, CountNone
    <3>6. AnsweredExactlyOnce'
      BY <1>0, <3>2, <3>3, <3>4 DEF AnsweredExactlyOnce, CommandsOnTheWay, AnswersOnTheWay, r, m
    <3> QED BY <1>0, <3>2, <3>5, <3>6 DEF CommandInv
  <2>5. CASE e \notin Answers
    <3>1. Count(q, Answers) = 0 + Count(r, Answers) /\ Count(r, Answers) \in Nat
      BY <1>3, <1>4, <2>5
    <3>2. command' = command
      BY <1>6, <2>5 DEF HostReadsEvent
    <3>3. \A i \in 1 .. m : r[i] \in Answers => r[i].op = command
      BY <1>2, <2>2
    <3>4. (IF writer = None THEN 0 ELSE 1) + Count(h2c, Commands) + Count(r, Answers)
            = IF command = None THEN 0 ELSE 1
      BY <2>1, <3>1
    <3>5. AnsweredExactlyOnce'
      BY <1>0, <3>2, <3>3, <3>4 DEF AnsweredExactlyOnce, CommandsOnTheWay, AnswersOnTheWay, r, m
    <3> QED BY <1>0, <3>2, <3>5 DEF CommandInv
  <2> QED BY <2>4, <2>5
<1>11. OrderInv(Outgoing)'
  <2>1. \A i \in 1 .. m : r[i] \in Notices => r[i].link <= link
    <3>1. \A i \in 1 .. n : q[i] \in Notices => q[i].link <= link
      BY <1>0 DEF OrderInv, n
    <3> QED BY <1>2, <3>1
  <2>2. ASSUME NEW k \in 1 .. m, r[k] \in Answers,
               r[k].op \in {"Reset", "Disable"} \/ Refusing(r[k])
        PROVE  ~enabled /\ \A i \in k + 1 .. m : ~Connecting(r[i])
    <3>1. k + 1 \in 1 .. n /\ r[k] = q[k + 1]
      BY <1>2
    <3>2. ~enabled /\ \A i \in (k + 1) + 1 .. n : ~Connecting(q[i])
      BY <1>0, <2>2, <3>1 DEF OrderInv, n
    <3>3. \A i \in k + 1 .. m : i \in 1 .. m /\ i + 1 \in (k + 1) + 1 .. n
      BY <1>2
    <3> QED BY <1>2, <3>2, <3>3
  <2> QED BY <1>0, <2>1, <2>2 DEF OrderInv, Untouched, r, m
<1>12. ToldInv(Outgoing)'
  <2> DEFINE v == view
             w == view'
  <2>1. ASSUME NEW k \in Nat, k > 0, k <= n, KnowsAfter(v, q, k)
        PROVE  KnowsAfter(w, r, k - 1)
    <3>1. Connecting(q[1]) => w # 0
      BY <1>2, <1>9
    <3>2. ~Connecting(q[1]) /\ ~Clears(q[1]) => w = v
      BY <1>2, <1>9
    <3>3. \A i \in 1 .. k - 1 : r[i] = q[i + 1]
      BY <1>2, <2>1
    <3> HIDE DEF v, w
    <3> QED BY <2>1, <3>1, <3>2, <3>3, KnowsShift
  <2>2. ASSUME Linked, announced PROVE KnowsAfter(w, r, m)
    <3>1. KnowsAfter(v, q, n)
      BY <1>0, <2>2 DEF ToldInv, n
    <3>2. n <= n
      BY <1>2
    <3> HIDE DEF v, w
    <3> QED BY <1>2, <2>1, <3>1, <3>2
  <2>3. ASSUME NEW k \in 1 .. m, r[k] \in Answers, Refusing(r[k]), announced
        PROVE  KnowsAfter(w, r, k - 1)
    <3>1. k + 1 \in 1 .. n /\ r[k] = q[k + 1]
      BY <1>2
    <3>2. KnowsAfter(v, q, (k + 1) - 1)
      BY <1>0, <2>3, <3>1 DEF ToldInv, n
    <3>3. (k + 1) - 1 = k /\ k \in Nat /\ k > 0 /\ k <= n
      BY <1>2
    <3> HIDE DEF v, w
    <3> QED BY <2>1, <3>2, <3>3
  <2> QED BY <1>0, <2>2, <2>3 DEF ToldInv, Untouched, Linked, r, m
<1>13. ASSUME ~reenabled
       PROVE  HostInv(Outgoing)' /\ AclInv(Outgoing)' /\ (Linked' => LinkedInv(Outgoing)')
  <2>1. HostInv(q) /\ AclInv(q) /\ (Linked => LinkedInv(q))
    BY <1>13 DEF IInv, q
  <2>2. Enabling' <=> Enabling
    BY <1>0 DEF Enabling
  <2>3. view' \in {0, link}
    <3>1. view \in {0, link} /\ (Connecting(e) => e.link = link)
      BY <1>2, <2>1 DEF HostInv, n
    <3> QED BY <1>6, <3>1 DEF HostReadsAnswer, HostReadsEvent, Connecting
  <2>4. e \in Answers => ~Enabling
    <3> SUFFICES ASSUME e \in Answers PROVE ~Enabling
      OBVIOUS
    <3>1. Count(h2c, Commands) = 0 /\ writer = None
      <4>1. (IF writer = None THEN 0 ELSE 1) + Count(h2c, Commands) + Count(q, Answers)
              = IF command = None THEN 0 ELSE 1
        BY <1>0 DEF CommandInv, AnsweredExactlyOnce, CommandsOnTheWay, AnswersOnTheWay, q
      <4>2. Count(h2c, Commands) \in Nat
        BY <1>0, QueueFacts, CountType
      <4>3. Count(q, Answers) = 1 + Count(r, Answers) /\ Count(r, Answers) \in Nat
        BY <1>3, <1>4
      <4> QED BY <4>1, <4>2, <4>3
    <3>2. \A i \in 1 .. Len(h2c) : h2c[i] \notin Commands
      BY <1>0, <3>1, QueueFacts, CountNone
    <3> QED BY <3>1, <3>2 DEF Enabling
  \* While advertising is on, or a link is still to be told, reading an answer
  \* or an older notice leaves what the Host believes alone.
  <2>5. ASSUME advertises, view = 0, ~Connecting(e),
               e \in Answers => e.op \notin {"Reset", "Disable"} /\ ~Refusing(e)
        PROVE  advertises' /\ view' = 0
    <3>1. CASE e \in Answers
      <4>1. e.op = "Enable" => e.status = "Success"
        BY <2>5, <3>1 DEF Refusing
      <4>2. e.op \notin {"Reset", "Disable"}
        BY <2>5, <3>1
      <4> QED BY <1>6, <2>5, <3>1, <4>1, <4>2 DEF HostReadsAnswer
    <3>2. CASE e \notin Answers
      BY <1>6, <2>5, <3>2 DEF HostReadsEvent, Connecting
    <3> QED BY <3>1, <3>2
  <2>6. e \in Answers /\ (e.op \in {"Reset", "Disable"} \/ Refusing(e)) =>
          ~enabled /\ \A i \in 1 .. m : ~Connecting(r[i])
    <3> SUFFICES ASSUME e \in Answers, e.op \in {"Reset", "Disable"} \/ Refusing(e)
                 PROVE  ~enabled /\ \A i \in 1 .. m : ~Connecting(r[i])
      OBVIOUS
    <3>1. ~enabled /\ \A i \in 1 + 1 .. n : ~Connecting(q[i])
      BY <1>0, <1>2 DEF OrderInv, n
    <3>2. \A i \in 1 .. m : i + 1 \in 1 + 1 .. n
      BY <1>2
    <3> QED BY <1>2, <3>1, <3>2
  <2>7. HostInv(Outgoing)'
    <3>1. ASSUME enabled \/ Enabling
          PROVE  advertises' /\ view' = 0 /\ \A i \in 1 .. m : ~Connecting(r[i])
      <4>1. advertises /\ view = 0 /\ \A i \in 1 .. n : ~Connecting(q[i])
        BY <2>1, <3>1 DEF HostInv, n
      <4>2. e \in Answers => e.op \notin {"Reset", "Disable"} /\ ~Refusing(e)
        BY <2>4, <2>6, <3>1
      <4> QED BY <1>2, <2>5, <4>1, <4>2
    <3>2. ASSUME NEW k \in 1 .. m, r[k] \in Answers, r[k].op = "Enable", r[k].status = "Success"
          PROVE  advertises' /\ view' = 0 /\ \A i \in 1 .. k - 1 : ~Connecting(r[i])
      <4>1. k + 1 \in 1 .. n /\ r[k] = q[k + 1]
        BY <1>2
      <4>2. advertises /\ view = 0 /\ \A i \in 1 .. (k + 1) - 1 : ~Connecting(q[i])
        BY <2>1, <3>2, <4>1 DEF HostInv, n
      <4>3. 1 \in 1 .. (k + 1) - 1 /\ \A i \in 1 .. k - 1 : i \in 1 .. m /\ i + 1 \in 1 .. (k + 1) - 1
        BY <1>2
      <4>4. e \notin Answers
        <5> SUFFICES ASSUME e \in Answers PROVE FALSE
          OBVIOUS
        <5>1. Count(q, Answers) = 1 + Count(r, Answers) /\ Count(r, Answers) \in Nat
          BY <1>3, <1>4
        <5>2. Count(r, Answers) # 0
          BY <1>2, <3>2, CountNone DEF m
        <5>3. (IF writer = None THEN 0 ELSE 1) + Count(h2c, Commands) + Count(q, Answers)
                = IF command = None THEN 0 ELSE 1
          BY <1>0 DEF CommandInv, AnsweredExactlyOnce, CommandsOnTheWay, AnswersOnTheWay, q
        <5>4. Count(h2c, Commands) \in Nat
          BY <1>0, QueueFacts, CountType
        <5> QED BY <5>1, <5>2, <5>3, <5>4
      <4>5. ~Connecting(e)
        BY <1>2, <4>2, <4>3
      <4> QED BY <1>2, <2>5, <4>2, <4>3, <4>4, <4>5
    <3>3. ASSUME NEW k \in 1 .. m, Connecting(r[k])
          PROVE  /\ advertises' /\ view' = 0 /\ r[k].link = link
                 /\ \A i \in 1 .. m : Connecting(r[i]) => i = k
      <4>1. k + 1 \in 1 .. n /\ r[k] = q[k + 1] /\ Connecting(q[k + 1])
        BY <1>2, <3>3
      <4>2. /\ advertises /\ view = 0 /\ q[k + 1].link = link
            /\ \A i \in 1 .. n : Connecting(q[i]) => i = k + 1
        BY <2>1, <4>1 DEF HostInv, n
      <4>3. 1 # k + 1 /\ \A i \in 1 .. m : i + 1 = k + 1 => i = k
        BY <1>2
      <4>4. ~Connecting(e)
        BY <1>2, <4>2, <4>3
      <4>5. \A i \in 1 .. m : Connecting(r[i]) => i = k
        BY <1>2, <4>2, <4>3
      <4> QED BY <2>5, <2>6, <3>3, <4>1, <4>2, <4>4, <4>5
    <3>4. ~(enabled /\ Enabling)
      BY <2>1 DEF HostInv
    <3> QED BY <1>0, <2>2, <2>3, <3>1, <3>2, <3>3, <3>4 DEF HostInv, Untouched, r, m
  <2>8. AclInv(Outgoing)'
    <3>1. (\E k \in 1 .. m : Connecting(r[k])) => \E k \in 1 .. n : Connecting(q[k])
      BY <1>2
    <3>2. NoAcl => NoAcl'
      BY <1>0 DEF NoAcl, Untouched
    <3>3. /\ acl_writer # None => acl_writer.link = link
          /\ \A i \in 1 .. Len(h2c) : h2c[i] \in AclPackets => h2c[i].link = link
          /\ \A i \in 1 .. Len(acl) : acl[i] = link
          /\ mode = "Advertising" \/ (\E k \in 1 .. m : Connecting(r[k])) => NoAcl
      BY <2>1, <3>1 DEF AclInv, n
    <3> QED BY <1>0, <3>2, <3>3 DEF AclInv, Untouched, r, m
  <2>9. ASSUME Linked' PROVE LinkedInv(Outgoing)'
    <3>0. Linked /\ LinkedInv(q)
      BY <1>0, <2>1, <2>9 DEF Linked, Untouched
    <3> DEFINE A == {Acl(view')}
               E == {Event("CompletedPackets", view')}
               x == IF acl_writer = Acl(view') THEN 1 ELSE 0
               c == Count(h2c, A)
    <3>1. CreditsOnTheWay' = x + c + Len(acl) + Count(r, E)
      BY <1>0 DEF CreditsOnTheWay, Untouched, r
    <3>2. x \in Nat /\ c \in Nat /\ Len(acl) \in Nat /\ Count(r, E) \in Nat
      BY <1>0, <1>4, QueueFacts, CountType DEF TypeOK
    <3>3. ASSUME view' # 0
          PROVE  /\ \A i \in 1 .. m : Current(r[i])
                 /\ unacked' = CreditsOnTheWay'
      <4>1. view' = link
        BY <2>3, <3>3
      <4>2. CASE Connecting(e)
        <5>1. /\ \A i \in 1 + 1 .. n : Current(q[i])
              /\ \A i \in 1 .. n : q[i] # Event("CompletedPackets", link)
          BY <1>2, <3>0, <4>2 DEF LinkedInv, n
        <5>2. \A i \in 1 .. m : i + 1 \in 1 + 1 .. n
          BY <1>2
        <5>3. \A i \in 1 .. m : Current(r[i]) /\ r[i] \notin E
          BY <1>2, <4>1, <5>1, <5>2
        <5>4. Count(r, E) = 0
          <6> HIDE DEF E
          <6> QED BY <1>2, <5>3, CountNone DEF m
        <5>5. NoAcl
          BY <1>2, <2>1, <4>2 DEF AclInv, n
        <5>6. link \in Links
          BY <1>0, <3>3, <4>1, CapacityAssumption DEF TypeOK, Links
        <5>7. c = 0
          <6>1. \A i \in 1 .. Len(h2c) : h2c[i] \notin A
            BY <4>1, <5>5, <5>6, AclFacts DEF NoAcl
          <6> HIDE DEF A
          <6> QED BY <1>0, <6>1, QueueFacts, CountNone
        <5>8. x = 0 /\ Len(acl) = 0
          BY <4>1, <5>5, <5>6, AclFacts DEF NoAcl
        <5>9. unacked' = 0
          <6>1. e \notin Answers /\ e.code = "ConnectionComplete"
            BY <1>5, <4>2 DEF Connecting
          <6> QED BY <1>6, <6>1 DEF HostReadsEvent
        <5> HIDE DEF A, E, x, c
        <5> QED BY <3>1, <5>3, <5>4, <5>7, <5>8, <5>9
      <4>3. CASE ~Connecting(e)
        <5>1. view # 0 /\ view' = view
          BY <1>6, <3>3, <4>3 DEF HostReadsAnswer, HostReadsEvent, Connecting
        <5>2. unacked = CreditsOnTheWay /\ \A i \in 1 .. n : Current(q[i])
          BY <3>0, <5>1 DEF LinkedInv, n
        <5>3. \A i \in 1 .. m : Current(r[i])
          BY <1>2, <5>2
        <5>4. CreditsOnTheWay = x + c + Len(acl) + Count(q, E)
          BY <5>1 DEF CreditsOnTheWay, q
        <5>5. Count(q, E) = (IF e \in E THEN 1 ELSE 0) + Count(r, E)
          BY <1>3
        <5>6. Current(e)
          BY <1>2, <5>2
        <5>7. e \in E <=> e \notin Answers /\ e.code = "CompletedPackets"
          <6>1. e \in E => e.code = "CompletedPackets"
            BY DEF Event
          <6>2. ASSUME e \notin Answers, e.code = "CompletedPackets" PROVE e \in E
            <7>1. e \in Notices /\ e.link = view'
              BY <1>5, <4>1, <5>6, <6>2 DEF Current
            <7> QED BY <6>2, <7>1 DEF Notices, Event
          <6>3. e \in Answers => e.code # "CompletedPackets"
            BY <1>5
          <6> QED BY <6>1, <6>2, <6>3
        <5> HIDE DEF A, E, x, c
        <5>8. CASE e \in E
          <6>1. unacked > 0 /\ unacked \in Nat
            BY <3>2, <5>2, <5>4, <5>5, <5>8
          <6>2. unacked' = unacked - 1
            BY <1>6, <5>7, <5>8, <6>1 DEF HostReadsEvent
          <6> QED BY <3>1, <3>2, <5>2, <5>3, <5>4, <5>5, <5>8, <6>2
        <5>9. CASE e \notin E
          <6>1. unacked' = unacked
            <7>1. CASE e \in Answers
              <8>1. e.op # "Reset"
                BY <5>6, <7>1 DEF Current, Clears
              <8> QED BY <1>6, <7>1, <8>1 DEF HostReadsAnswer
            <7>2. CASE e \notin Answers
              <8>1. e.code \notin {"ConnectionComplete", "Disconnection", "CompletedPackets"}
                BY <4>3, <5>6, <5>7, <5>9, <7>2 DEF Current, Clears, Connecting
              <8> QED BY <1>6, <7>2, <8>1 DEF HostReadsEvent
            <7> QED BY <7>1, <7>2
          <6> QED BY <3>1, <3>2, <5>2, <5>3, <5>4, <5>5, <5>9, <6>1
        <5> QED BY <5>8, <5>9
      <4> QED BY <4>2, <4>3
    <3>4. ASSUME NEW k \in 1 .. m, Connecting(r[k])
          PROVE  /\ \A i \in k + 1 .. m : Current(r[i])
                 /\ \A i \in 1 .. m : r[i] # Event("CompletedPackets", link)
      <4>1. k + 1 \in 1 .. n /\ Connecting(q[k + 1])
        BY <1>2, <3>4
      <4>2. /\ \A i \in (k + 1) + 1 .. n : Current(q[i])
            /\ \A i \in 1 .. n : q[i] # Event("CompletedPackets", link)
        BY <3>0, <4>1 DEF LinkedInv, n
      <4>3. \A i \in k + 1 .. m : i \in 1 .. m /\ i + 1 \in (k + 1) + 1 .. n
        BY <1>2
      <4> QED BY <1>2, <4>2, <4>3
    <3> HIDE DEF A, E, x, c
    <3>5. link' = link
      BY <1>0 DEF Untouched
    <3> QED BY <3>3, <3>4, <3>5 DEF LinkedInv, Current, r, m
  <2> QED BY <2>7, <2>8, <2>9
<1> QED BY <1>0, <1>7, <1>8, <1>10, <1>11, <1>12, <1>13 DEF IInv, q, r

-----------------------------------------------------------------------------
(***************************************************************************)
(* The theorems.                                                           *)
(***************************************************************************)
\* The invariant holds when the runner starts.
LEMMA InitKeeps ==
  ASSUME Init
  PROVE  IInv
<1>0. /\ h2c = << >> /\ c2h = << >> /\ out = << >> /\ acl = << >>
      /\ Len(h2c) = 0 /\ Len(c2h) = 0
      /\ h2c \in Seq(Packets) /\ c2h \in Seq(Events) /\ out \in Seq(Events) /\ acl \in Seq(Links)
  BY DEF Init
<1>1. Outgoing \in Seq(Events) /\ Len(Outgoing) = 0
  BY <1>0 DEF Outgoing
<1>2. TypeOK
  <2>1. 0 \in 0 .. MaxLinks /\ 0 \in 0 .. Credits /\ 0 <= HostCapacity /\ 0 <= EventCapacity
    BY CapacityAssumption
  <2> QED BY <1>0, <2>1 DEF Init, TypeOK
<1>3. ModeInv
  BY DEF Init, ModeInv
<1>4. CommandInv
  <2>1. \A i \in 1 .. Len(h2c) : FALSE
    BY <1>0
  <2>2. \A i \in 1 .. Len(Outgoing) : FALSE
    BY <1>1
  <2>3. Count(h2c, Commands) = 0 /\ Count(Outgoing, Answers) = 0
    BY <1>0, <1>1, <2>1, <2>2, CountNone
  <2>4. writer = None /\ command = None
    BY DEF Init
  <2>5. CommandsOnTheWay + AnswersOnTheWay = 0
    BY <2>3, <2>4 DEF CommandsOnTheWay, AnswersOnTheWay
  <2>6. AnsweredExactlyOnce
    BY <2>2, <2>4, <2>5 DEF AnsweredExactlyOnce
  <2> QED BY <2>1, <2>4, <2>6 DEF CommandInv
<1>5. /\ mode = "Standby" /\ ~enabled /\ ~Enabling /\ view = 0 /\ acl_writer = None
      /\ Len(acl) = 0 /\ Len(h2c) = 0
  BY <1>0 DEF Init, Enabling
<1> DEFINE q == Outgoing
<1> HIDE DEF q
<1>6. Len(q) = 0
  BY <1>1 DEF q
<1>7. OrderInv(q) /\ ToldInv(q)
  BY <1>5, <1>6 DEF OrderInv, ToldInv, Linked
<1>8. HostInv(q) /\ AclInv(q) /\ ~Linked
  BY <1>5, <1>6 DEF HostInv, AclInv, Linked
<1> QED BY <1>2, <1>3, <1>4, <1>7, <1>8 DEF IInv, q

\* Every step of the runner and of the Host keeps the invariant.
LEMMA NextKeeps ==
  ASSUME IInv, [Next]_vars
  PROVE  IInv'
<1>1. CASE UNCHANGED vars
  <2>1. /\ UNCHANGED <<h2c, enabled, link, announced, hostVars>> /\ acl' = acl
        /\ UNCHANGED <<c2h, out, mode, event_mask, le_event_mask, link_connected, terminating>>
    BY <1>1 DEF vars, queueVars, runnerVars, maskVars, linkVars
  <2>2. TypeOK'
    BY <2>1 DEF IInv, TypeOK, hostVars
  <2>3. ModeInv'
    BY <2>1 DEF IInv, ModeInv
  <2>4. Outgoing' = Outgoing /\ (Linked' => Linked)
    BY <2>1 DEF Outgoing, Linked
  <2>5. CASE mode' = "Advertising" => NoAcl
    BY <2>1, <2>2, <2>3, <2>4, <2>5, QuietKeeps
  <2>6. CASE ~(mode' = "Advertising" => NoAcl)
    <3>1. reenabled /\ reenabled'
      BY <2>1, <2>6 DEF IInv, AclInv, hostVars
    <3>2. UNCHANGED <<command, writer, acl_writer, view, advertises, unacked, reenabled>>
      BY <2>1 DEF hostVars
    <3>3. CommandInv'
      BY <2>1, <2>4, <3>2
      DEF IInv, CommandInv, AnsweredExactlyOnce, CommandsOnTheWay, AnswersOnTheWay
    <3>4. OrderInv(Outgoing)' /\ ToldInv(Outgoing)'
      BY <2>1, <2>4, <3>2 DEF IInv, OrderInv, ToldInv, Linked
    <3> QED BY <2>2, <2>3, <3>1, <3>3, <3>4 DEF IInv
  <2> QED BY <2>5, <2>6
<1>2. CASE Runner
  BY <1>2, QuietStepsKeep, HostPacketKeeps, ConnectsKeeps, ConnectedPacketKeeps, TimesOutKeeps,
     SkipsKeeps, EventStartsKeeps, EventEndsKeeps DEF Runner
<1>3. CASE Host
  BY <1>3, IssuesCommandKeeps, WritesCommandKeeps, IssuesAclKeeps, WritesAclKeeps, ReadsKeeps
  DEF Host
<1> QED BY <1>1, <1>2, <1>3 DEF Next

\* The invariant holds in every reachable state.
THEOREM HostInvariant == Spec => []IInv
<1>1. Init => IInv
  BY InitKeeps
<1>2. IInv /\ [Next]_vars => IInv'
  BY NextKeeps
<1> QED BY <1>1, <1>2, PTL DEF Spec

\* The two queues of controller.rs stay within their capacities, and every
\* variable keeps its type.
THEOREM HostTypes == Spec => []TypeOK
<1>1. IInv => TypeOK
  BY DEF IInv
<1> QED BY <1>1, HostInvariant, PTL

\* run_connection queues an ACL packet only on the link the Host sent it for,
\* although every link has handle 1.
THEOREM HostNoStaleAcl == Spec => []NoStaleAcl
<1>1. IInv => NoStaleAcl
  <2> SUFFICES ASSUME IInv, ~reenabled PROVE \A i \in DOMAIN acl : acl[i] = link
    BY DEF NoStaleAcl
  <2>1. acl \in Seq(Links) /\ \A i \in 1 .. Len(acl) : acl[i] = link
    BY DEF IInv, TypeOK, AclInv
  <2> QED BY <2>1
<1> QED BY <1>1, HostInvariant, PTL

\* Every command of the Host is answered at most once, by its own answer,
\* across standby, connection, Reset and the loss of the link.
THEOREM HostAnswered == Spec => []AnsweredExactlyOnce
<1>1. IInv => AnsweredExactlyOnce
  BY DEF IInv, CommandInv
<1> QED BY <1>1, HostInvariant, PTL

\* A Host that reads that advertising is disallowed knows of the link that
\* forbids it, or has masked its Connection Complete.
THEOREM HostRefusals == Spec => []RefusalExplained
<1>1. IInv => RefusalExplained
  <2> DEFINE e == Answer("CommandComplete", "Enable", "Disallowed")
             q == Outgoing
  <2> SUFFICES ASSUME IInv, c2h # << >>, Head(c2h) = e, announced
               PROVE  view # 0
    BY DEF RefusalExplained
  <2>1. e \in Answers /\ Refusing(e)
    BY DEF Answer, Answers, Refusing, Opcodes, Statuses
  <2>2. TypeOK /\ ToldInv(q)
    BY DEF IInv
  <2>3. q \in Seq(Events) /\ q # << >> /\ Head(q) = e
    BY <2>2, OutgoingFacts
  <2> HIDE DEF e, q
  <2>4. q[1] = e /\ 1 \in 1 .. Len(q)
    BY <2>3, TailFacts
  <2>5. KnowsAfter(view, q, 1 - 1)
    BY <2>1, <2>2, <2>4 DEF ToldInv
  <2> QED BY <2>5 DEF KnowsAfter
<1> QED BY <1>1, HostInvariant, PTL

\* A credit is neither lost nor made up while a link lasts.
THEOREM HostCredits == Spec => []CreditsConserved
<1>1. IInv => CreditsConserved
  BY DEF IInv, CreditsConserved, LinkedInv, Linked
<1> QED BY <1>1, HostInvariant, PTL
=============================================================================
