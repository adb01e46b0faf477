--------------------------- MODULE HostInterface ---------------------------
(***************************************************************************)
(* The in-process HCI boundary and the runner behind it: the two bounded   *)
(* queues of controller.rs, the runner's life cycle (standby, advertising, *)
(* connected) and the commands that change it.                             *)
(*                                                                         *)
(* The runner is one sequential task.  `out` holds what its current        *)
(* handler still has to send: while it is not empty the task is suspended  *)
(* in Channel::send and takes no other step.  The Host has one reader and  *)
(* two writers, for commands and for ACL data; the writers of a full queue *)
(* are not served in any order.  Every link has connection handle 1, so    *)
(* the link numbers in packets and events are not visible to the code.     *)
(* What a connection event does to the link itself is the subject of       *)
(* modules LinkArq and Connection.                                         *)
(***************************************************************************)
EXTENDS Naturals, Sequences, FiniteSets

CONSTANTS
  HostCapacity,    \* HOST_TO_CONTROLLER_CAPACITY
  EventCapacity,   \* CONTROLLER_TO_HOST_CAPACITY
  Credits,         \* ACL_CREDITS
  MaxLinks,        \* connections made (bounds the model)
  EventMasks,      \* masks the Host may set with Set Event Mask
  LeEventMasks,    \* masks the Host may set with LE Set Event Mask
  None             \* no command, no packet

ASSUME CapacityAssumption ==
  /\ HostCapacity \in Nat \ {0} /\ EventCapacity \in Nat \ {0} /\ Credits \in Nat \ {0}
  /\ MaxLinks \in Nat

Bypassing == {"CommandComplete", "CommandStatus", "CompletedPackets"}
LeMeta == {"ConnectionComplete", "ConnectionUpdateComplete"}
MaskBits == {"Disconnection", "LeMeta"}

ASSUME HostAssumption ==
  EventMasks \subseteq SUBSET MaskBits /\ LeEventMasks \subseteq SUBSET LeMeta

Statuses == {"Success", "Disallowed", "Busy", "Invalid", "Unknown"}
Opcodes == {"Reset", "SetEventMask", "SetLeEventMask", "Enable", "Disable",
            "SetAddress", "Other", "Disconnect", "ConnectionUpdate"}
Command(op, mask) == [kind |-> "Cmd", op |-> op, mask |-> mask]
Acl(link) == [kind |-> "Acl", link |-> link]
Event(code, link) == [code |-> code, link |-> link]
Answer(code, op, status) == [code |-> code, op |-> op, status |-> status]
\* The masks the Host may send with a command.
MaskChoices(op) ==
  IF op = "SetEventMask" THEN EventMasks
  ELSE IF op = "SetLeEventMask" THEN LeEventMasks
  ELSE {{}}

Links == 1 .. MaxLinks
Commands ==
  {c \in [kind : {"Cmd"}, op : Opcodes, mask : SUBSET (MaskBits \cup LeMeta)] :
     c.mask \in MaskChoices(c.op)}
AclPackets == [kind : {"Acl"}, link : Links]
Packets == AclPackets \cup Commands
Notices ==
  [code : LeMeta \cup {"Disconnection", "CompletedPackets", "AclData"}, link : Links]
Answers ==
  [code : {"CommandComplete", "CommandStatus"}, op : Opcodes, status : Statuses]
Events == Notices \cup Answers

ASSUME NoneAssumption ==
  None \notin Opcodes /\ None \notin Commands /\ None \notin AclPackets

VARIABLES
  h2c,             \* HOST_TO_CONTROLLER
  c2h,             \* CONTROLLER_TO_HOST
  out,             \* what the runner's current handler still has to send
  mode,            \* where the runner is
  event_mask,      \* EVENT_MASK
  le_event_mask,   \* LE_EVENT_MASK
  enabled,         \* advertiser.enabled
  link_connected,  \* LINK_CONNECTED
  link,            \* number of the last connection
  acl,             \* the connection's ACL queue: the link of each packet
  terminating,     \* a local Termination procedure is active
  announced,       \* the Connection Complete of `link` passed the masks
  command,         \* Host: the command without an answer
  writer,          \* Host: the command waiting for room in h2c
  acl_writer,      \* Host: the ACL packet waiting for room in h2c
  view,            \* Host: the link it believes in, 0 for none
  advertises,      \* Host: it believes that advertising is on
  unacked,         \* Host: ACL packets without a credit returned
  reenabled        \* Host: it has enabled advertising it believed was on

queueVars == <<h2c, c2h>>
maskVars == <<event_mask, le_event_mask>>
linkVars == <<link_connected, link, acl, terminating, announced>>
runnerVars == <<out, mode, maskVars, enabled, linkVars>>
hostVars == <<command, writer, acl_writer, view, advertises, unacked, reenabled>>
vars == <<queueVars, runnerVars, hostVars>>

Init ==
  /\ h2c = << >> /\ c2h = << >> /\ out = << >>
  /\ mode = "Standby"
  /\ event_mask = MaskBits /\ le_event_mask = LeMeta
  /\ enabled = FALSE /\ link_connected = FALSE
  /\ link = 0 /\ acl = << >> /\ terminating = FALSE /\ announced = FALSE
  /\ command = None /\ writer = None /\ acl_writer = None
  /\ view = 0 /\ advertises = FALSE /\ unacked = 0
  /\ reenabled = FALSE
-----------------------------------------------------------------------------
(***************************************************************************)
(* The transport.                                                          *)
(***************************************************************************)
\* Mutant of EventEnabled: credit events can be masked too.
EventEnabledMasksCredits(code, base, le) ==
  \/ code = "Disconnection" /\ "Disconnection" \in base
  \/ code \in LeMeta /\ "LeMeta" \in base /\ code \in le

\* event_enabled: command and credit events bypass both masks.
EventEnabled(code, base, le) ==
  \/ code \in Bypassing
  \/ code = "Disconnection" /\ "Disconnection" \in base
  \/ code \in LeMeta /\ "LeMeta" \in base /\ code \in le

\* controller::event: the event, or nothing when it is masked.
Emit(code) ==
  IF EventEnabled(code, event_mask, le_event_mask) THEN <<Event(code, link)>> ELSE << >>

Complete(op, status) == <<Answer("CommandComplete", op, status)>>
Status(op, status) == <<Answer("CommandStatus", op, status)>>

\* Channel::send of the runner's next packet, once there is room for it.
SendControllerPacket ==
  /\ out # << >> /\ Len(c2h) < EventCapacity
  /\ c2h' = Append(c2h, Head(out))
  /\ out' = Tail(out)
  /\ UNCHANGED <<h2c, mode, maskVars, enabled, linkVars, hostVars>>
-----------------------------------------------------------------------------
(***************************************************************************)
(* HCI commands.                                                           *)
(***************************************************************************)
ResetController ==
  /\ event_mask' = MaskBits /\ le_event_mask' = LeMeta
  /\ enabled' = FALSE

SetAdvertisingEnable(on) ==
  IF on /\ link_connected
  THEN out' = Complete("Enable", "Disallowed") /\ UNCHANGED enabled
  ELSE /\ enabled' = on
       /\ out' = Complete(IF on THEN "Enable" ELSE "Disable", "Success")

\* handle_command: the answer, and what the command changes.  SetAddress
\* stands for the address and the parameters, refused while advertising;
\* Other for the reads, the advertising data and what is unsupported.
HandleCommand(packet) ==
  \/ /\ packet.op = "Reset"
     /\ ResetController
     /\ out' = Complete("Reset", "Success")
  \/ /\ packet.op = "SetEventMask"
     /\ event_mask' = packet.mask
     /\ out' = Complete(packet.op, "Success")
     /\ UNCHANGED <<le_event_mask, enabled>>
  \/ /\ packet.op = "SetLeEventMask"
     /\ le_event_mask' = packet.mask
     /\ out' = Complete(packet.op, "Success")
     /\ UNCHANGED <<event_mask, enabled>>
  \/ /\ packet.op \in {"Enable", "Disable"}
     /\ SetAdvertisingEnable(packet.op = "Enable")
     /\ UNCHANGED maskVars
  \/ /\ packet.op = "SetAddress"
     /\ \E status \in IF enabled THEN {"Disallowed"} ELSE {"Success", "Invalid"} :
          out' = Complete(packet.op, status)
     /\ UNCHANGED <<maskVars, enabled>>
  \/ /\ packet.op = "Other"
     /\ \/ \E status \in {"Success", "Invalid", "Unknown"} : out' = Complete(packet.op, status)
        \/ out' = Status(packet.op, "Disallowed")
     /\ UNCHANGED <<maskVars, enabled>>
  \/ /\ packet.op = "Disconnect"
     /\ out' = Complete(packet.op, "Unknown")
     /\ UNCHANGED <<maskVars, enabled>>
  \/ /\ packet.op = "ConnectionUpdate"
     /\ out' = Status(packet.op, "Disallowed")
     /\ UNCHANGED <<maskVars, enabled>>

\* Mutant of ConnectedReset: Reset is completed before it is handled as well.
ConnectedResetTwice(packet) ==
  /\ packet.op = "Reset"
  /\ ResetController
  /\ out' = Complete("Reset", "Success") \o Complete("Reset", "Success")
            \o <<Event("Disconnection", link)>>
  /\ mode' = "Closing"
  /\ UNCHANGED linkVars

\* Reset restores the masks, so the disconnection that follows its answer
\* is never masked.
ConnectedReset(packet) ==
  /\ packet.op = "Reset"
  /\ ResetController
  /\ out' = Complete("Reset", "Success") \o <<Event("Disconnection", link)>>
  /\ mode' = "Closing"
  /\ UNCHANGED linkVars

\* Mutant of ConnectedDisconnect: a second Disconnect is ignored.
ConnectedDisconnectIgnored(packet) ==
  /\ packet.op = "Disconnect"
  /\ IF terminating
     THEN out' = << >> /\ UNCHANGED terminating
     ELSE \E status \in {"Success", "Busy"} :
            /\ out' = Status(packet.op, status)
            /\ terminating' = (status = "Success")
  /\ UNCHANGED <<mode, maskVars, enabled, link_connected, link, acl, announced>>

\* Whether the procedure can be queued is decided by module Connection.
ConnectedDisconnect(packet) ==
  /\ packet.op = "Disconnect"
  /\ IF terminating
     THEN out' = Status(packet.op, "Disallowed") /\ UNCHANGED terminating
     ELSE \E status \in {"Success", "Busy"} :
            /\ out' = Status(packet.op, status)
            /\ terminating' = (status = "Success")
  /\ UNCHANGED <<mode, maskVars, enabled, link_connected, link, acl, announced>>

ConnectedUpdate(packet) ==
  /\ packet.op = "ConnectionUpdate"
  /\ \E status \in {"Success", "Busy", "Invalid"} : out' = Status(packet.op, status)
  /\ UNCHANGED <<mode, maskVars, enabled, linkVars>>

\* handle_connected_command: the other commands are handled as in standby.
HandleConnectedCommand(packet) ==
  \/ ConnectedReset(packet)
  \/ ConnectedDisconnect(packet)
  \/ ConnectedUpdate(packet)
  \/ /\ packet.op \notin {"Reset", "Disconnect", "ConnectionUpdate"}
     /\ HandleCommand(packet)
     /\ UNCHANGED <<mode, linkVars>>
-----------------------------------------------------------------------------
(***************************************************************************)
(* The runner.                                                             *)
(***************************************************************************)
\* Runner::run takes a packet: ACL data is dropped outside a connection.
HandleHostPacket ==
  /\ mode = "Standby" /\ out = << >> /\ h2c # << >>
  /\ IF Head(h2c).kind = "Acl"
     THEN UNCHANGED <<out, maskVars, enabled>>
     ELSE HandleCommand(Head(h2c))
  /\ h2c' = Tail(h2c)
  /\ UNCHANGED <<c2h, mode, linkVars, hostVars>>

\* The interval timer fires; select polls the packet first.  It fires 20 ms
\* or more after the last packet was taken: a Host writer that was waiting
\* for room has run by then.
AdvertisingStarts ==
  /\ mode = "Standby" /\ out = << >> /\ h2c = << >> /\ enabled
  /\ writer = None /\ acl_writer = None
  /\ mode' = "Advertising"
  /\ UNCHANGED <<queueVars, out, maskVars, enabled, linkVars, hostVars>>

\* No valid CONNECT_IND on any channel.
AdvertisingEnds ==
  /\ mode = "Advertising"
  /\ mode' = "Standby"
  /\ UNCHANGED <<queueVars, out, maskVars, enabled, linkVars, hostVars>>

\* Mutant of Connects: advertising stays enabled.
ConnectsStillEnabled ==
  /\ mode = "Advertising" /\ link < MaxLinks
  /\ link_connected' = TRUE
  /\ link' = link + 1
  /\ acl' = << >> /\ terminating' = FALSE
  /\ announced' = EventEnabled("ConnectionComplete", event_mask, le_event_mask)
  /\ out' = IF announced' THEN <<Event("ConnectionComplete", link')>> ELSE << >>
  /\ mode' = "Connection"
  /\ UNCHANGED <<queueVars, maskVars, enabled, hostVars>>

\* A valid CONNECT_IND: the connection starts and the Host is told.
Connects ==
  /\ mode = "Advertising" /\ link < MaxLinks
  /\ enabled' = FALSE
  /\ link_connected' = TRUE
  /\ link' = link + 1
  /\ acl' = << >> /\ terminating' = FALSE
  /\ announced' = EventEnabled("ConnectionComplete", event_mask, le_event_mask)
  /\ out' = IF announced' THEN <<Event("ConnectionComplete", link')>> ELSE << >>
  /\ mode' = "Connection"
  /\ UNCHANGED <<queueVars, maskVars, hostVars>>

\* process_connected_host_packet, from the drain loop or from select.
ProcessConnectedHostPacket ==
  /\ mode = "Connection" /\ out = << >> /\ h2c # << >>
  /\ IF Head(h2c).kind = "Acl"
     THEN /\ acl' = Append(acl, Head(h2c).link)
          /\ UNCHANGED <<out, mode, maskVars, enabled, link_connected, link,
                         terminating, announced>>
     ELSE HandleConnectedCommand(Head(h2c))
  /\ h2c' = Tail(h2c)
  /\ UNCHANGED <<c2h, hostVars>>

\* The link is lost: emit_disconnection and return from run_connection.
LinkEnds(sent) ==
  /\ out' = sent \o Emit("Disconnection")
  /\ mode' = "Closing"

\* A procedure or supervision timeout, found with the Host queue drained.
TimesOut ==
  /\ mode = "Connection" /\ out = << >> /\ h2c = << >>
  /\ LinkEnds(<< >>)
  /\ UNCHANGED <<queueVars, maskVars, enabled, linkVars, hostVars>>

UpdateNotice(update) == IF update THEN Emit("ConnectionUpdateComplete") ELSE << >>

\* Expired events are skipped, over an instant perhaps; the loop starts again.
SkipsExpiredEvents ==
  /\ mode = "Connection" /\ out = << >> /\ h2c = << >>
  /\ out' = UpdateNotice(TRUE)
  /\ UNCHANGED <<queueVars, mode, maskVars, enabled, linkVars, hostVars>>

\* The receive window opens: again select polls the packet first.  The
\* Host may write into the queue while the radio exchange is awaited.
ConnectionEventStarts(update) ==
  /\ mode = "Connection" /\ out = << >> /\ h2c = << >>
  /\ mode' = "Event"
  /\ out' = UpdateNotice(update)
  /\ UNCHANGED <<queueVars, maskVars, enabled, linkVars, hostVars>>

\* What one connection event sends to the Host, in the order of the code:
\* a credit for an acknowledged packet, Central data, a finished update.
EventSends(completes, data, update) ==
  (IF completes THEN Emit("CompletedPackets") ELSE << >>)
    \o (IF data THEN <<Event("AclData", link)>> ELSE << >>)
    \o UpdateNotice(update)

ConnectionEventEnds(completes, data, update, ends) ==
  /\ mode = "Event" /\ out = << >>
  /\ completes => acl # << >>
  /\ acl' = IF completes THEN Tail(acl) ELSE acl
  /\ IF ends THEN LinkEnds(EventSends(completes, data, update))
     ELSE out' = EventSends(completes, data, update) /\ mode' = "Connection"
  /\ UNCHANGED <<queueVars, maskVars, enabled, link_connected, link, terminating,
                 announced, hostVars>>

\* Mutant of LinkClosed: LINK_CONNECTED stays set.
LinkClosedStaysConnected ==
  /\ mode = "Closing" /\ out = << >>
  /\ mode' = "Standby"
  /\ acl' = << >> /\ terminating' = FALSE
  /\ UNCHANGED <<queueVars, out, maskVars, enabled, link_connected, link, announced, hostVars>>

\* The disconnection has been queued: the connection is dropped.
LinkClosed ==
  /\ mode = "Closing" /\ out = << >>
  /\ mode' = "Standby"
  /\ link_connected' = FALSE
  /\ acl' = << >> /\ terminating' = FALSE
  /\ UNCHANGED <<queueVars, out, maskVars, enabled, link, announced, hostVars>>

Runner ==
  \/ SendControllerPacket
  \/ HandleHostPacket
  \/ AdvertisingStarts
  \/ AdvertisingEnds
  \/ Connects
  \/ ProcessConnectedHostPacket
  \/ TimesOut
  \/ SkipsExpiredEvents
  \/ \E update \in BOOLEAN : ConnectionEventStarts(update)
  \/ \E completes, data, update, ends \in BOOLEAN :
       ConnectionEventEnds(completes, data, update, ends)
  \/ LinkClosed
-----------------------------------------------------------------------------
(***************************************************************************)
(* The Host: one command at a time, ACL data within its credits, and no    *)
(* advertising while it knows of a link.  It may run arbitrarily late      *)
(* behind the events in c2h.                                               *)
(***************************************************************************)
HostIssuesCommand(op) ==
  /\ command = None
  /\ op \in {"Enable", "SetAddress"} => view = 0
  /\ op = "Enable" => ~(advertises /\ reenabled)
  /\ op \in {"Disconnect", "ConnectionUpdate"} => view # 0
  /\ command' = op
  /\ \E mask \in MaskChoices(op) : writer' = Command(op, mask)
  /\ advertises' = (advertises \/ op = "Enable")
  /\ reenabled' = (reenabled \/ (advertises /\ op = "Enable"))
  /\ UNCHANGED <<queueVars, runnerVars, acl_writer, view, unacked>>

HostWritesCommand ==
  /\ writer # None /\ Len(h2c) < HostCapacity
  /\ h2c' = Append(h2c, writer)
  /\ writer' = None
  /\ UNCHANGED <<c2h, runnerVars, command, acl_writer, view, advertises, unacked, reenabled>>

HostIssuesAcl ==
  /\ view # 0 /\ acl_writer = None /\ unacked < Credits
  /\ acl_writer' = Acl(view)
  /\ unacked' = unacked + 1
  /\ UNCHANGED <<queueVars, runnerVars, command, writer, view, advertises, reenabled>>

HostWritesAcl ==
  /\ acl_writer # None /\ Len(h2c) < HostCapacity
  /\ h2c' = Append(h2c, acl_writer)
  /\ acl_writer' = None
  /\ UNCHANGED <<c2h, runnerVars, command, writer, view, advertises, unacked, reenabled>>

\* A completed Reset ends what the Host knew of its links.
HostReadsAnswer(answer) ==
  /\ command' = None
  /\ IF answer.op = "Reset" THEN view' = 0 /\ unacked' = 0 ELSE UNCHANGED <<view, unacked>>
  /\ advertises' = CASE answer.op \in {"Reset", "Disable"} -> FALSE
                     [] answer.op = "Enable" -> answer.status = "Success" /\ view = 0
                     [] OTHER -> advertises

HostReadsEvent(event) ==
  /\ UNCHANGED command
  /\ view' = CASE event.code = "ConnectionComplete" -> event.link
               [] event.code = "Disconnection" -> 0
               [] OTHER -> view
  /\ advertises' = (advertises /\ event.code # "ConnectionComplete")
  /\ unacked' = CASE event.code \in {"ConnectionComplete", "Disconnection"} -> 0
                  [] event.code = "CompletedPackets" /\ unacked > 0 -> unacked - 1
                  [] OTHER -> unacked

HostReads ==
  /\ c2h # << >>
  /\ IF Head(c2h).code \in {"CommandComplete", "CommandStatus"}
     THEN HostReadsAnswer(Head(c2h))
     ELSE HostReadsEvent(Head(c2h))
  /\ c2h' = Tail(c2h)
  /\ UNCHANGED <<h2c, runnerVars, writer, acl_writer, reenabled>>

Host ==
  \/ \E op \in Opcodes : HostIssuesCommand(op)
  \/ HostWritesCommand
  \/ HostIssuesAcl
  \/ HostWritesAcl
  \/ HostReads

Next == Runner \/ Host

Spec == Init /\ [][Next]_vars

\* The runner is polled, the Host keeps reading and its command writer is
\* not passed over for ever by its ACL writer.
Fairness ==
  /\ WF_vars(Runner)
  /\ WF_vars(HostReads)
  /\ SF_vars(HostWritesCommand)

FairSpec == Spec /\ Fairness
-----------------------------------------------------------------------------
\* Type invariant, with the bounds of the two queues.
TypeOK ==
  /\ h2c \in Seq(Packets) /\ Len(h2c) <= HostCapacity
  /\ c2h \in Seq(Events) /\ Len(c2h) <= EventCapacity
  /\ out \in Seq(Events)
  /\ mode \in {"Standby", "Advertising", "Connection", "Event", "Closing"}
  /\ event_mask \subseteq MaskBits /\ le_event_mask \subseteq LeMeta
  /\ enabled \in BOOLEAN /\ link_connected \in BOOLEAN
  /\ link \in 0 .. MaxLinks /\ acl \in Seq(Links)
  /\ terminating \in BOOLEAN /\ announced \in BOOLEAN
  /\ command \in Opcodes \cup {None} /\ writer \in Commands \cup {None}
  /\ acl_writer \in AclPackets \cup {None}
  /\ view \in 0 .. MaxLinks /\ advertises \in BOOLEAN /\ unacked \in 0 .. Credits
  /\ reenabled \in BOOLEAN

\* With a Host that does not enable advertising twice (~reenabled),
\* an ACL packet is only ever queued on the link the Host sent it for,
\* although every link has handle 1, the packet may wait in or before the
\* queue while its link is lost and advertising is enabled again, and
\* run_connection queues whatever it finds.
NoStaleAcl == ~reenabled => \A i \in DOMAIN acl : acl[i] = link

\* How many elements of a sequence are members of a set.
Count(s, S) == Cardinality({i \in 1 .. Len(s) : s[i] \in S})

\* What is on its way to the Host.
Outgoing == c2h \o out
CommandsOnTheWay == (IF writer = None THEN 0 ELSE 1) + Count(h2c, Commands)
AnswersOnTheWay == Count(Outgoing, Answers)

\* Every command is answered at most once, by the answer to that command,
\* and the Host waits for nothing else: across standby, connection, Reset
\* and link loss exactly one of command and answer is on the way.
AnsweredExactlyOnce ==
  /\ CommandsOnTheWay + AnswersOnTheWay = IF command = None THEN 0 ELSE 1
  /\ \A i \in 1 .. Len(Outgoing) :
       Outgoing[i] \in Answers => Outgoing[i].op = command

\* A Host that reads that advertising is disallowed already knows of the
\* link that forbids it: LINK_CONNECTED is never stale behind the events.
RefusalExplained ==
  c2h # << >> /\ Head(c2h) = Answer("CommandComplete", "Enable", "Disallowed")
    => view # 0 \/ ~announced

\* Every command is answered: the runner and the Host never wait for each
\* other, with one slot towards the runner and two towards the Host.
CommandAnswered == (command # None) ~> (command = None)

CreditsOnTheWay ==
  (IF acl_writer = Acl(view) THEN 1 ELSE 0)
    + Count(h2c, {Acl(view)})
    + Len(acl)
    + Count(Outgoing, {Event("CompletedPackets", view)})

\* A credit is never lost or made up while a link lasts, whatever the Host
\* masks: what the Host has not got back is waiting to be queued, is in the
\* queue of the link, or is a Number Of Completed Packets on its way.
CreditsConserved ==
  view # 0 /\ view = link /\ mode \in {"Connection", "Event"} /\ ~reenabled
    => unacked = CreditsOnTheWay
=============================================================================
