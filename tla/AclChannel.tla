----------------------------- MODULE AclChannel -----------------------------
(***************************************************************************)
(* What the controller promises the Host about its ACL data: packets are   *)
(* delivered to the peer in order and once each, and a packet's credit is  *)
(* given back only after its delivery.  Packets are numbered from 0 in the *)
(* order in which the Host submits them.                                   *)
(***************************************************************************)
EXTENDS Naturals, Sequences

CONSTANT Credits   \* packets the Host may have outstanding

VARIABLES
  submitted,   \* packets the Host has handed over
  delivered,   \* packets the peer has accepted, in order
  completed    \* credits the Host has got back

vars == <<submitted, delivered, completed>>

Init == submitted = 0 /\ delivered = << >> /\ completed = 0

Submit ==
  /\ submitted - completed < Credits
  /\ submitted' = submitted + 1
  /\ UNCHANGED <<delivered, completed>>

Deliver ==
  /\ Len(delivered) < submitted
  /\ delivered' = Append(delivered, Len(delivered))
  /\ UNCHANGED <<submitted, completed>>

Complete ==
  /\ completed < Len(delivered)
  /\ completed' = completed + 1
  /\ UNCHANGED <<submitted, delivered>>

Next == Submit \/ Deliver \/ Complete

Spec == Init /\ [][Next]_vars
=============================================================================
