----------------------------- MODULE ByteStream -----------------------------
(***************************************************************************)
(* What one direction of a serial line promises its reader.  The bytes of  *)
(* a session are numbered in the order they were sent.  The reader sees    *)
(* them in that order, each at most once; a byte may be lost, but nothing  *)
(* sent after the first loss is seen before the reader has been told with  *)
(* an Err.                                                                 *)
(***************************************************************************)
EXTENDS Naturals, Sequences, Functions

CONSTANT
  None        \* no loss

VARIABLES
  next,       \* the number of the next byte
  pending,    \* the bytes on their way
  seen,       \* the bytes the reader has seen since the last Err, in order
  errors,     \* parity of the number of Errs
  hole        \* the first lost byte the reader has not been told of

vars == <<next, pending, seen, errors, hole>>

Init ==
  next = 1 /\ pending = {} /\ seen = << >> /\ errors = 0 /\ hole = None

Put ==
  /\ next' = next + 1
  /\ pending' = pending \cup {next}
  /\ UNCHANGED <<seen, errors, hole>>

Lose ==
  /\ next' = next + 1
  /\ hole' = IF hole = None THEN next ELSE hole
  /\ UNCHANGED <<pending, seen, errors>>

\* The oldest bytes on their way, in order.
IsFront(bytes) ==
  /\ Range(bytes) \subseteq pending
  /\ \A i, j \in 1 .. Len(bytes) : i < j => bytes[i] < bytes[j]
  /\ \A i \in 1 .. Len(bytes) : \A b \in pending \ Range(bytes) : bytes[i] < b

Take(bytes) ==
  /\ IsFront(bytes)
  /\ hole # None => \A i \in 1 .. Len(bytes) : bytes[i] < hole
  /\ seen' = seen \o bytes
  /\ pending' = pending \ Range(bytes)
  /\ UNCHANGED <<next, errors, hole>>

\* The reader is told; the oldest bytes may be lost with it.  A loss that
\* happened after the error was noticed is still to be told.
Fail ==
  /\ seen' = << >> /\ errors' = 1 - errors
  /\ \E n \in 1 .. next : pending' = {b \in pending : b >= n}
  /\ hole' \in {None} \cup 1 .. next - 1
  /\ UNCHANGED next

Reset ==
  next' = 1 /\ pending' = {} /\ seen' = << >> /\ errors' = 0 /\ hole' = None

\* What a step adds to the bytes seen.
Added == SubSeq(seen', Len(seen) + 1, Len(seen'))

Next ==
  \/ Put
  \/ Lose
  \/ Take(Added)
  \/ Fail
  \/ Reset

Spec == Init /\ [][Next]_vars
=============================================================================
