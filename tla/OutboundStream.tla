--------------------------- MODULE OutboundStream ---------------------------
(***************************************************************************)
(* What Connection::send promises its callers: the peer sees the encoded   *)
(* messages one after the other, in the order they were accepted, each     *)
(* whole and once, up to the point where the connection is closed.         *)
(* ConnectionSend implements this specification.                           *)
(***************************************************************************)
EXTENDS Naturals, Sequences

CONSTANTS
  Messages,   \* the messages the services may send on this connection
  Size        \* the encoded size of each of them, header included

VARIABLES
  accepted,   \* every byte appended to the send buffer, in order
  wire,       \* the bytes the peer was sent
  closed      \* Connection::closed_

vars == <<accepted, wire, closed>>

(* A message is its bytes; a byte is known by its message and its place.   *)
Bytes(m) == [i \in 1..Size[m] |-> <<m, i>>]

Init ==
  /\ accepted = <<>>
  /\ wire = <<>>
  /\ closed = FALSE

(* A message is accepted whole. The send it starts may find the socket     *)
(* dead, and then closes the connection in the same step.                  *)
Accept(m) ==
  /\ accepted' = accepted \o Bytes(m)
  /\ closed' \in {closed, TRUE}
  /\ UNCHANGED wire

(* Some of the bytes that are due next reach the peer.                     *)
Transmit ==
  /\ ~closed
  /\ \E n \in (Len(wire) + 1)..Len(accepted) : wire' = SubSeq(accepted, 1, n)
  /\ UNCHANGED <<accepted, closed>>

Close ==
  /\ ~closed
  /\ closed' = TRUE
  /\ UNCHANGED <<accepted, wire>>

Next == (\E m \in Messages : Accept(m)) \/ Transmit \/ Close

(* As long as the connection is open, what was accepted keeps moving out.  *)
Spec == Init /\ [][Next]_vars /\ WF_vars(Transmit)
=============================================================================
