-------------------------- MODULE MCConnectionSend --------------------------
(***************************************************************************)
(* Instances of ConnectionSend for TLC.                                    *)
(***************************************************************************)
EXTENDS ConnectionSend, TLC

CONSTANTS m1, m2, m3, m4

(* A two-byte message can be cut by a partial send; m4 cannot be framed.   *)
MCSize == [m \in Messages |-> CASE m = m4 -> 3 [] m = m2 -> 1 [] OTHER -> 2]

=============================================================================
