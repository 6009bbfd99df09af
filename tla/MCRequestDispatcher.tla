------------------------- MODULE MCRequestDispatcher -------------------------
(***************************************************************************)
(* Instance of RequestDispatcher for TLC: a key with three requests, so that *)
(* one is worked on while another one waits, and keys with one request.    *)
(***************************************************************************)
EXTENDS RequestDispatcher

CONSTANTS ka, kb, kc, r1, r2, r3, r4, r5

MCKeyOf == [r \in Requests |-> CASE r = r3 -> kb [] r = r4 -> kc [] OTHER -> ka]
=============================================================================
