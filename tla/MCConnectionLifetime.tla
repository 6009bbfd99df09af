------------------------ MODULE MCConnectionLifetime ------------------------
(***************************************************************************)
(* Instances of ConnectionLifetime for TLC.                                *)
(***************************************************************************)
EXTENDS ConnectionLifetime
=============================================================================
