----------------------------- MODULE MCPrekeys -----------------------------
(***************************************************************************)
(* Prekeys on small instances: devices lost, calls failing, a few weeks.   *)
(***************************************************************************)
EXTENDS Prekeys
=============================================================================
