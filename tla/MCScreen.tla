------------------------------ MODULE MCScreen ------------------------------
(* Model checking of Screen. *)
EXTENDS Screen
=============================================================================
