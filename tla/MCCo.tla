-------------------------------- MODULE MCCo --------------------------------
(* Model checking of Co. *)
EXTENDS Co
=============================================================================
