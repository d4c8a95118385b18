------------------------------ MODULE MCDevice ------------------------------
(* Instance of Device for TLC. *)
EXTENDS Device

MCSteps == {1, 2}
=============================================================================
