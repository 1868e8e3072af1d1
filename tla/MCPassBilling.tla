---------------------------- MODULE MCPassBilling ----------------------------
(* Instances of PassBilling for TLC.                                          *)
EXTENDS PassBilling, TLC
=============================================================================
