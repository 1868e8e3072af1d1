------------------------- MODULE MCEquipmentBilling -------------------------
(* Instances of EquipmentBilling for TLC.                                    *)
EXTENDS EquipmentBilling, TLC

MCSymmetry == Permutations(Caller) \cup Permutations(Observer)
=============================================================================
