------------------------ MODULE MCNotificationOutbox ------------------------
(* Instances of NotificationOutbox for TLC.                                  *)
EXTENDS NotificationOutbox, TLC

MCSymmetry == Permutations(Worker)
=============================================================================
