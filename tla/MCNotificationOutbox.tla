------------------------ MODULE MCNotificationOutbox ------------------------
(* Instance of NotificationOutbox for TLC: the constants are in the .cfg.  *)
EXTENDS NotificationOutbox, TLC

\* Workers are interchangeable: no definition compares or orders them.
Symmetry == Permutations(Workers)
=============================================================================
