------------------------ MODULE MCNotificationService ------------------------
(* Instances of NotificationService for TLC.                               *)
EXTENDS NotificationService, TLC

CONSTANTS n1
=============================================================================
