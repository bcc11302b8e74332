----------------------------- MODULE MCSmsReminders -----------------------------
(* Instances of SmsReminders for TLC.                                         *)
EXTENDS SmsReminders, TLC

=============================================================================
