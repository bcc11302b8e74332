--------------------------- MODULE MCClientMessaging ---------------------------
(* TLC instances of a message campaign.                                     *)
EXTENDS ClientMessaging, TLC

\* Bound: faults of one behaviour.  No fault is fair, so that leaving the third
\* one out cuts only behaviours that have it.
TwoFaults == outages + crashes + losses + delays >= Outages + Crashes + Losses + Delays - 2
=============================================================================
