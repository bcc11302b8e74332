--------------------------- MODULE MCDriveShareJobs ---------------------------
(* TLC instances of the share jobs.                                         *)
EXTENDS DriveShareJobs, TLC

\* All shares are of one plot.
OnePlot == [s \in Shares |-> "p1"]
==============================================================================
