--------------------------- MODULE MCEventReminders ---------------------------
(* TLC instances of the reminder engine.                                    *)
EXTENDS EventReminders, TLC

CONSTANTS d1, d2, s1, s2, s3

\* One date, or two times of one day: only the last reminder differs.
OneDate == [d \in Dates |-> Slots]
TwoDates == [d \in Dates |-> IF d = d1 THEN {s1, s2} ELSE {s1, s3}]
=============================================================================
