--------------------------- MODULE MCScheduledTask ---------------------------
EXTENDS ScheduledTask

\* A rule that fires often and one whose first wait is longer than a timer.
MCOccurrences == [r \in Rules |-> IF r = "often" THEN {1, 3} ELSE {4}]
=============================================================================
