------------------------- MODULE MCScheduledDelivery -------------------------
(***************************************************************************)
(* Instances of ScheduledDelivery for TLC: up to three occurrences, one or *)
(* two managers, and the faults that each run allows.                      *)
(***************************************************************************)
EXTENDS ScheduledDelivery

CONSTANTS m1, m2

NoTwins == {}
SecondIsTwin == {2}
=============================================================================
