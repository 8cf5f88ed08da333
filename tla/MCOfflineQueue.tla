-------------------------- MODULE MCOfflineQueue --------------------------
(* OfflineQueue with a few rides and faults, for TLC.                       *)
EXTENDS OfflineQueue

\* Submits that overlap, or one at a time, as the stop button has it.
TwoOrOne == {[open |-> 2, faults |-> 2], [open |-> 1, faults |-> 1]}
============================================================================
