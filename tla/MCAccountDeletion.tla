------------------------- MODULE MCAccountDeletion -------------------------
(* An instance of AccountDeletion for TLC.                                   *)
EXTENDS AccountDeletion, TLC

\* A second subscription during one deletion, two deletions of one subscriber, or
\* one of each with a failed Stripe call or a process that dies.
OneThingMore == {[subs |-> 2, deletions |-> 1, faults |-> 0],
                 [subs |-> 1, deletions |-> 2, faults |-> 0],
                 [subs |-> 1, deletions |-> 1, faults |-> 1]}
============================================================================
