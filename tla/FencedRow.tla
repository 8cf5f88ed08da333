----------------------------- MODULE FencedRow -----------------------------
(***************************************************************************)
(* What fencing promises about one database row: acquisitions are numbered *)
(* by rising epochs, and a write is always made in the name of the epoch   *)
(* that is current when it commits.  A write of an earlier epoch is not a  *)
(* step of this specification.                                             *)
(***************************************************************************)
EXTENDS Naturals

VARIABLES
  epoch,  \* the newest acquisition
  wrote   \* the epoch that made the last write, 0 before the first

Init == epoch = 0 /\ wrote = 0

Acquire == epoch' \in Nat /\ epoch' > epoch /\ UNCHANGED wrote

Write == wrote' = epoch /\ UNCHANGED epoch

Spec == Init /\ [][Acquire \/ Write]_<<epoch, wrote>>
============================================================================
