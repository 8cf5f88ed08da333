----------------------------- MODULE MCRideStop -----------------------------
(* Instances of RideStop for TLC.                                           *)
EXTENDS RideStop, TLC

\* Riders, rides and calls are interchangeable.  Not used by the liveness run.
Interchangeable == Permutations(Ride) \cup Permutations(Rider) \cup Permutations(Call)
=============================================================================
