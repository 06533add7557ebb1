----------------------------- MODULE MCMonitoring -----------------------------
(***************************************************************************)
(* Monitoring for TLC: the threads of one kind are interchangeable, so     *)
(* safety runs may take states that differ only in their names for one.    *)
(***************************************************************************)
EXTENDS Monitoring, TLC

ThreadSymmetry == Permutations(Workers) \cup Permutations(Requests)
=============================================================================
