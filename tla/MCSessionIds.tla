---------------------------- MODULE MCSessionIds ----------------------------
(***************************************************************************)
(* Instances of SessionIds for TLC: the counter wraps within a run.        *)
(***************************************************************************)
EXTENDS SessionIds, TLC

\* Callers are interchangeable, and so are the draws of start_time.
Symmetry == Permutations(Callers) \union Permutations(StartTimes)
=============================================================================
