---------------------------- MODULE MCMessageIds ----------------------------
(***************************************************************************)
(* Instances of MessageIds for TLC: the counters wrap within a run, from   *)
(* any initial draw.                                                       *)
(***************************************************************************)
EXTENDS MessageIds, TLC

Symmetry == Permutations(Workers)
=============================================================================
