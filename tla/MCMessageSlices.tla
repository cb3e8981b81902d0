--------------------------- MODULE MCMessageSlices ---------------------------
(***************************************************************************)
(* An instance of MessageSlices for TLC.  Variables and workers are alike, *)
(* and nothing is chosen among them.                                       *)
(***************************************************************************)
EXTENDS MessageSlices, TLC

Symmetry == Permutations(Messages) \union Permutations(Workers)
=============================================================================
