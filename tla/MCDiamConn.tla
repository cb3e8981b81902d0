----------------------------- MODULE MCDiamConn -----------------------------
(***************************************************************************)
(* Instances of DiamConn for TLC.                                          *)
(***************************************************************************)
EXTENDS DiamConn, TLC

\* Workers are interchangeable and so are Writers.
Symmetry == Permutations(Workers) \union Permutations(Writers)
=============================================================================
