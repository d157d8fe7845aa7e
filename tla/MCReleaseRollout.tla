------------------------- MODULE MCReleaseRollout -------------------------
(* Instances of ReleaseRollout for TLC. *)
EXTENDS ReleaseRollout, TLC

\* Nodes are interchangeable; sound for the safety runs only.
NodeSymmetry == Permutations(Nodes)
=============================================================================
