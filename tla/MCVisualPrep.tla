---------------------------- MODULE MCVisualPrep ----------------------------
(* The instance of VisualPrep for TLC: the paths are interchangeable.      *)
EXTENDS VisualPrep, TLC

Swapped == Permutations(Paths)
=============================================================================
