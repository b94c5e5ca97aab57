----------------------------- MODULE MCRangeMap -----------------------------
(* No operation tells values apart but by comparing them.                      *)
EXTENDS RangeMapOps, TLC

MCSymmetry == Permutations(Values)
=============================================================================
