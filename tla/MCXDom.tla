------------------------------- MODULE MCXDom -------------------------------
(* Instances of XDom for TLC.                                              *)
EXTENDS XDom, TLC
CONSTANTS x1, d1, a, b

Symmetry == Permutations(Names)
=============================================================================
