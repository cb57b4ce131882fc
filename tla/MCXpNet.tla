------------------------------ MODULE MCXpNet ------------------------------
(* Instances of XpNet and its refinement for TLC.                          *)
EXTENDS XpNetInv, XpNetRefinement, TLC

(* Every call of send() is made on an object of its own.                   *)
OwnXhr == [r \in Reqs |-> r]

(* All calls of send() are made on one object.                             *)
OneXhr == [r \in Reqs |-> CHOOSE x \in Xhrs : TRUE]

Symmetry == Permutations(Reqs) \cup Permutations(Threads)
=============================================================================
