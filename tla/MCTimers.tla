------------------------------ MODULE MCTimers ------------------------------
(* Instances of Timers for TLC.                                            *)
EXTENDS Timers, TLC

AskedDelays == {0, 3}

OneDelay == {2}

(* With a delay below 0.                                                   *)
NegativeDelays == {-1, 1}

Symmetry == Permutations(Calls)
=============================================================================
