----------------------------- MODULE MCPixbufs -----------------------------
(* Instances of Pixbufs for TLC.                                           *)
EXTENDS Pixbufs, TLC

Symmetry ==
  Permutations(Bufs) \cup Permutations(Images) \cup Permutations(Uris \ Streams)
    \cup Permutations(Data)
=============================================================================
