----------------------------- MODULE MCElemTree -----------------------------
(* Instances of ElemTree for TLC.                                          *)
EXTENDS ElemFocus

(* Bound: how many elements listen to the mouse.  Where the focus goes to  *)
(* the wrong one of them, these two are enough to see it.                  *)
FewListen == Cardinality(mouse) <= 2
=============================================================================
