----------------------------- MODULE ElemFocus -----------------------------
(* Which element of the tree gets the focus next.                          *)
EXTENDS ElemTree

(* Mutant: an element is looked at before its children.                    *)
FindNextPreOrder(e, current) ==
  LET find[q \in Ptrs \X Ptrs] ==
        LET x == q[1]
            c == q[2]
            below == find[<<first[x], IF x = c THEN 0 ELSE c>>]
        IN  IF x = 0 THEN [found |-> 0, current |-> c]
            ELSE IF c = 0 /\ x \in mouse THEN [found |-> x, current |-> 0]
            ELSE IF below.found # 0 THEN below
            ELSE find[<<next[x], below.current>>]
  IN  find[<<e, current>>]

(***************************************************************************)
(* xgg_find_nextendnode from the sibling e on.  current is the focused     *)
(* element while it has not been met, then 0.  The result is the element   *)
(* found, or 0, and what is left of current.                               *)
(***************************************************************************)
FindNextEndNode(e, current) ==
  LET find[q \in Ptrs \X Ptrs] ==
        LET x == q[1]
            below == find[<<first[x], q[2]>>]
        IN  IF x = 0 THEN [found |-> 0, current |-> q[2]]
            ELSE IF below.found # 0 THEN below
            ELSE IF below.current = 0 /\ x \in mouse THEN [found |-> x, current |-> 0]
            ELSE find[<<next[x], IF x = below.current THEN 0 ELSE below.current>>]
  IN  find[<<e, current>>]

(* xjse_xadget_focus_next                                                  *)
FocusNext(current) == FindNextEndNode(IF nelems = 0 THEN 0 ELSE 1, current).found

-----------------------------------------------------------------------------
(* An element and those it is in, the younger siblings of an element, and  *)
(* the elements that are in the tree, with all that they are in.           *)
Around(e) == ToSet(Chain(parent, e, MaxElems))

Younger(e) == ToSet(Chain(next, next[e], MaxElems))

Shown == {e \in 1 .. nelems : \A a \in Around(e) : a \in ToSet(Children(parent[a]))}

(* The order of all elements: children come before their parent, and with  *)
(* it before its younger siblings.                                         *)
Before(x, y) ==
  \/ x # y /\ y \in Around(x)
  \/ \E a \in Around(x) : Younger(a) \cap Around(y) # {}

(* Each press of the key moves the focus to the next element that listens  *)
(* to the mouse, children first, and after the last one to none: all of    *)
(* them get it in turn, and no other one does.  An element that has been   *)
(* taken out of the tree while it had the focus leaves none.               *)
FocusOrder ==
  LET listening == Shown \cap mouse
      order == {p \in Shown \X listening : Before(p[1], p[2])}
      Later(x) == {e \in listening : x = 0 \/ <<x, e>> \in order}
  IN  \A x \in 0 .. nelems :
        LET to == FocusNext(x)
        IN  /\ to = 0 <=> Later(x) = {}
            /\ to # 0 => to \in Later(x) /\ \A e \in Later(x) \ {to} : <<to, e>> \in order
=============================================================================
