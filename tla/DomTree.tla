------------------------------ MODULE DomTree ------------------------------
(***************************************************************************)
(* What ElemTree promises to scripts: an ordered tree.  appendElement()    *)
(* puts a fragment at the end of an element's children, insertElement()    *)
(* before one of them, removeElement() takes one out.                      *)
(***************************************************************************)
EXTENDS Naturals, Sequences, SequencesExt

CONSTANT MaxElems

VARIABLES
  size,       (* the elements ever made are 1 .. size                       *)
  kids,       (* kids[p]: the children of p in order; kids[0]: the root     *)
  doc         (* the documents being read, see ElemTree                     *)

Elems == 1 .. MaxElems

Init ==
  /\ size = 0
  /\ kids = [p \in 0 .. MaxElems |-> <<>>]
  /\ doc = <<[into |-> 0, before |-> 0, open |-> <<>>]>>

Reading == doc # <<>>
Current == Last(doc)

(* The element a new one becomes a child of.                               *)
Container ==
  LET opened == {i \in DOMAIN Current.open : Current.open[i] # 0}
  IN  IF opened = {} THEN Current.into ELSE Current.open[Max(opened)]

(* The children of p with the new element e.                               *)
Placed(p, e) ==
  IF p = Current.into /\ Current.before # 0
    THEN LET i == CHOOSE j \in DOMAIN kids[p] : kids[p][j] = Current.before
         IN  InsertAt(kids[p], i, e)
    ELSE Append(kids[p], e)

Opened(e) == [doc EXCEPT ![Len(doc)].open = Append(@, e)]

(* An element begins.                                                      *)
Add ==
  /\ Reading
  /\ size < MaxElems
  /\ size' = size + 1
  /\ kids' = [kids EXCEPT ![Container] = Placed(Container, size + 1)]
  /\ doc' = Opened(size + 1)

(* Something that has no object begins.                                    *)
Skip ==
  /\ Reading
  /\ doc' = Opened(0)
  /\ UNCHANGED <<size, kids>>

(* The innermost open element ends, and with the outermost the document.   *)
Close ==
  /\ Reading /\ Current.open # <<>>
  /\ doc' = IF Len(Current.open) = 1 THEN Front(doc)
            ELSE [doc EXCEPT ![Len(doc)].open = Front(@)]
  /\ UNCHANGED <<size, kids>>

Fail ==
  /\ Reading
  /\ doc' = Front(doc)
  /\ UNCHANGED <<size, kids>>

Edit(p, r) ==
  /\ r \in {0} \cup ToSet(kids[p])
  /\ doc' = Append(doc, [into |-> p, before |-> r, open |-> <<>>])
  /\ UNCHANGED <<size, kids>>

TakeOut(p, i) ==
  /\ i \in DOMAIN kids[p]
  /\ kids' = [kids EXCEPT ![p] = RemoveAt(@, i)]
  /\ UNCHANGED <<size, doc>>

Next ==
  \/ Add \/ Skip \/ Close \/ Fail
  \/ \E p \in 1 .. size, r \in 0 .. size : Edit(p, r)
  \/ \E p, i \in 1 .. size : TakeOut(p, i)

TreeSpec == Init /\ [][Next]_<<size, kids, doc>>
=============================================================================
