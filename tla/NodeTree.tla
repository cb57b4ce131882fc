------------------------------ MODULE NodeTree ------------------------------
(***************************************************************************)
(* What XDom promises to scripts: every document that is read becomes an   *)
(* ordered tree of its own, whose nodes are numbered as the document names *)
(* them, and which no later document changes.                              *)
(***************************************************************************)
EXTENDS Naturals, Sequences, SequencesExt

CONSTANTS MaxNodes, Names, None

Nodes == 1 .. MaxNodes

VARIABLES
  size,       (* the nodes made so far are 1 .. size                        *)
  roots,      (* those that are in no other one, one of each document       *)
  name, kids, (* of every node; its children are in order                   *)
  path        (* the open elements; 0 stands for one without a node         *)

Init ==
  /\ size = 0
  /\ roots = {}
  /\ name = [x \in Nodes |-> None]
  /\ kids = [x \in Nodes |-> <<>>]
  /\ path = <<>>

(* The next element of the document.                                       *)
Add(n) ==
  /\ size < MaxNodes
  /\ size' = size + 1
  /\ name' = [name EXCEPT ![size + 1] = n]
  /\ \/ /\ path = <<>>
        /\ roots' = roots \cup {size + 1}
        /\ UNCHANGED kids
     \/ /\ path # <<>> /\ Last(path) # 0
        /\ kids' = [kids EXCEPT ![Last(path)] = Append(@, size + 1)]
        /\ UNCHANGED roots
  /\ path' = Append(path, size + 1)

Drop ==
  /\ path' = Append(path, 0)
  /\ UNCHANGED <<size, roots, name, kids>>

Close ==
  /\ path # <<>>
  /\ path' = Front(path)
  /\ UNCHANGED <<size, roots, name, kids>>

BreakOff ==
  /\ path' = <<>>
  /\ UNCHANGED <<size, roots, name, kids>>

Next == (\E n \in Names : Add(n)) \/ Drop \/ Close \/ BreakOff

TreeSpec == Init /\ [][Next]_<<size, roots, name, kids, path>>
=============================================================================
