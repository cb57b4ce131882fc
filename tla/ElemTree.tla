------------------------------ MODULE ElemTree ------------------------------
(***************************************************************************)
(* The elements of one xadget: how main.xml and the XML fragments that     *)
(* scripts append and insert are linked into a tree (xgg.c), and how       *)
(* elements are taken out of it.                                           *)
(*                                                                         *)
(* An element is its position in apelems, from 1; 0 is the null pointer.   *)
(***************************************************************************)
EXTENDS Integers, Sequences, SequencesExt, FiniteSetsExt, Chains

CONSTANTS
  MaxElems,   (* XGG_NMAXELEMS, the elements an xadget may have             *)
  MaxLevel,   (* XGG_NMAXELEMLEVEL, the levels the stack has room for       *)
  MaxParses,  (* bound on parses that are inside each other                 *)
  Env         (* what documents and scripts do, see EnvKinds                *)

(***************************************************************************)
(* "remove": any child is removed, not only the first one.                 *)
(* "insert": elements are inserted anywhere, and may have children.        *)
(* "wrapper": elements of unknown kinds, and scripts, have children.       *)
(* "reentrant": a <script> changes the tree while its document is parsed.  *)
(***************************************************************************)
EnvKinds == {"remove", "insert", "wrapper", "reentrant"}

ASSUME MaxElemsAssumption == MaxElems \in Nat \ {0}
ASSUME MaxLevelAssumption == MaxLevel \in Nat \ {0}
ASSUME MaxParsesAssumption == MaxParses \in Nat \ {0}
ASSUME EnvAssumption == Env \subseteq EnvKinds

Elems == 1 .. MaxElems
Ptrs == 0 .. MaxElems

VARIABLES
  nelems,     (* XGGCTX.nelems: apelems holds 1 .. nelems                   *)
  parent, first, next,     (* XJSE_TREEELEM's pointers                      *)
  mouse,      (* elements with XJSEC_TREEELEMFLAG_HASMOUSEEVENT             *)
  stack,      (* XGGCTX.apelemstack                                         *)
  level,      (* XGGCTX.nelemlevel                                          *)
  sibling,    (* XGGCTX.pdirectsibling                                      *)
  doc,        (* the parses under way, the innermost last: the element the  *)
              (* document goes into (0: main.xml), the one it goes before   *)
              (* (0: none), and the elements that are open (0: an element   *)
              (* that has no object)                                        *)
  removed     (* history: the elements scripts have called removeElement on *)

links == <<parent, first, next>>
vars == <<nelems, links, mouse, stack, level, sibling, doc, removed>>

Parse(p, r) == [into |-> p, before |-> r, open |-> <<>>]

Init ==
  /\ nelems = 0
  /\ parent = [e \in Elems |-> 0]
  /\ first = [e \in Elems |-> 0]
  /\ next = [e \in Elems |-> 0]
  /\ mouse = {}
  /\ stack = [l \in 0 .. MaxLevel - 1 |-> 0]
  /\ level = -1
  /\ sibling = 0
  /\ doc = <<Parse(0, 0)>>
  /\ removed = {}

-----------------------------------------------------------------------------
(* Chains of pointers                                                      *)

(* What children() returns, and the roots for 0.                           *)
Children(p) ==
  Chain(next, IF p # 0 THEN first[p] ELSE IF nelems = 0 THEN 0 ELSE 1, MaxElems)

Depth(e) == Len(Chain(parent, e, MaxElems)) - 1

-----------------------------------------------------------------------------
(* Parsing                                                                 *)

Current == doc[Len(doc)]

Opened(e) == [doc EXCEPT ![Len(doc)].open = Append(@, e)]

Closed ==
  IF Len(Current.open) = 1 THEN Front(doc)
  ELSE [doc EXCEPT ![Len(doc)].open = Front(@)]

(* Mutant: the last sibling is not asked for its parent.                   *)
LastSiblingAnywhere(p) == {x \in 1 .. nelems : next[x] = 0}

(* The elements without a younger sibling; removed ones are among them.    *)
LastSibling(p) == {x \in 1 .. nelems : parent[x] = p /\ next[x] = 0}

(***************************************************************************)
(* xjse_treeelem_family_set, for an element of level l.  It is linked to   *)
(* the first element of apelems that has no younger sibling; or, if there  *)
(* is a direct sibling, between that one and its predecessor in apelems,   *)
(* which it has, as the first element is the view.                         *)
(***************************************************************************)
FamilySet(e, l) ==
  /\ nelems' = nelems + 1
  /\ stack' = [stack EXCEPT ![l] = e]
  /\ IF l <= 0 THEN UNCHANGED links ELSE
       LET p == stack[l - 1]
           last == LastSibling(p)
       IN  /\ parent' = [parent EXCEPT ![e] = p]
           /\ first' = IF p # 0 /\ first[p] = 0 THEN [first EXCEPT ![p] = e] ELSE first
           /\ next' = IF sibling # 0 THEN [next EXCEPT ![sibling - 1] = e, ![e] = sibling]
                      ELSE IF last = {} THEN next
                      ELSE [next EXCEPT ![Min(last)] = e]

(* A document has one root.  What may be inside an element without object  *)
(* or inside an inserted element depends on Env.                           *)
MayOpen ==
  /\ doc # <<>>
  /\ level + 1 < MaxLevel
  /\ Current.open # <<>> =>
       /\ Last(Current.open) = 0 => nelems = MaxElems \/ "wrapper" \in Env
       /\ sibling # 0 => "insert" \in Env

(* xgg_on_startelement for a kind that has objects.                        *)
StartElement(hasmouse) ==
  /\ MayOpen
  /\ level' = level + 1
  /\ IF nelems + 1 > MaxElems
       THEN doc' = Opened(0) /\ UNCHANGED <<nelems, links, mouse, stack>>
       ELSE /\ FamilySet(nelems + 1, level + 1)
            /\ mouse' = IF hasmouse THEN mouse \cup {nelems + 1} ELSE mouse
            /\ doc' = Opened(nelems + 1)
  /\ UNCHANGED <<sibling, removed>>

(* xgg_on_startelement for a script, or a kind it does not know.           *)
StartOther ==
  /\ MayOpen
  /\ nelems > 0
  /\ level' = level + 1
  /\ doc' = Opened(0)
  /\ UNCHANGED <<nelems, links, mouse, stack, sibling, removed>>

(* Mutant: the stack keeps what has been closed.                           *)
EndElementKeepsLevel ==
  /\ doc # <<>> /\ Current.open # <<>>
  /\ stack' = [stack EXCEPT ![level] = 0]
  /\ level' = IF Last(Current.open) = 0 THEN level ELSE level - 1
  /\ doc' = Closed
  /\ UNCHANGED <<nelems, links, mouse, sibling, removed>>

(* xgg_on_endelement: pop self.  Below the stack is nelemlevel itself.     *)
EndElement ==
  /\ doc # <<>> /\ Current.open # <<>>
  /\ stack' = [stack EXCEPT ![level] = 0]
  /\ level' = IF level < 0 THEN -1 ELSE level - 1
  /\ doc' = Closed
  /\ UNCHANGED <<nelems, links, mouse, sibling, removed>>

(* The XML ends or is not well-formed; what is open is left as it is.      *)
ParseFails ==
  /\ doc # <<>> /\ nelems > 0
  /\ doc' = Front(doc)
  /\ UNCHANGED <<nelems, links, mouse, stack, level, sibling, removed>>

-----------------------------------------------------------------------------
(* Scripts                                                                 *)

ScriptRuns ==
  doc # <<>> => /\ "reentrant" \in Env
                /\ Current.open # <<>> /\ Last(Current.open) = 0

(* The predecessor of r in apelems is its elder sibling.                   *)
AfterElder(p, r) ==
  \E i \in 2 .. Len(Children(p)) : Children(p)[i] = r /\ Children(p)[i - 1] = r - 1

(* appendElement() (r = 0) and insertElement() begin to parse a fragment.  *)
InsertElement(p, r) ==
  /\ ScriptRuns
  /\ Len(doc) < MaxParses
  /\ p \in 1 .. nelems
  /\ Depth(p) + 1 < MaxLevel
  /\ r # 0 => /\ r \in ToSet(Children(p))
              /\ AfterElder(p, r) \/ "insert" \in Env
  /\ level' = Depth(p)
  /\ stack' = [stack EXCEPT ![Depth(p)] = p]
  /\ sibling' = r
  /\ doc' = Append(doc, Parse(p, r))
  /\ UNCHANGED <<nelems, links, mouse, removed>>

(* xgg_apelems_find: "the just elder one" is the element itself, when its  *)
(* younger sibling is one of the entries of apelems, free ones included.   *)
Elder(e) == IF next[e] # 0 \/ nelems < MaxElems THEN e ELSE 0

Unlinked(e) == IF Elder(e) = 0 THEN next ELSE [next EXCEPT ![Elder(e)] = next[e]]

MayRemove(e) ==
  /\ ScriptRuns
  /\ e \in 2 .. nelems
  /\ \A i \in 2 .. Len(Children(parent[e])) : Children(parent[e])[i] = e => "remove" \in Env

(* Mutant: the first child's sibling does not become the first child.      *)
RemoveElementKeepsFirst(e) ==
  /\ MayRemove(e)
  /\ next' = Unlinked(e)
  /\ removed' = removed \cup {e}
  /\ UNCHANGED <<nelems, parent, first, mouse, stack, level, sibling, doc>>

(* removeElement()                                                         *)
RemoveElement(e) ==
  /\ MayRemove(e)
  /\ first' = IF parent[e] # 0 /\ first[parent[e]] = e
                THEN [first EXCEPT ![parent[e]] = next[e]] ELSE first
  /\ next' = Unlinked(e)
  /\ removed' = removed \cup {e}
  /\ UNCHANGED <<nelems, parent, mouse, stack, level, sibling, doc>>

-----------------------------------------------------------------------------
Next ==
  \/ \E m \in BOOLEAN : StartElement(m)
  \/ StartOther
  \/ EndElement
  \/ ParseFails
  \/ \E p \in Elems, r \in Ptrs : InsertElement(p, r)
  \/ \E e \in Elems : RemoveElement(e)

Spec == Init /\ [][Next]_vars

-----------------------------------------------------------------------------
(* Properties                                                              *)

TypeOK ==
  /\ nelems \in 0 .. MaxElems
  /\ parent \in [Elems -> Ptrs] /\ first \in [Elems -> Ptrs] /\ next \in [Elems -> Ptrs]
  /\ mouse \subseteq 1 .. nelems
  /\ stack \in [0 .. MaxLevel - 1 -> Ptrs]
  /\ level \in -1 .. MaxLevel - 1
  /\ sibling \in Ptrs
  /\ Len(doc) <= MaxParses
  /\ removed \subseteq 1 .. nelems

(* apelemstack is the path from the view to the innermost open element     *)
(* while XML is parsed; elements without object leave 0 in it.  The table  *)
(* of elements, their pointers and the stack keep within their bounds.     *)
OpenPath ==
  /\ TypeOK
  /\ doc # <<>> =>
       LET opened == Current.open
           base == IF Current.into = 0 THEN 0 ELSE Depth(Current.into) + 1
       IN  /\ level = base + Len(opened) - 1
           /\ \A i \in 1 .. Len(opened) :
                opened[i] # 0 =>
                  /\ stack[base + i - 1] = opened[i]
                  /\ Depth(opened[i]) = base + i - 1

Kids == [p \in Ptrs |-> Children(p)]

Tree == INSTANCE DomTree WITH size <- nelems, kids <- Kids

(* As long as scripts insert and remove where the code is right about it,  *)
(* the pointers make up the ordered tree that scripts expect.              *)
ImplementsTree == Tree!TreeSpec

(* "the just elder one" (xgg_apelems_find), which removeElement() links    *)
(* to the younger one: what has been removed is no child any more, and no  *)
(* later edit brings it back.                                              *)
RemovedGone == \A e \in removed : e \notin ToSet(Children(parent[e]))

(* "object that the element being inserted/ appended before"               *)
(* (xgg_global_insertelement): the new element is followed by it, and no   *)
(* sibling is lost.                                                        *)
InsertsBefore ==
  [][\A e \in Elems :
       nelems' = e /\ nelems < e /\ Current.open = <<>> /\ Current.before # 0 =>
         /\ next'[e] = Current.before
         /\ ToSet(Children(Current.into)') = ToSet(Children(Current.into)) \cup {e}]_vars
=============================================================================
