--------------------------- MODULE ElemTreeProofs ---------------------------
(***************************************************************************)
(* Proofs about the tree of elements: for any number of elements, levels   *)
(* and parses.                                                             *)
(***************************************************************************)
EXTENDS ElemFocus

-----------------------------------------------------------------------------
(* Types                                                                   *)

Parses == [into : Ptrs, before : Ptrs, open : Seq(Ptrs)]

(* Entries of apelems that have not been made are empty, and nothing       *)
(* points to them; an element is younger than its parent.                  *)
LinksInv ==
  /\ parent \in [Elems -> 0 .. nelems] /\ first \in [Elems -> 0 .. nelems]
  /\ next \in [Elems -> 0 .. nelems]
  /\ \A e \in Elems : parent[e] < e
  /\ \A e \in Elems : nelems < e => parent[e] = 0 /\ first[e] = 0 /\ next[e] = 0

TypeInv ==
  /\ nelems \in 0 .. MaxElems
  /\ LinksInv
  /\ mouse \subseteq 1 .. nelems
  /\ stack \in [0 .. MaxLevel - 1 -> 0 .. nelems]
  /\ level \in -1 .. MaxLevel - 1
  /\ sibling \in 0 .. nelems
  /\ doc \in Seq(Parses) /\ Len(doc) <= MaxParses
  /\ removed \subseteq 1 .. nelems

LEMMA Numbers == /\ MaxElems \in Nat /\ MaxElems > 0 /\ MaxLevel \in Nat /\ MaxLevel > 0
                 /\ MaxParses \in Nat /\ MaxParses > 0 /\ Elems = 1 .. MaxElems /\ Ptrs = 0 .. MaxElems
  BY MaxElemsAssumption, MaxLevelAssumption, MaxParsesAssumption DEF Elems, Ptrs

(* A sequence with another last entry.                                     *)
LEMMA LastSet ==
  ASSUME NEW S, NEW s \in Seq(S), s # <<>>
  PROVE  /\ Len(s) \in Nat \ {0} /\ Len(s) \in 1 .. Len(s) /\ s[Len(s)] \in S /\ Last(s) = s[Len(s)]
         /\ \A x \in S : /\ [s EXCEPT ![Len(s)] = x] \in Seq(S) /\ Len([s EXCEPT ![Len(s)] = x]) = Len(s)
                         /\ [s EXCEPT ![Len(s)] = x][Len(s)] = x
  <1>1. Len(s) \in Nat \ {0}
    BY EmptySeq, LenProperties
  <1>2. Len(s) \in 1 .. Len(s) /\ s[Len(s)] \in S /\ Last(s) = s[Len(s)]
    BY <1>1, ElementOfSeq DEF Last
  <1>3. ASSUME NEW x \in S
        PROVE  /\ [s EXCEPT ![Len(s)] = x] \in Seq(S) /\ Len([s EXCEPT ![Len(s)] = x]) = Len(s)
               /\ [s EXCEPT ![Len(s)] = x][Len(s)] = x
    <2>1. [s EXCEPT ![Len(s)] = x] \in Seq(S) /\ Len([s EXCEPT ![Len(s)] = x]) = Len(s)
      BY <1>1, <1>2, ExceptSeq
    <2>2. [s EXCEPT ![Len(s)] = x][Len(s)] = x
      BY <1>1, <1>2, ExceptSeq
    <2>3. QED
      BY <2>1, <2>2
  <1>4. QED
    BY <1>1, <1>2, <1>3

LEMMA FrontIs ==
  ASSUME NEW S, NEW s \in Seq(S), s # <<>>
  PROVE  /\ Front(s) \in Seq(S) /\ Len(Front(s)) = Len(s) - 1 /\ Len(s) \in Nat \ {0}
         /\ \A i \in 1 .. Len(s) - 1 : Front(s)[i] = s[i]
  <1>1. Len(s) \in Nat \ {0}
    BY EmptySeq, LenProperties
  <1>2. PICK m : m = Len(s) - 1
    OBVIOUS
  <1>3. 1 \in Int /\ m \in Nat /\ \A k \in 1 .. m : s[k] \in S
    <2>1. m \in Nat /\ \A k \in 1 .. m : k \in 1 .. Len(s)
      BY <1>1, <1>2
    <2>2. QED
      BY <2>1, ElementOfSeq
  <1>4. /\ SubSeq(s, 1, m) \in Seq(S) /\ Len(SubSeq(s, 1, m)) = m
        /\ \A i \in 1 .. m - 1 + 1 : SubSeq(s, 1, m)[i] = s[1 + i - 1]
    <2>1. SubSeq(s, 1, m) \in Seq(S)
      BY <1>3, SubSeqProperties
    <2>2. Len(SubSeq(s, 1, m)) = IF 1 <= m THEN m - 1 + 1 ELSE 0
      BY <1>3, SubSeqProperties
    <2>3. \A i \in 1 .. m - 1 + 1 : SubSeq(s, 1, m)[i] = s[1 + i - 1]
      BY <1>3, SubSeqProperties
    <2>4. QED
      BY <1>3, <2>1, <2>2, <2>3
  <1>5. Front(s) = SubSeq(s, 1, m)
    BY <1>2 DEF Front
  <1>6. ASSUME NEW i \in 1 .. m PROVE i \in 1 .. m - 1 + 1 /\ 1 + i - 1 = i
    BY <1>3
  <1>7. QED
    BY <1>1, <1>2, <1>4, <1>5, <1>6

LEMMA DepthTyped ==
  ASSUME TypeInv, NEW e \in Elems
  PROVE  Depth(e) \in 0 .. MaxElems - 1
  <1>1. parent \in [1 .. MaxElems -> 0 .. MaxElems] /\ e \in 1 .. MaxElems /\ MaxElems \in Nat
    <2>1. nelems \in 0 .. MaxElems /\ parent \in [Elems -> 0 .. nelems]
      BY DEF TypeInv, LinksInv
    <2>2. QED
      BY <2>1, Numbers
  <1>2. IsChain(parent, e, MaxElems, Chain(parent, e, MaxElems))
    BY <1>1, ChainIs
  <1>3. Len(Chain(parent, e, MaxElems)) \in 1 .. MaxElems
    BY <1>2 DEF IsChain, Part
  <1>4. QED
    BY <1>1, <1>3 DEF Depth
(* The documents being parsed after each of the steps.                     *)
LEMMA DocTyped ==
  ASSUME doc \in Seq(Parses), doc # <<>>, Len(doc) <= MaxParses
  PROVE  /\ Current \in Parses
         /\ \A e \in Ptrs : Opened(e) \in Seq(Parses) /\ Len(Opened(e)) = Len(doc)
         /\ Front(doc) \in Seq(Parses) /\ Len(Front(doc)) <= MaxParses
         /\ Current.open # <<>> => Closed \in Seq(Parses) /\ Len(Closed) <= MaxParses
  <1>1. Len(doc) \in Nat \ {0} /\ Len(doc) \in 1 .. Len(doc) /\ Current \in Parses
    BY LastSet DEF Current
  <1>2. Front(doc) \in Seq(Parses) /\ Len(Front(doc)) <= MaxParses
    <2>1. Front(doc) \in Seq(Parses) /\ Len(Front(doc)) = Len(doc) - 1
      BY FrontIs
    <2>2. QED
      BY <1>1, <2>1, Numbers
  <1>3. ASSUME NEW s \in Seq(Ptrs)
        PROVE  /\ [doc EXCEPT ![Len(doc)].open = s] \in Seq(Parses)
               /\ Len([doc EXCEPT ![Len(doc)].open = s]) = Len(doc)
    <2>1. [Current EXCEPT !.open = s] \in Parses
      BY <1>1 DEF Parses
    <2>2. [doc EXCEPT ![Len(doc)].open = s] = [doc EXCEPT ![Len(doc)] = [Current EXCEPT !.open = s]]
      BY DEF Current
    <2>3. QED
      BY <2>1, <2>2, LastSet, SMTT(30)
  <1>4. ASSUME NEW e \in Ptrs PROVE Opened(e) \in Seq(Parses) /\ Len(Opened(e)) = Len(doc)
    <2>1. Append(Current.open, e) \in Seq(Ptrs)
      BY <1>1, AppendProperties DEF Parses
    <2>2. Opened(e) = [doc EXCEPT ![Len(doc)].open = Append(Current.open, e)]
      BY DEF Opened, Current
    <2>3. PICK s : s = Append(Current.open, e)
      OBVIOUS
    <2>4. s \in Seq(Ptrs)
      BY <2>1, <2>3
    <2>5. Opened(e) = [doc EXCEPT ![Len(doc)].open = s]
      BY <2>2, <2>3
    <2>6. QED
      BY <1>3, <2>4, <2>5
  <1>5. ASSUME Current.open # <<>> PROVE Closed \in Seq(Parses) /\ Len(Closed) <= MaxParses
    <2>1. Front(Current.open) \in Seq(Ptrs)
      BY <1>1, <1>5, FrontIs DEF Parses
    <2>2. [doc EXCEPT ![Len(doc)].open = Front(@)] = [doc EXCEPT ![Len(doc)].open = Front(Current.open)]
      BY DEF Current
    <2>3. QED
      BY <1>2, <1>3, <2>1, <2>2 DEF Closed
  <1>6. QED
    BY <1>1, <1>2, <1>4, <1>5

LEMMA TypeInit == Init => TypeInv
  <1> SUFFICES ASSUME Init PROVE TypeInv
    OBVIOUS
  <1>1. doc \in Seq(Parses) /\ Len(doc) <= MaxParses
    <2>1. Parse(0, 0) \in Parses
      BY Numbers, EmptySeq DEF Parse, Parses
    <2>2. QED
      BY <2>1, Numbers DEF Init
  <1>2. LinksInv
    BY Numbers DEF Init, LinksInv
  <1>3. QED
    BY <1>1, <1>2, Numbers DEF Init, TypeInv

LEMMA LinksKept ==
  ASSUME TypeInv, UNCHANGED <<nelems, links>>
  PROVE  LinksInv'
  BY DEF TypeInv, LinksInv, links

(* The last child is an entry of apelems.                                  *)
LEMMA LastSiblingIs ==
  ASSUME TypeInv, NEW p, LastSibling(p) # {}
  PROVE  Min(LastSibling(p)) \in LastSibling(p) /\ Min(LastSibling(p)) \in 1 .. nelems
  <1>1. LastSibling(p) \subseteq 1 .. nelems /\ nelems \in Nat
    BY Numbers DEF LastSibling, TypeInv
  <1>2. \E m \in LastSibling(p) : \A k \in LastSibling(p) : m <= k
    <2> PICK T : T = LastSibling(p)
      OBVIOUS
    <2>1. T \subseteq Nat /\ T # {}
      BY <1>1
    <2>2. QED
      BY <2>1, LeastNumber
  <1>3. Min(LastSibling(p)) \in LastSibling(p)
    BY <1>2 DEF Min
  <1>4. QED
    BY <1>1, <1>3

LEMMA LinkTyped ==
  ASSUME NEW T, NEW U, T \subseteq U, NEW f \in [Elems -> T], NEW k, NEW y \in U
  PROVE  /\ [f EXCEPT ![k] = y] \in [Elems -> U]
         /\ \A x \in Elems \ {k} : [f EXCEPT ![k] = y][x] = f[x]
         /\ k \in Elems => [f EXCEPT ![k] = y][k] = y
  <1>1. f \in [Elems -> U]
    OBVIOUS
  <1>2. [f EXCEPT ![k] = y] \in [Elems -> U]
    BY <1>1
  <1>3. \A x \in Elems \ {k} : [f EXCEPT ![k] = y][x] = f[x]
    OBVIOUS
  <1>4. k \in Elems => [f EXCEPT ![k] = y][k] = y
    OBVIOUS
  <1>5. QED
    BY <1>2, <1>3, <1>4

(* A new entry of apelems.                                                 *)
LEMMA FamilyTyped ==
  ASSUME TypeInv, nelems < MaxElems, NEW l \in 0 .. MaxLevel - 1, FamilySet(nelems + 1, l)
  PROVE  LinksInv' /\ stack' \in [0 .. MaxLevel - 1 -> 0 .. nelems'] /\ nelems' \in 0 .. MaxElems
  <1>1. PICK e : e = nelems + 1
    OBVIOUS
  <1>2. e \in Elems /\ nelems' = e /\ nelems \in Nat /\ e \in 1 .. MaxElems /\ e \in Ptrs
    BY <1>1, Numbers DEF TypeInv, FamilySet
  <1>3. stack' \in [0 .. MaxLevel - 1 -> 0 .. nelems']
    <2>1. stack' = [stack EXCEPT ![l] = e] /\ stack \in [0 .. MaxLevel - 1 -> 0 .. nelems]
      BY <1>1 DEF FamilySet, TypeInv
    <2>2. QED
      BY <1>1, <1>2, <2>1
  <1>9. \A f \in [Elems -> 0 .. nelems] : f \in [Elems -> 0 .. e]
    BY <1>1, <1>2
  <1>10. /\ parent \in [Elems -> 0 .. nelems] /\ first \in [Elems -> 0 .. nelems]
         /\ next \in [Elems -> 0 .. nelems] /\ \A x \in Elems : parent[x] < x
         /\ \A x \in Elems : nelems < x => parent[x] = 0 /\ first[x] = 0 /\ next[x] = 0
    BY DEF TypeInv, LinksInv
  <1>4. CASE l <= 0
    <2>1. UNCHANGED <<parent, first, next>>
      BY <1>4 DEF FamilySet, links
    <2>2. parent' \in [Elems -> 0 .. e] /\ first' \in [Elems -> 0 .. e] /\ next' \in [Elems -> 0 .. e]
      BY <1>9, <1>10, <2>1
    <2>3. \A x \in Elems : nelems' < x => nelems < x
      BY <1>1, <1>2, Numbers
    <2>4. LinksInv'
      BY <1>2, <1>10, <2>1, <2>2, <2>3 DEF LinksInv
    <2>5. QED
      BY <1>2, <1>3, <2>4, Numbers
  <1>5. CASE l > 0
    <2>1. PICK p, last : p = stack[l - 1] /\ last = LastSibling(p)
      OBVIOUS
    <2>2. p \in 0 .. nelems
      BY <1>5, <2>1, Numbers DEF TypeInv
    <2>3. /\ parent' = [parent EXCEPT ![e] = p]
          /\ first' = IF p # 0 /\ first[p] = 0 THEN [first EXCEPT ![p] = e] ELSE first
          /\ next' = IF sibling # 0 THEN [next EXCEPT ![sibling - 1] = e, ![e] = sibling]
                     ELSE IF last = {} THEN next
                     ELSE [next EXCEPT ![Min(last)] = e]
      <3>1. ~(l <= 0)
        BY <1>5, Numbers
      <3>2. QED
        BY <1>1, <2>1, <3>1 DEF FamilySet
    <2>9. 0 .. nelems \subseteq 0 .. e /\ p \in 0 .. e /\ e \in 0 .. e
      BY <1>1, <1>2, <2>2
    <2>4. parent' \in [Elems -> 0 .. e] /\ \A x \in Elems \ {e} : parent'[x] = parent[x]
      BY <1>10, <2>3, <2>9, LinkTyped
    <2>10. \A x \in Elems : parent'[x] < x
      <3>1. parent'[e] = p /\ p < e
        BY <1>1, <1>2, <1>10, <2>2, <2>3
      <3>2. QED
        BY <1>10, <2>4, <3>1
    <2>5. first' \in [Elems -> 0 .. e] /\ \A x \in Elems : nelems' < x => first'[x] = 0
      <3>1. \A x \in Elems : nelems' < x => nelems < x /\ x # p
        BY <1>1, <1>2, <2>2, Numbers
      <3>2. CASE p # 0 /\ first[p] = 0
        <4>1. first' = [first EXCEPT ![p] = e]
          BY <2>3, <3>2
        <4>2. first' \in [Elems -> 0 .. e] /\ \A x \in Elems \ {p} : first'[x] = first[x]
          BY <1>10, <2>9, <4>1, LinkTyped
        <4>3. QED
          BY <1>10, <3>1, <4>2
      <3>3. CASE ~(p # 0 /\ first[p] = 0)
        BY <1>9, <1>10, <2>3, <3>1, <3>3
      <3>4. QED
        BY <3>2, <3>3
    <2>6. next' \in [Elems -> 0 .. e] /\ \A x \in Elems : nelems' < x => next'[x] = 0
      <3>1. \A x \in Elems : nelems' < x => nelems < x /\ x # e
        BY <1>1, <1>2, Numbers
      <3>2. CASE sibling # 0
        <4>1. PICK f : f = [next EXCEPT ![sibling - 1] = e]
          OBVIOUS
        <4>2. sibling \in 0 .. e /\ sibling \in 0 .. nelems
          BY <1>1, <1>2 DEF TypeInv
        <4>3. f \in [Elems -> 0 .. e] /\ \A x \in Elems \ {sibling - 1} : f[x] = next[x]
          BY <1>10, <2>9, <4>1, LinkTyped
        <4>4. next' = [f EXCEPT ![e] = sibling]
          BY <2>3, <3>2, <4>1
        <4>5. next' \in [Elems -> 0 .. e] /\ \A x \in Elems \ {e} : next'[x] = f[x]
          BY <1>2, <4>2, <4>3, <4>4
        <4>6. \A x \in Elems : nelems' < x => x # sibling - 1
          BY <1>1, <1>2, <4>2, Numbers
        <4>7. QED
          BY <1>10, <3>1, <4>3, <4>5, <4>6
      <3>3. CASE sibling = 0 /\ last = {}
        BY <1>9, <1>10, <2>3, <3>1, <3>3
      <3>4. CASE sibling = 0 /\ last # {}
        <4>1. PICK m : m = Min(last)
          OBVIOUS
        <4>2. m \in 1 .. nelems
          BY <2>1, <3>4, <4>1, LastSiblingIs
        <4>3. next' = [next EXCEPT ![m] = e]
          BY <2>3, <3>4, <4>1
        <4>4. next' \in [Elems -> 0 .. e] /\ \A x \in Elems \ {m} : next'[x] = next[x]
          BY <1>10, <2>9, <4>3, LinkTyped
        <4>5. \A x \in Elems : nelems < x => x # m
          BY <1>2, <4>2, Numbers
        <4>6. QED
          BY <1>10, <3>1, <4>4, <4>5
      <3>5. QED
        BY <3>2, <3>3, <3>4
    <2>7. \A x \in Elems : nelems' < x => parent'[x] = 0
      <3>1. \A x \in Elems : nelems' < x => nelems < x /\ x # e
        BY <1>1, <1>2, Numbers
      <3>2. QED
        BY <1>10, <2>4, <3>1
    <2>8. LinksInv'
      BY <1>2, <2>4, <2>10, <2>5, <2>6, <2>7 DEF LinksInv
    <2>11. QED
      BY <1>2, <1>3, <2>8, Numbers
  <1>6. QED
    BY <1>4, <1>5, Numbers
(* Children are entries of apelems.                                        *)
LEMMA KidsTyped ==
  ASSUME TypeInv, NEW p \in 1 .. nelems
  PROVE  ToSet(Children(p)) \subseteq 0 .. nelems
  <1>1. /\ nelems \in 0 .. MaxElems /\ first \in [Elems -> 0 .. nelems] /\ next \in [Elems -> 0 .. nelems]
        /\ p \in Elems /\ p # 0
    <2>1. nelems \in 0 .. MaxElems
      BY DEF TypeInv
    <2>2. first \in [Elems -> 0 .. nelems] /\ next \in [Elems -> 0 .. nelems]
      BY DEF TypeInv, LinksInv
    <2>3. p \in Elems /\ p # 0
      BY <2>1, Numbers
    <2>4. QED
      BY <2>1, <2>2, <2>3
  <1>2. Children(p) = Chain(next, first[p], MaxElems) /\ first[p] \in 0 .. nelems
    BY <1>1 DEF Children
  <1>3. CASE first[p] = 0
    <2>1. Children(p) = <<>>
      BY <1>2, <1>3 DEF Chain
    <2>2. QED
      BY <2>1, EmptySeq DEF ToSet
  <1>4. CASE first[p] # 0
    <2>1. next \in [1 .. MaxElems -> 0 .. MaxElems] /\ first[p] \in 1 .. MaxElems /\ MaxElems \in Nat
      BY <1>1, <1>2, <1>4, Numbers
    <2>2. PICK c : c = Children(p)
      OBVIOUS
    <2>3. IsChain(next, first[p], MaxElems, c)
      BY <1>2, <2>1, <2>2, ChainIs
    <2>4. /\ c \in Seq(1 .. MaxElems) /\ Len(c) \in 1 .. MaxElems /\ c[1] = first[p]
          /\ \A i \in 1 .. Len(c) - 1 : next[c[i]] = c[i + 1]
      BY <2>3 DEF IsChain, Part
    <2>5. ASSUME NEW i \in 1 .. Len(c) PROVE c[i] \in 0 .. nelems
      <3>1. CASE i = 1
        BY <1>2, <2>4, <3>1
      <3>2. CASE i # 1
        <4>1. i - 1 \in 1 .. Len(c) - 1 /\ i - 1 + 1 = i /\ i - 1 \in 1 .. Len(c)
          BY <2>4, <2>5, <3>2
        <4>2. next[c[i - 1]] = c[i] /\ c[i - 1] \in Elems
          BY <2>4, <4>1, ElementOfSeq, Numbers
        <4>3. QED
          BY <1>1, <4>2
      <3>3. QED
        BY <3>1, <3>2
    <2>6. DOMAIN c = 1 .. Len(c)
      BY <2>4, LenProperties
    <2>7. QED
      BY <2>2, <2>5, <2>6 DEF ToSet
  <1>5. QED
    BY <1>3, <1>4

(* Whether the elder sibling is found or not, no pointer to the element    *)
(* itself is changed (xgg_apelems_find finds the element itself).          *)
LEMMA NothingUnlinked ==
  ASSUME LinksInv, NEW e \in Elems
  PROVE  Unlinked(e) = next
  BY DEF LinksInv, Unlinked, Elder

LEMMA TypeStep == TypeInv /\ [Next]_vars => TypeInv'
  <1> SUFFICES ASSUME TypeInv, [Next]_vars PROVE TypeInv'
    OBVIOUS
  <1>1. /\ nelems \in 0 .. MaxElems /\ nelems \in Nat /\ LinksInv
        /\ mouse \subseteq 1 .. nelems
        /\ stack \in [0 .. MaxLevel - 1 -> 0 .. nelems]
        /\ level \in -1 .. MaxLevel - 1
        /\ sibling \in 0 .. nelems
        /\ doc \in Seq(Parses) /\ Len(doc) <= MaxParses
        /\ removed \subseteq 1 .. nelems
    BY Numbers DEF TypeInv
  <1>2. ASSUME UNCHANGED <<nelems, links>> PROVE LinksInv'
    BY <1>2, LinksKept
  <1>3. ASSUME NEW m \in BOOLEAN, StartElement(m) PROVE TypeInv'
    <2>1. /\ doc # <<>> /\ level' = level + 1 /\ level + 1 < MaxLevel /\ sibling' = sibling /\ removed' = removed
      BY <1>3 DEF StartElement, MayOpen
    <2>2. level' \in -1 .. MaxLevel - 1 /\ level + 1 \in 0 .. MaxLevel - 1
      BY <1>1, <2>1, Numbers
    <2>3. CASE nelems + 1 > MaxElems
      <3>1. doc' = Opened(0) /\ UNCHANGED <<nelems, links, mouse, stack>>
        BY <1>3, <2>3 DEF StartElement
      <3>2. doc' \in Seq(Parses) /\ Len(doc') <= MaxParses
        <4>1. 0 \in Ptrs
          BY Numbers
        <4>2. Opened(0) \in Seq(Parses) /\ Len(Opened(0)) = Len(doc)
          BY <1>1, <2>1, <4>1, DocTyped
        <4>3. QED
          BY <1>1, <3>1, <4>2
      <3>3. QED
        BY <1>1, <1>2, <2>1, <2>2, <3>1, <3>2 DEF TypeInv
    <2>4. CASE ~(nelems + 1 > MaxElems)
      <3>1. /\ FamilySet(nelems + 1, level + 1) /\ doc' = Opened(nelems + 1)
            /\ mouse' = IF m THEN mouse \cup {nelems + 1} ELSE mouse
        BY <1>3, <2>4 DEF StartElement
      <3>2. nelems < MaxElems /\ nelems + 1 \in Ptrs /\ nelems' = nelems + 1
        BY <1>1, <2>4, <3>1, Numbers DEF FamilySet
      <3>3. LinksInv' /\ stack' \in [0 .. MaxLevel - 1 -> 0 .. nelems'] /\ nelems' \in 0 .. MaxElems
        BY <2>2, <3>1, <3>2, FamilyTyped
      <3>4. doc' \in Seq(Parses) /\ Len(doc') <= MaxParses
        <4>1. PICK e : e = nelems + 1
          OBVIOUS
        <4>2. Opened(e) \in Seq(Parses) /\ Len(Opened(e)) = Len(doc)
          BY <1>1, <2>1, <3>2, <4>1, DocTyped
        <4>3. QED
          BY <1>1, <3>1, <4>1, <4>2
      <3>5. mouse' \subseteq 1 .. nelems' /\ sibling' \in 0 .. nelems' /\ removed' \subseteq 1 .. nelems'
        BY <1>1, <2>1, <3>1, <3>2
      <3>6. QED
        BY <2>2, <3>3, <3>4, <3>5 DEF TypeInv
    <2>5. QED
      BY <2>3, <2>4
  <1>4. ASSUME StartOther PROVE TypeInv'
    <2>1. /\ doc # <<>> /\ level' = level + 1 /\ level + 1 < MaxLevel /\ doc' = Opened(0)
          /\ UNCHANGED <<nelems, links, mouse, stack, sibling, removed>>
      BY <1>4 DEF StartOther, MayOpen
    <2>2. level' \in -1 .. MaxLevel - 1
      BY <1>1, <2>1, Numbers
    <2>3. doc' \in Seq(Parses) /\ Len(doc') <= MaxParses
      <3>1. 0 \in Ptrs
        BY Numbers
      <3>2. Opened(0) \in Seq(Parses) /\ Len(Opened(0)) = Len(doc)
        BY <1>1, <2>1, <3>1, DocTyped
      <3>3. QED
        BY <1>1, <2>1, <3>2
    <2>4. QED
      BY <1>1, <1>2, <2>1, <2>2, <2>3 DEF TypeInv
  <1>5. ASSUME EndElement PROVE TypeInv'
    <2>1. /\ doc # <<>> /\ Current.open # <<>> /\ stack' = [stack EXCEPT ![level] = 0]
          /\ level' = (IF level < 0 THEN -1 ELSE level - 1) /\ doc' = Closed
          /\ UNCHANGED <<nelems, links, mouse, sibling, removed>>
      BY <1>5 DEF EndElement
    <2>2. level' \in -1 .. MaxLevel - 1
      BY <1>1, <2>1, Numbers
    <2>3. doc' \in Seq(Parses) /\ Len(doc') <= MaxParses
      BY <1>1, <2>1, DocTyped
    <2>4. stack' \in [0 .. MaxLevel - 1 -> 0 .. nelems]
      <3>1. 0 \in 0 .. nelems /\ level \in Int
        BY <1>1
      <3>2. QED
        BY <1>1, <2>1, <3>1
    <2>5. QED
      BY <1>1, <1>2, <2>1, <2>2, <2>3, <2>4 DEF TypeInv
  <1>6. ASSUME ParseFails PROVE TypeInv'
    <2>1. doc # <<>> /\ doc' = Front(doc) /\ UNCHANGED <<nelems, links, mouse, stack, level, sibling, removed>>
      BY <1>6 DEF ParseFails
    <2>2. doc' \in Seq(Parses) /\ Len(doc') <= MaxParses
      BY <1>1, <2>1, DocTyped
    <2>3. QED
      BY <1>1, <1>2, <2>1, <2>2 DEF TypeInv
  <1>7. ASSUME NEW p \in Elems, NEW r \in Ptrs, InsertElement(p, r) PROVE TypeInv'
    <2>1. /\ Len(doc) < MaxParses /\ p \in 1 .. nelems /\ Depth(p) + 1 < MaxLevel
          /\ r # 0 => r \in ToSet(Children(p))
          /\ level' = Depth(p) /\ stack' = [stack EXCEPT ![Depth(p)] = p] /\ sibling' = r
          /\ doc' = Append(doc, Parse(p, r))
          /\ UNCHANGED <<nelems, links, mouse, removed>>
      BY <1>7 DEF InsertElement
    <2>2. PICK d : d = Depth(p)
      OBVIOUS
    <2>3. d \in Nat /\ d + 1 < MaxLevel
      BY <2>1, <2>2, DepthTyped, Numbers
    <2>4. level' \in -1 .. MaxLevel - 1 /\ stack' \in [0 .. MaxLevel - 1 -> 0 .. nelems]
      BY <1>1, <2>1, <2>2, <2>3, Numbers, SMTT(30)
    <2>5. sibling' \in 0 .. nelems
      BY <1>1, <2>1, KidsTyped
    <2>6. doc' \in Seq(Parses) /\ Len(doc') <= MaxParses
      <3>1. Parse(p, r) \in Parses
        BY Numbers, EmptySeq DEF Parse, Parses
      <3>2. doc' \in Seq(Parses) /\ Len(doc') = Len(doc) + 1 /\ Len(doc) \in Nat
        BY <1>1, <2>1, <3>1, AppendProperties, LenProperties
      <3>3. QED
        BY <2>1, <3>2, Numbers
    <2>7. QED
      BY <1>1, <1>2, <2>1, <2>4, <2>5, <2>6 DEF TypeInv
  <1>8. ASSUME NEW e \in Elems, RemoveElement(e) PROVE TypeInv'
    <2>1. /\ e \in 2 .. nelems /\ removed' = removed \cup {e} /\ next' = Unlinked(e)
          /\ first' = IF parent[e] # 0 /\ first[parent[e]] = e
                        THEN [first EXCEPT ![parent[e]] = next[e]] ELSE first
          /\ UNCHANGED <<nelems, parent, mouse, stack, level, sibling, doc>>
      BY <1>8 DEF RemoveElement, MayRemove
    <2>2. next' = next
      BY <1>1, <2>1, NothingUnlinked
    <2>3. first' \in [Elems -> 0 .. nelems] /\ \A x \in Elems : nelems < x => first'[x] = 0
      <3>1. /\ first \in [Elems -> 0 .. nelems] /\ next[e] \in 0 .. nelems /\ parent[e] \in 0 .. nelems
            /\ \A x \in Elems : nelems < x => first[x] = 0
        BY <1>1 DEF LinksInv
      <3>2. CASE parent[e] # 0 /\ first[parent[e]] = e
        <4>1. PICK p, y : p = parent[e] /\ y = next[e]
          OBVIOUS
        <4>2. first' = [first EXCEPT ![p] = y] /\ p \in 0 .. nelems /\ y \in 0 .. nelems
          BY <2>1, <3>1, <3>2, <4>1
        <4>3. first' \in [Elems -> 0 .. nelems] /\ \A x \in Elems \ {p} : first'[x] = first[x]
          BY <3>1, <4>2, LinkTyped
        <4>4. \A x \in Elems : nelems < x => x # p
          BY <1>1, <4>2, Numbers
        <4>5. QED
          BY <3>1, <4>3, <4>4
      <3>3. CASE ~(parent[e] # 0 /\ first[parent[e]] = e)
        BY <2>1, <3>1, <3>3
      <3>4. QED
        BY <3>2, <3>3
    <2>4. LinksInv'
      BY <1>1, <2>1, <2>2, <2>3 DEF LinksInv
    <2>5. QED
      BY <1>1, <2>1, <2>4 DEF TypeInv
  <1>9. CASE UNCHANGED vars
    <2>1. UNCHANGED <<nelems, links, mouse, stack, level, sibling, doc, removed>>
      BY <1>9 DEF vars
    <2>2. QED
      BY <1>1, <1>2, <2>1 DEF TypeInv
  <1>10. QED
    BY <1>3, <1>4, <1>5, <1>6, <1>7, <1>8, <1>9 DEF Next

LEMMA TypeInvAlways == Spec => []TypeInv
  <1>1. QED
    BY TypeInit, TypeStep, PTL DEF Spec

LEMMA TypeImplied == TypeInv => TypeOK
  <1> SUFFICES ASSUME TypeInv PROVE TypeOK
    OBVIOUS
  <1>1. nelems \in 0 .. MaxElems /\ 0 .. nelems \subseteq Ptrs
    BY Numbers DEF TypeInv
  <1>2. parent \in [Elems -> Ptrs] /\ first \in [Elems -> Ptrs] /\ next \in [Elems -> Ptrs]
    BY <1>1 DEF TypeInv, LinksInv
  <1>3. stack \in [0 .. MaxLevel - 1 -> Ptrs] /\ sibling \in Ptrs
    BY <1>1 DEF TypeInv
  <1>4. QED
    BY <1>1, <1>2, <1>3 DEF TypeInv, TypeOK
-----------------------------------------------------------------------------
(* Depths                                                                  *)

LEMMA DepthNat ==
  ASSUME TypeInv, NEW e \in 1 .. nelems
  PROVE  Depth(e) \in Nat /\ e \in Elems
  <1>1. e \in Elems
    BY Numbers DEF TypeInv
  <1>2. QED
    BY <1>1, DepthTyped

(* A new element is one level below its parent, and the others stay where  *)
(* they are.                                                               *)
LEMMA DepthKept ==
  ASSUME TypeInv, LinksInv', NEW e, e = nelems + 1, nelems' = e, e <= MaxElems,
         \A x \in Elems \ {e} : parent'[x] = parent[x]
  PROVE  /\ \A x \in 1 .. nelems : Depth(x)' = Depth(x)
         /\ Depth(e)' = IF parent'[e] = 0 THEN 0 ELSE Depth(parent'[e]) + 1
  <1>1. PICK n, f, g : n = MaxElems /\ f = parent /\ g = parent'
    OBVIOUS
  <1>2. /\ nelems \in 0 .. MaxElems /\ nelems \in Nat /\ e \in 1 .. n /\ n \in Nat /\ Elems = 1 .. n
        /\ 0 .. nelems \subseteq 0 .. n /\ 0 .. e \subseteq 0 .. n
    BY <1>1, Numbers DEF TypeInv
  <1>3. f \in [1 .. n -> 0 .. n] /\ \A y \in 1 .. n : f[y] < y
    BY <1>1, <1>2 DEF TypeInv, LinksInv
  <1>4. g \in [1 .. n -> 0 .. n] /\ g[e] < e
    BY <1>1, <1>2 DEF LinksInv
  <1>5. ASSUME NEW x \in 1 .. nelems PROVE Depth(x)' = Depth(x)
    <2>1. x \in 1 .. n /\ \A y \in 1 .. x : y \in Elems \ {e}
      BY <1>2
    <2>2. \A y \in 1 .. x : g[y] = f[y]
      BY <1>1, <2>1
    <2>3. Chain(g, x, n) = Chain(f, x, n)
      BY <1>2, <1>3, <1>4, <2>1, <2>2, ChainSame
    <2>4. Len(Chain(g, x, n)) - 1 = Len(Chain(f, x, n)) - 1
      BY <2>3
    <2>5. QED
      BY <1>1, <2>4 DEF Depth
  <1>6. Depth(e)' = IF parent'[e] = 0 THEN 0 ELSE Depth(parent'[e]) + 1
    <2>1. PICK p : p = g[e]
      OBVIOUS
    <2>2. p \in 0 .. e - 1 /\ (p = 0 \/ p \in 1 .. n)
      BY <1>2, <1>4, <2>1
    <2>3. \A y \in 1 .. e - 1 : g[y] = f[y]
      <3>1. \A y \in 1 .. e - 1 : y \in Elems \ {e}
        BY <1>2
      <3>2. QED
        BY <1>1, <3>1
    <2>4. Len(Chain(g, e, n)) = IF p = 0 THEN 1 ELSE Len(Chain(f, p, n)) + 1
      <3>1. n \in Nat /\ e \in 1 .. n /\ p \in 0 .. e - 1 /\ g[e] = p
        BY <1>2, <2>1, <2>2
      <3>2. g \in [1 .. n -> 0 .. n]
        BY <1>4
      <3>3. ASSUME NEW x \in 1 .. n, p \in 0 .. x - 1, g[x] = p, \A y \in 1 .. x - 1 : g[y] = f[y]
            PROVE  Len(Chain(g, x, n)) = IF p = 0 THEN 1 ELSE Len(Chain(f, p, n)) + 1
        BY <1>3, <3>1, <3>2, <3>3, ChainNew, ZenonT(60)
      <3>4. QED
        BY <2>3, <3>1, <3>3
    <2>5. CASE p = 0
      <3>1. Len(Chain(g, e, n)) - 1 = 0
        BY <2>4, <2>5
      <3>2. QED
        BY <1>1, <2>1, <2>5, <3>1 DEF Depth
    <2>6. CASE p # 0
      <3>1. PICK k : k = Len(Chain(f, p, n))
        OBVIOUS
      <3>2. k \in Nat
        <4>1. IsChain(f, p, n, Chain(f, p, n))
          BY <1>2, <1>3, <2>2, <2>6, ChainIs
        <4>2. QED
          BY <3>1, <4>1, <1>2 DEF IsChain, Part
      <3>3. Len(Chain(g, e, n)) - 1 = k - 1 + 1
        BY <2>4, <2>6, <3>1, <3>2
      <3>4. QED
        BY <1>1, <2>1, <2>6, <3>1, <3>3 DEF Depth
    <2>7. QED
      BY <2>5, <2>6
  <1>7. QED
    BY <1>5, <1>6
-----------------------------------------------------------------------------
(* The stack of open elements                                              *)

(* A document whose elements go into p, with os open.                      *)
Reading(p, r, os) == doc = <<[into |-> p, before |-> r, open |-> os]>>

Base(p) == IF p = 0 THEN 0 ELSE Depth(p) + 1

(* The stack holds the element the document goes into and the open         *)
(* elements, each at its depth; an element without object in the middle    *)
(* means that apelems is full.                                             *)
PathOf(p, os) ==
  /\ p \in 0 .. nelems /\ os \in Seq(0 .. nelems)
  /\ level = Base(p) + Len(os) - 1
  /\ p # 0 => stack[Depth(p)] = p
  /\ \A i \in 1 .. Len(os) :
       /\ os[i] # 0 => stack[Base(p) + i - 1] = os[i] /\ Depth(os[i]) = Base(p) + i - 1
       /\ os[i] = 0 => i = Len(os) \/ nelems = MaxElems

PathInv ==
  /\ TypeInv
  /\ doc = <<>> \/ \E p, r, os : Reading(p, r, os) /\ PathOf(p, os)

LEMMA ReadingIs ==
  ASSUME NEW p, NEW r, NEW os, Reading(p, r, os)
  PROVE  /\ doc # <<>> /\ Len(doc) = 1 /\ Current = [into |-> p, before |-> r, open |-> os]
         /\ \A e : Opened(e) = <<[into |-> p, before |-> r, open |-> Append(os, e)]>>
         /\ Front(doc) = <<>>
         /\ Closed = IF Len(os) = 1 THEN <<>> ELSE <<[into |-> p, before |-> r, open |-> Front(os)]>>
  <1>1. PICK d : d = [into |-> p, before |-> r, open |-> os]
    OBVIOUS
  <1>2. doc = <<d>> /\ Len(doc) = 1 /\ doc[1] = d /\ doc \in Seq({d})
    BY <1>1 DEF Reading
  <1>3. doc # <<>> /\ Current = d
    <2>1. Len(<<>>) = 0
      OBVIOUS
    <2>2. doc # <<>>
      BY <1>2, <2>1
    <2>3. QED
      BY <1>2, <2>2 DEF Current
  <1>4. Front(doc) = <<>>
    <2>1. Front(doc) \in Seq({d}) /\ Len(Front(doc)) = Len(doc) - 1
      BY <1>2, <1>3, FrontIs
    <2>2. Len(Front(doc)) = 0
      BY <1>2, <2>1
    <2>3. QED
      BY <2>1, <2>2, EmptySeq
  <1>5. ASSUME NEW s PROVE [doc EXCEPT ![Len(doc)].open = s] = <<[into |-> p, before |-> r, open |-> s]>>
    <2>1. [doc EXCEPT ![Len(doc)].open = s] = [<<d>> EXCEPT ![1] = [d EXCEPT !.open = s]]
      BY <1>2
    <2>2. [d EXCEPT !.open = s] = [into |-> p, before |-> r, open |-> s]
      BY <1>1
    <2>3. PICK x : x = [into |-> p, before |-> r, open |-> s]
      OBVIOUS
    <2>4. [<<d>> EXCEPT ![1] = x] = <<x>>
      OBVIOUS
    <2>5. QED
      BY <2>1, <2>2, <2>3, <2>4
  <1>6. ASSUME NEW e PROVE Opened(e) = <<[into |-> p, before |-> r, open |-> Append(os, e)]>>
    <2>1. Opened(e) = [doc EXCEPT ![Len(doc)].open = Append(Current.open, e)]
      BY DEF Opened, Current
    <2>2. Current.open = os
      BY <1>1, <1>3
    <2>3. PICK s : s = Append(os, e)
      OBVIOUS
    <2>4. QED
      BY <1>5, <2>1, <2>2, <2>3
  <1>7. Closed = IF Len(os) = 1 THEN <<>> ELSE <<[into |-> p, before |-> r, open |-> Front(os)]>>
    <2>1. [doc EXCEPT ![Len(doc)].open = Front(@)] = [doc EXCEPT ![Len(doc)].open = Front(Current.open)]
      BY DEF Current
    <2>2. Current.open = os
      BY <1>1, <1>3
    <2>3. PICK s : s = Front(os)
      OBVIOUS
    <2>4. [doc EXCEPT ![Len(doc)].open = s] = <<[into |-> p, before |-> r, open |-> s]>>
      BY <1>5
    <2>5. QED
      BY <1>4, <2>1, <2>2, <2>3, <2>4 DEF Closed
  <1>8. QED
    BY <1>1, <1>2, <1>3, <1>4, <1>6, <1>7

LEMMA PathInit == Init => PathInv
  <1> SUFFICES ASSUME Init PROVE PathInv
    OBVIOUS
  <1>1. Reading(0, 0, <<>>)
    BY DEF Init, Reading, Parse
  <1>2. PathOf(0, <<>>)
    <2>1. <<>> \in Seq(0 .. nelems) /\ Len(<<>>) = 0 /\ 0 \in 0 .. nelems /\ level = -1
      BY DEF Init
    <2>2. QED
      BY <2>1 DEF PathOf, Base
  <1>3. QED
    BY <1>1, <1>2, TypeInit DEF PathInv

LEMMA PathImplied == PathInv => OpenPath
  <1> SUFFICES ASSUME PathInv PROVE OpenPath
    OBVIOUS
  <1>1. TypeOK
    BY TypeImplied DEF PathInv
  <1>2. CASE doc = <<>>
    BY <1>1, <1>2 DEF OpenPath
  <1>3. CASE \E p, r, os : Reading(p, r, os) /\ PathOf(p, os)
    <2>1. PICK p, r, os : Reading(p, r, os) /\ PathOf(p, os)
      BY <1>3
    <2>2. Current = [into |-> p, before |-> r, open |-> os]
      BY <2>1, ReadingIs
    <2>3. Current.into = p /\ Current.open = os
      BY <2>2
    <2>4. QED
      BY <1>1, <2>1, <2>3 DEF OpenPath, PathOf, Base
  <1>4. QED
    BY <1>2, <1>3 DEF PathInv
LEMMA BaseIs ==
  ASSUME TypeInv, NEW p \in 0 .. nelems
  PROVE  Base(p) \in Nat /\ (p # 0 => Depth(p) \in Nat /\ Base(p) = Depth(p) + 1)
  <1>1. CASE p = 0
    BY <1>1 DEF Base
  <1>2. CASE p # 0
    <2>1. p \in 1 .. nelems
      BY <1>2, Numbers DEF TypeInv
    <2>2. Depth(p) \in Nat
      BY <2>1, DepthNat
    <2>3. QED
      BY <1>2, <2>2 DEF Base
  <1>3. QED
    BY <1>1, <1>2

LEMMA SeqGrows ==
  ASSUME NEW A, NEW B, A \subseteq B, NEW s \in Seq(A)
  PROVE  s \in Seq(B)
  <1>1. PICK n \in Nat : s \in [1 .. n -> A]
    BY SeqDef
  <1>2. s \in [1 .. n -> B]
    BY <1>1
  <1>3. QED
    BY <1>1, <1>2, SeqDef

(* Something begins: an element e, or (0) something without object.        *)
LEMMA PathOpened ==
  ASSUME TypeInv, TypeInv', NEW p, NEW os, PathOf(p, os), NEW e \in 0 .. nelems',
         nelems <= nelems', level' = level + 1, nelems = MaxElems => nelems' = MaxElems,
         \A x \in 1 .. nelems : Depth(x)' = Depth(x),
         \A l \in 0 .. MaxLevel - 1 : l <= level => stack'[l] = stack[l],
         e # 0 => stack'[level + 1] = e /\ Depth(e)' = level + 1,
         os # <<>> => Last(os) # 0 \/ nelems = MaxElems
  PROVE  PathOf(p, Append(os, e))'
  <1>1. PICK b, k, s : b = Base(p) /\ k = Len(os) /\ s = Append(os, e)
    OBVIOUS
  <1>2. /\ p \in 0 .. nelems /\ os \in Seq(0 .. nelems) /\ level = b + k - 1 /\ (p # 0 => stack[Depth(p)] = p)
        /\ \A i \in 1 .. k :
             /\ os[i] # 0 => stack[b + i - 1] = os[i] /\ Depth(os[i]) = b + i - 1
             /\ os[i] = 0 => i = k \/ nelems = MaxElems
    BY <1>1 DEF PathOf
  <1>3. b \in Nat /\ k \in Nat /\ nelems \in Nat /\ nelems' \in Nat /\ p \in 0 .. nelems'
    <2>1. b \in Nat
      BY <1>1, <1>2, BaseIs
    <2>2. k \in Nat
      BY <1>1, <1>2, LenProperties
    <2>3. nelems \in Nat /\ nelems' \in Nat
      BY Numbers DEF TypeInv
    <2>4. QED
      BY <1>2, <2>1, <2>2, <2>3
  <1>4. 0 .. nelems \subseteq 0 .. nelems' /\ level \in -1 .. MaxLevel - 1 /\ level' \in -1 .. MaxLevel - 1
    BY <1>3 DEF TypeInv
  <1>5. s \in Seq(0 .. nelems') /\ Len(s) = k + 1 /\ s[k + 1] = e /\ \A i \in 1 .. k : s[i] = os[i]
    <2>1. os \in Seq(0 .. nelems')
      BY <1>2, <1>4, SeqGrows
    <2>2. s \in Seq(0 .. nelems') /\ Len(s) = k + 1 /\ s[k + 1] = e
      BY <1>1, <2>1, AppendProperties
    <2>3. \A i \in 1 .. k : s[i] = os[i]
      BY <1>1, <2>1, AppendProperties
    <2>4. QED
      BY <2>2, <2>3
  <1>6. Base(p)' = b
    <2>1. CASE p = 0
      BY <1>1, <2>1 DEF Base
    <2>2. CASE p # 0
      <3>1. p \in 1 .. nelems
        BY <1>2, <1>3, <2>2
      <3>2. Depth(p)' = Depth(p)
        BY <3>1
      <3>3. QED
        BY <1>1, <3>2 DEF Base
    <2>3. QED
      BY <2>1, <2>2
  <1>7. p # 0 => stack'[Depth(p)'] = p
    <2> SUFFICES ASSUME p # 0 PROVE stack'[Depth(p)'] = p
      OBVIOUS
    <2>1. p \in 1 .. nelems
      BY <1>2, <1>3
    <2>2. PICK d : d = Depth(p)
      OBVIOUS
    <2>3. Depth(p)' = d /\ d \in Nat /\ b = d + 1
      BY <1>1, <1>2, <2>1, <2>2, BaseIs
    <2>4. d \in 0 .. MaxLevel - 1 /\ d <= level
      BY <1>2, <1>3, <1>4, <2>3, Numbers
    <2>5. stack'[d] = stack[d]
      BY <2>4
    <2>6. QED
      BY <1>2, <2>2, <2>3, <2>5
  <1>8. ASSUME NEW i \in 1 .. k + 1, s[i] # 0
        PROVE  stack'[b + i - 1] = s[i] /\ Depth(s[i])' = b + i - 1
    <2>1. CASE i = k + 1
      <3>1. b + i - 1 = level + 1
        BY <1>2, <1>3, <2>1
      <3>2. s[i] = e /\ e # 0
        BY <1>5, <1>8, <2>1
      <3>3. QED
        BY <3>1, <3>2
    <2>2. CASE i # k + 1
      <3>1. i \in 1 .. k
        BY <1>3, <2>2
      <3>2. PICK x, l : x = s[i] /\ l = b + i - 1
        OBVIOUS
      <3>3. x = os[i] /\ x # 0 /\ stack[l] = x /\ Depth(x) = l /\ x \in 0 .. nelems
        BY <1>1, <1>2, <1>5, <1>8, <3>1, <3>2, ElementOfSeq
      <3>4. x \in 1 .. nelems
        BY <1>3, <3>3
      <3>5. l \in 0 .. MaxLevel - 1 /\ l <= level
        <4>1. i \in Nat /\ 1 <= i /\ i <= k
          BY <1>3, <3>1
        <4>2. l \in Nat /\ l <= level
          BY <1>2, <1>3, <3>2, <4>1
        <4>3. QED
          BY <1>4, <4>2, Numbers
      <3>6. Depth(x)' = l /\ stack'[l] = x
        BY <3>3, <3>4, <3>5
      <3>7. QED
        BY <3>2, <3>6
    <2>3. QED
      BY <2>1, <2>2
  <1>9. ASSUME NEW i \in 1 .. k + 1, s[i] = 0 PROVE i = k + 1 \/ nelems' = MaxElems
    <2> SUFFICES ASSUME i # k + 1 PROVE nelems = MaxElems
      OBVIOUS
    <2>1. i \in 1 .. k /\ os[i] = 0
      BY <1>3, <1>5, <1>9
    <2>2. CASE i = k
      <3>1. Last(os) = 0
        BY <1>1, <2>1, <2>2 DEF Last
      <3>2. os # <<>>
        <4>1. Len(<<>>) = 0
          OBVIOUS
        <4>2. QED
          BY <1>1, <2>1, <2>2, <4>1
      <3>3. QED
        BY <3>1, <3>2
    <2>3. CASE i # k
      BY <1>2, <2>1, <2>3
    <2>4. QED
      BY <2>2, <2>3
  <1>10. PathOf(p, s)'
    <2>1. level' = b + (k + 1) - 1
      BY <1>2, <1>3
    <2>2. QED
      BY <1>3, <1>5, <1>6, <1>7, <1>8, <1>9, <2>1 DEF PathOf
  <1>11. QED
    BY <1>1, <1>10

(* The innermost open element ends.                                        *)
LEMMA PathClosed ==
  ASSUME TypeInv, NEW p, NEW os, PathOf(p, os), os # <<>>,
         UNCHANGED <<nelems, links>>, stack' = [stack EXCEPT ![level] = 0], level' = level - 1
  PROVE  PathOf(p, Front(os))'
  <1>1. PICK b, k, s : b = Base(p) /\ k = Len(os) /\ s = Front(os)
    OBVIOUS
  <1>2. /\ p \in 0 .. nelems /\ os \in Seq(0 .. nelems) /\ level = b + k - 1 /\ (p # 0 => stack[Depth(p)] = p)
        /\ \A i \in 1 .. k :
             /\ os[i] # 0 => stack[b + i - 1] = os[i] /\ Depth(os[i]) = b + i - 1
             /\ os[i] = 0 => i = k \/ nelems = MaxElems
    BY <1>1 DEF PathOf
  <1>3. s \in Seq(0 .. nelems) /\ Len(s) = k - 1 /\ k \in Nat \ {0} /\ \A i \in 1 .. k - 1 : s[i] = os[i]
    BY <1>1, <1>2, FrontIs
  <1>4. b \in Nat
    BY <1>1, <1>2, BaseIs
  <1>5. /\ nelems' = nelems /\ parent' = parent /\ Base(p)' = b /\ Depth(p)' = Depth(p)
        /\ \A x : Depth(x)' = Depth(x)
    BY <1>1 DEF links, Base, Depth
  <1>6. \A l \in Nat : l < level => stack'[l] = stack[l]
    BY DEF TypeInv
  <1>7. p # 0 => stack'[Depth(p)'] = p
    <2> SUFFICES ASSUME p # 0 PROVE stack'[Depth(p)] = p
      BY <1>5
    <2>1. Depth(p) \in Nat /\ b = Depth(p) + 1
      BY <1>1, <1>2, BaseIs
    <2>2. Depth(p) < level
      BY <1>2, <1>3, <2>1
    <2>3. QED
      BY <1>2, <1>6, <2>1, <2>2
  <1>8. ASSUME NEW i \in 1 .. k - 1
        PROVE  /\ s[i] # 0 => stack'[b + i - 1] = s[i] /\ Depth(s[i])' = b + i - 1
               /\ s[i] = 0 => i = k - 1 \/ nelems' = MaxElems
    <2>1. i \in 1 .. k /\ i # k /\ s[i] = os[i]
      BY <1>3
    <2>2. b + i - 1 \in Nat /\ b + i - 1 < level
      <3>1. i \in Nat /\ 1 <= i /\ i < k
        BY <1>3
      <3>2. QED
        BY <1>2, <1>3, <1>4, <3>1
    <2>3. stack'[b + i - 1] = stack[b + i - 1]
      BY <1>6, <2>2
    <2>4. QED
      BY <1>2, <1>5, <2>1, <2>3
  <1>9. PathOf(p, s)'
    <2>1. level' = b + (k - 1) - 1
      BY <1>2, <1>3, <1>4
    <2>2. QED
      BY <1>2, <1>3, <1>5, <1>7, <1>8, <2>1 DEF PathOf
  <1>10. QED
    BY <1>1, <1>9
(* The element that what begins next becomes a child of.                   *)
ParentOf(p, os) == IF os = <<>> THEN p ELSE Last(os)

LEMMA ParentIs ==
  ASSUME TypeInv, NEW p, NEW os, PathOf(p, os), os # <<>> => Last(os) # 0, NEW q, q = ParentOf(p, os)
  PROVE  /\ q \in 0 .. nelems
         /\ q = 0 => p = 0 /\ os = <<>> /\ level + 1 = 0
         /\ q # 0 => level \in Nat /\ stack[level] = q /\ Depth(q) = level
  <1>1. PICK b, k : b = Base(p) /\ k = Len(os)
    OBVIOUS
  <1>2. /\ p \in 0 .. nelems /\ os \in Seq(0 .. nelems) /\ level = b + k - 1 /\ (p # 0 => stack[Depth(p)] = p)
        /\ \A i \in 1 .. k :
             os[i] # 0 => stack[b + i - 1] = os[i] /\ Depth(os[i]) = b + i - 1
    BY <1>1 DEF PathOf
  <1>3. b \in Nat /\ k \in Nat
    BY <1>1, <1>2, BaseIs, LenProperties
  <1>4. CASE os = <<>>
    <2>1. k = 0 /\ q = p
      BY <1>1, <1>4 DEF ParentOf
    <2>2. CASE p = 0
      <3>1. level + 1 = 0
        BY <1>1, <1>2, <2>1, <2>2 DEF Base
      <3>2. QED
        BY <1>2, <1>4, <2>1, <2>2, <3>1
    <2>3. CASE p # 0
      <3>1. PICK d : d = Depth(p)
        OBVIOUS
      <3>2. d \in Nat /\ b = d + 1 /\ stack[d] = p
        BY <1>1, <1>2, <2>3, <3>1, BaseIs
      <3>3. level = d
        BY <1>2, <2>1, <3>2
      <3>4. QED
        BY <1>2, <2>1, <2>3, <3>1, <3>2, <3>3
    <2>4. QED
      BY <2>2, <2>3
  <1>5. CASE os # <<>>
    <2>1. q = os[k] /\ q # 0 /\ k \in 1 .. k /\ q \in 0 .. nelems
      <3>1. Len(os) \in 1 .. Len(os) /\ os[Len(os)] \in 0 .. nelems /\ Last(os) = os[Len(os)]
        BY <1>2, <1>5, LastSet
      <3>2. QED
        BY <1>1, <1>5, <3>1 DEF ParentOf
    <2>2. b + k - 1 = level /\ level \in Nat
      BY <1>2, <1>3, <2>1
    <2>3. QED
      BY <1>2, <2>1, <2>2
  <1>6. QED
    BY <1>4, <1>5

LEMMA PathStep ==
  ASSUME Env \cap {"wrapper", "reentrant"} = {}
  PROVE  PathInv /\ [Next]_vars => PathInv'
  <1> SUFFICES ASSUME PathInv, [Next]_vars PROVE PathInv'
    OBVIOUS
  <1>1. TypeInv /\ TypeInv'
    BY TypeStep DEF PathInv
  <1>2. /\ nelems \in 0 .. MaxElems /\ nelems \in Nat /\ LinksInv
        /\ level \in -1 .. MaxLevel - 1 /\ stack \in [0 .. MaxLevel - 1 -> 0 .. nelems]
    BY <1>1, Numbers DEF TypeInv
  <1>3. ASSUME doc # <<>>
        PROVE  \E p, r, os : /\ Reading(p, r, os) /\ PathOf(p, os)
                             /\ os \in Seq(0 .. nelems) /\ Current.open = os
    <2>1. PICK p, r, os : Reading(p, r, os) /\ PathOf(p, os)
      BY <1>3 DEF PathInv
    <2>2. Current = [into |-> p, before |-> r, open |-> os]
      BY <2>1, ReadingIs
    <2>3. QED
      BY <2>1, <2>2 DEF PathOf
  <1>4. ASSUME MayOpen
        PROVE  \E p, r, os : /\ Reading(p, r, os) /\ PathOf(p, os)
                             /\ os # <<>> => Last(os) # 0 \/ nelems = MaxElems
    BY <1>3, <1>4 DEF MayOpen
  <1>5. ASSUME MayOpen, UNCHANGED <<nelems, links, stack>>, level' = level + 1, doc' = Opened(0)
        PROVE  PathInv'
    <2>1. PICK p, r, os : /\ Reading(p, r, os) /\ PathOf(p, os)
                          /\ os # <<>> => Last(os) # 0 \/ nelems = MaxElems
      BY <1>4, <1>5
    <2>2. Reading(p, r, Append(os, 0))'
      BY <1>5, <2>1, ReadingIs DEF Reading
    <2>3. /\ nelems' = nelems /\ stack' = stack /\ 0 \in 0 .. nelems' /\ nelems <= nelems'
          /\ \A x \in 1 .. nelems : Depth(x)' = Depth(x)
      BY <1>2, <1>5 DEF links, Depth
    <2>4. \A l \in 0 .. MaxLevel - 1 : l <= level => stack'[l] = stack[l]
      BY <2>3
    <2>5. PathOf(p, Append(os, 0))'
      BY <1>1, <1>5, <2>1, <2>3, <2>4, PathOpened
    <2>6. QED
      BY <1>1, <2>2, <2>5 DEF PathInv
  <1>6. ASSUME NEW m \in BOOLEAN, StartElement(m) PROVE PathInv'
    <2>1. MayOpen /\ level' = level + 1
      BY <1>6 DEF StartElement
    <2>2. CASE nelems + 1 > MaxElems
      BY <1>5, <1>6, <2>1, <2>2 DEF StartElement
    <2>3. CASE ~(nelems + 1 > MaxElems)
      <3>1. FamilySet(nelems + 1, level + 1) /\ doc' = Opened(nelems + 1) /\ nelems < MaxElems
        BY <1>2, <1>6, <2>3, Numbers DEF StartElement
      <3>2. PICK e, l : e = nelems + 1 /\ l = level + 1
        OBVIOUS
      <3>3. PICK p, r, os : /\ Reading(p, r, os) /\ PathOf(p, os)
                            /\ os # <<>> => Last(os) # 0 \/ nelems = MaxElems
        BY <1>4, <2>1
      <3>4. /\ nelems' = e /\ stack' = [stack EXCEPT ![l] = e] /\ e <= MaxElems /\ e \in 0 .. nelems'
            /\ nelems <= nelems' /\ e # 0 /\ e \in Elems
        BY <1>2, <3>1, <3>2, Numbers DEF FamilySet
      <3>5. l < MaxLevel /\ l \in 0 .. MaxLevel - 1 /\ level = l - 1
        BY <1>2, <2>1, <3>2, Numbers DEF MayOpen
      <3>6. /\ stack'[level + 1] = e
            /\ \A x \in 0 .. MaxLevel - 1 : x <= level => stack'[x] = stack[x]
        BY <1>2, <3>2, <3>4, <3>5
      <3>7. /\ \A x \in Elems \ {e} : parent'[x] = parent[x]
            /\ parent'[e] = IF l <= 0 THEN 0 ELSE stack[l - 1]
        <4>1. CASE l <= 0
          <5>1. parent' = parent
            BY <3>1, <3>2, <4>1 DEF FamilySet, links
          <5>2. parent[e] = 0
            BY <1>2, <3>2, <3>4 DEF LinksInv
          <5>3. QED
            BY <4>1, <5>1, <5>2
        <4>2. CASE ~(l <= 0)
          <5>1. parent' = [parent EXCEPT ![e] = stack[l - 1]]
            BY <3>1, <3>2, <4>2 DEF FamilySet
          <5>2. QED
            BY <1>2, <3>4, <4>2, <5>1 DEF LinksInv
        <4>3. QED
          BY <4>1, <4>2
      <3>8. /\ \A x \in 1 .. nelems : Depth(x)' = Depth(x)
            /\ Depth(e)' = IF parent'[e] = 0 THEN 0 ELSE Depth(parent'[e]) + 1
        <4>1. LinksInv'
          BY <1>1 DEF TypeInv
        <4>2. QED
          BY <1>1, <3>2, <3>4, <3>7, <4>1, DepthKept
      <3>9. Depth(e)' = l
        <4>1. PICK q : q = ParentOf(p, os)
          OBVIOUS
        <4>2. os # <<>> => Last(os) # 0
          BY <1>2, <3>1, <3>3, Numbers
        <4>3. /\ q = 0 => level + 1 = 0
              /\ q # 0 => level \in Nat /\ stack[level] = q /\ Depth(q) = level
          BY <1>1, <3>3, <4>1, <4>2, ParentIs
        <4>4. CASE q = 0
          BY <3>2, <3>7, <3>8, <4>3, <4>4
        <4>5. CASE q # 0
          <5>1. ~(l <= 0) /\ l - 1 = level
            BY <3>2, <4>3, <4>5
          <5>2. parent'[e] = q
            BY <3>7, <4>3, <4>5, <5>1
          <5>3. QED
            BY <3>2, <3>8, <4>3, <4>5, <5>2
        <4>6. QED
          BY <4>4, <4>5
      <3>10. Reading(p, r, Append(os, e))'
        <4>1. \A y : Opened(y) = <<[into |-> p, before |-> r, open |-> Append(os, y)]>>
          BY <3>3, ReadingIs
        <4>2. doc' = Opened(e)
          BY <3>1, <3>2
        <4>3. doc' = <<[into |-> p, before |-> r, open |-> Append(os, e)]>>
          BY <4>1, <4>2
        <4>4. QED
          BY <4>3 DEF Reading
      <3>11. PathOf(p, Append(os, e))'
        <4>1. Depth(e)' = level + 1 /\ nelems # MaxElems
          BY <1>2, <3>1, <3>2, <3>9, Numbers
        <4>2. QED
          BY <1>1, <2>1, <3>3, <3>4, <3>6, <3>8, <4>1, PathOpened
      <3>12. QED
        BY <1>1, <3>10, <3>11 DEF PathInv
    <2>4. QED
      BY <2>2, <2>3
  <1>7. ASSUME StartOther PROVE PathInv'
    BY <1>5, <1>7 DEF StartOther
  <1>8. ASSUME EndElement PROVE PathInv'
    <2>1. /\ doc # <<>> /\ Current.open # <<>> /\ stack' = [stack EXCEPT ![level] = 0]
          /\ level' = (IF level < 0 THEN -1 ELSE level - 1) /\ doc' = Closed
          /\ UNCHANGED <<nelems, links>>
      BY <1>8 DEF EndElement
    <2>2. PICK p, r, os : /\ Reading(p, r, os) /\ PathOf(p, os)
                          /\ os \in Seq(0 .. nelems) /\ Current.open = os
      BY <1>3, <2>1
    <2>3. os # <<>> /\ doc' = IF Len(os) = 1 THEN <<>> ELSE <<[into |-> p, before |-> r, open |-> Front(os)]>>
      BY <2>1, <2>2, ReadingIs
    <2>4. level' = level - 1
      <3>1. Len(os) \in Nat \ {0}
        BY <2>2, <2>3, EmptySeq, LenProperties
      <3>2. p \in 0 .. nelems /\ level = Base(p) + Len(os) - 1
        BY <2>2 DEF PathOf
      <3>3. Base(p) \in Nat
        BY <1>1, <3>2, BaseIs
      <3>4. ~(level < 0)
        BY <3>1, <3>2, <3>3
      <3>5. QED
        BY <2>1, <3>4
    <2>5. CASE Len(os) = 1
      BY <1>1, <2>3, <2>5 DEF PathInv
    <2>6. CASE Len(os) # 1
      <3>1. Reading(p, r, Front(os))'
        BY <2>3, <2>6 DEF Reading
      <3>2. PathOf(p, Front(os))'
        BY <1>1, <2>1, <2>2, <2>3, <2>4, PathClosed
      <3>3. QED
        BY <1>1, <3>1, <3>2 DEF PathInv
    <2>7. QED
      BY <2>5, <2>6
  <1>9. ASSUME ParseFails PROVE PathInv'
    <2>1. doc # <<>> /\ doc' = Front(doc)
      BY <1>9 DEF ParseFails
    <2>2. doc' = <<>>
      BY <1>3, <2>1, ReadingIs
    <2>3. QED
      BY <1>1, <2>2 DEF PathInv
  <1>10. ASSUME NEW p \in Elems, NEW r \in Ptrs, InsertElement(p, r) PROVE PathInv'
    <2>1. /\ doc = <<>> /\ p \in 1 .. nelems /\ level' = Depth(p) /\ Depth(p) + 1 < MaxLevel
          /\ stack' = [stack EXCEPT ![Depth(p)] = p] /\ doc' = Append(doc, Parse(p, r)) /\ UNCHANGED <<nelems, links>>
      BY <1>10 DEF InsertElement, ScriptRuns
    <2>2. PICK d : d = Depth(p)
      OBVIOUS
    <2>3. d \in Nat /\ d \in 0 .. MaxLevel - 1 /\ p # 0 /\ p \in 0 .. nelems
      BY <1>1, <1>2, <2>1, <2>2, DepthNat, Numbers
    <2>4. Reading(p, r, <<>>)'
      BY <2>1 DEF Reading, Parse
    <2>5. Depth(p)' = d /\ Base(p)' = d + 1 /\ nelems' = nelems
      BY <2>1, <2>2, <2>3 DEF links, Depth, Base
    <2>6. stack'[d] = p
      BY <1>2, <2>1, <2>2, <2>3
    <2>7. level' = d + 1 + 0 - 1
      BY <2>1, <2>2, <2>3
    <2>8. PathOf(p, <<>>)'
      <3>1. Len(<<>>) = 0 /\ <<>> \in Seq(0 .. nelems)
        OBVIOUS
      <3>2. QED
        BY <2>3, <2>5, <2>6, <2>7, <3>1 DEF PathOf
    <2>9. QED
      BY <1>1, <2>4, <2>8 DEF PathInv
  <1>11. ASSUME NEW e \in Elems, RemoveElement(e) PROVE PathInv'
    <2>1. doc' = <<>>
      BY <1>11 DEF RemoveElement, MayRemove, ScriptRuns
    <2>2. QED
      BY <1>1, <2>1 DEF PathInv
  <1>12. CASE UNCHANGED vars
    <2>1. UNCHANGED <<nelems, parent, stack, level, doc>>
      BY <1>12 DEF vars, links
    <2>2. CASE doc = <<>>
      BY <1>1, <2>1, <2>2 DEF PathInv
    <2>3. CASE doc # <<>>
      <3>1. PICK p, r, os : Reading(p, r, os) /\ PathOf(p, os)
        BY <1>3, <2>3
      <3>2. Reading(p, r, os)'
        BY <2>1, <3>1 DEF Reading
      <3>3. PathOf(p, os)'
        BY <2>1, <3>1 DEF PathOf, Base, Depth
      <3>4. QED
        BY <1>1, <3>2, <3>3 DEF PathInv
    <2>4. QED
      BY <2>2, <2>3
  <1>13. QED
    BY <1>6, <1>7, <1>8, <1>9, <1>10, <1>11, <1>12 DEF Next

(* The stack of open elements is the path from the view to the innermost   *)
(* one, and the table of elements, the pointers and the stack keep within  *)
(* their bounds, whatever is inserted and removed, as long as elements of  *)
(* unknown kinds have no children and no <script> changes the tree while   *)
(* its document is parsed (xgg_on_startelement and xgg_on_endelement).     *)
THEOREM OpenPathAlways ==
  ASSUME Env \cap {"wrapper", "reentrant"} = {}
  PROVE  Spec => []OpenPath
  <1>1. Init => PathInv
    BY PathInit
  <1>2. PathInv /\ [Next]_vars => PathInv'
    BY PathStep
  <1>3. PathInv => OpenPath
    BY PathImplied
  <1>4. QED
    BY <1>1, <1>2, <1>3, PTL DEF Spec
-----------------------------------------------------------------------------
(* Parts of sequences                                                      *)

LEMMA SubSeqIs ==
  ASSUME NEW S, NEW s \in Seq(S), NEW m \in 1 .. Len(s) + 1, NEW n \in m - 1 .. Len(s)
  PROVE  /\ SubSeq(s, m, n) \in Seq(S) /\ Len(SubSeq(s, m, n)) = n - m + 1
         /\ \A i \in 1 .. n - m + 1 : SubSeq(s, m, n)[i] = s[m + i - 1]
  <1>1. Len(s) \in Nat /\ m \in Int /\ n \in Int
    BY LenProperties
  <1>2. \A i \in m .. n : s[i] \in S
    <2>1. \A i \in m .. n : i \in 1 .. Len(s)
      BY <1>1
    <2>2. QED
      BY <2>1, ElementOfSeq
  <1>3. SubSeq(s, m, n) \in Seq(S)
    BY <1>1, <1>2, SubSeqProperties
  <1>4. Len(SubSeq(s, m, n)) = IF m <= n THEN n - m + 1 ELSE 0
    BY <1>1, <1>2, SubSeqProperties
  <1>5. \A i \in 1 .. n - m + 1 : SubSeq(s, m, n)[i] = s[m + i - 1]
    BY <1>1, <1>2, SubSeqProperties
  <1>6. (IF m <= n THEN n - m + 1 ELSE 0) = n - m + 1
    BY <1>1
  <1>7. QED
    BY <1>3, <1>4, <1>5, <1>6

LEMMA InsertIs ==
  ASSUME NEW S, NEW s \in Seq(S), NEW j \in 1 .. Len(s) + 1, NEW e \in S
  PROVE  /\ InsertAt(s, j, e) \in Seq(S) /\ Len(InsertAt(s, j, e)) = Len(s) + 1
         /\ InsertAt(s, j, e)[j] = e
         /\ \A i \in 1 .. Len(s) + 1 : i < j => InsertAt(s, j, e)[i] = s[i]
         /\ \A i \in 1 .. Len(s) + 1 : j < i => InsertAt(s, j, e)[i] = s[i - 1]
  <1>1. PICK n, a, b : n = Len(s) /\ a = SubSeq(s, 1, j - 1) /\ b = SubSeq(s, j, n)
    OBVIOUS
  <1>2. n \in Nat /\ j \in 1 .. n + 1 /\ 1 \in 1 .. n + 1 /\ j - 1 \in 1 - 1 .. n /\ n \in j - 1 .. n
    BY <1>1, LenProperties
  <1>3. /\ a \in Seq(S) /\ Len(a) = j - 1 - 1 + 1
        /\ \A i \in 1 .. j - 1 - 1 + 1 : a[i] = s[1 + i - 1]
    BY <1>1, <1>2, SubSeqIs
  <1>4. b \in Seq(S) /\ Len(b) = n - j + 1 /\ \A i \in 1 .. n - j + 1 : b[i] = s[j + i - 1]
    BY <1>1, <1>2, SubSeqIs
  <1>5. PICK c : c = a \o <<e>>
    OBVIOUS
  <1>6. <<e>> \in Seq(S) /\ Len(<<e>>) = 1 /\ <<e>>[1] = e
    OBVIOUS
  <1>7. Len(a) = j - 1 /\ \A i \in 1 .. j - 1 : a[i] = s[i]
    <2>1. j - 1 - 1 + 1 = j - 1 /\ \A i \in 1 .. j - 1 : 1 + i - 1 = i
      BY <1>2
    <2>2. QED
      BY <1>3, <2>1
  <1>8. c \in Seq(S) /\ Len(c) = j /\ \A i \in 1 .. j : c[i] = IF i < j THEN s[i] ELSE e
    <2>1. c \in Seq(S)
      BY <1>3, <1>5, <1>6, ConcatProperties
    <2>2. Len(c) = Len(a) + 1
      BY <1>3, <1>5, <1>6, ConcatProperties
    <2>3. \A i \in 1 .. Len(a) + 1 : c[i] = IF i <= Len(a) THEN a[i] ELSE <<e>>[i - Len(a)]
      BY <1>3, <1>5, <1>6, ConcatProperties
    <2>4. j - 1 + 1 = j /\ j - (j - 1) = 1
      BY <1>2
    <2>5. ASSUME NEW i \in 1 .. j PROVE c[i] = IF i < j THEN s[i] ELSE e
      <3>1. CASE i < j
        <4>1. i \in 1 .. j - 1 /\ i \in 1 .. j - 1 + 1 /\ i <= j - 1
          BY <1>2, <3>1
        <4>2. QED
          BY <1>7, <2>3, <3>1, <4>1
      <3>2. CASE ~(i < j)
        <4>1. i = j /\ ~(i <= j - 1) /\ i \in 1 .. j - 1 + 1 /\ i - (j - 1) = 1
          BY <1>2, <3>2
        <4>2. QED
          BY <1>6, <1>7, <2>3, <3>2, <4>1
      <3>3. QED
        BY <3>1, <3>2
    <2>6. QED
      BY <1>7, <2>1, <2>2, <2>4, <2>5
  <1>9. PICK d : d = c \o b
    OBVIOUS
  <1>10. d \in Seq(S) /\ Len(d) = n + 1
    <2>1. d \in Seq(S)
      BY <1>4, <1>8, <1>9, ConcatProperties
    <2>2. Len(d) = Len(c) + Len(b)
      BY <1>4, <1>8, <1>9, ConcatProperties
    <2>3. j + (n - j + 1) = n + 1
      BY <1>2
    <2>4. QED
      BY <1>4, <1>8, <2>1, <2>2, <2>3
  <1>11. ASSUME NEW i \in 1 .. n + 1
         PROVE  d[i] = IF i < j THEN s[i] ELSE IF i = j THEN e ELSE s[i - 1]
    <2>1. j + (n - j + 1) = n + 1
      BY <1>2
    <2>2. \A x \in 1 .. j + (n - j + 1) : d[x] = IF x <= j THEN c[x] ELSE b[x - j]
      <3>1. \A x \in 1 .. Len(c) + Len(b) : (c \o b)[x] = IF x <= Len(c) THEN c[x] ELSE b[x - Len(c)]
        BY <1>4, <1>8, ConcatProperties
      <3>2. Len(c) = j /\ Len(b) = n - j + 1
        BY <1>4, <1>8
      <3>3. QED
        BY <1>9, <3>1, <3>2
    <2>3. d[i] = IF i <= j THEN c[i] ELSE b[i - j]
      BY <2>1, <2>2
    <2>4. CASE i <= j
      <3>1. i \in 1 .. j /\ (i = j \/ i < j)
        BY <1>2, <2>4
      <3>2. c[i] = IF i < j THEN s[i] ELSE e
        BY <1>8, <3>1
      <3>3. i = j => ~(i < j)
        BY <1>2
      <3>4. QED
        BY <2>3, <2>4, <3>1, <3>2, <3>3
    <2>5. CASE ~(i <= j)
      <3>1. i - j \in 1 .. n - j + 1 /\ j + (i - j) - 1 = i - 1 /\ i # j /\ ~(i < j)
        BY <1>2, <2>5
      <3>2. b[i - j] = s[j + (i - j) - 1]
        BY <1>4, <3>1
      <3>3. QED
        BY <2>3, <2>5, <3>1, <3>2
    <2>6. QED
      BY <2>4, <2>5
  <1>12. InsertAt(s, j, e) = d
    BY <1>1, <1>5, <1>9 DEF InsertAt
  <1>13. /\ d[j] = e
         /\ \A i \in 1 .. n + 1 : i < j => d[i] = s[i]
         /\ \A i \in 1 .. n + 1 : j < i => d[i] = s[i - 1]
    <2>1. d[j] = e
      <3>1. j \in 1 .. n + 1 /\ ~(j < j)
        BY <1>2
      <3>2. QED
        BY <1>11, <3>1
    <2>2. \A i \in 1 .. n + 1 : i < j => d[i] = s[i]
      BY <1>11
    <2>3. ASSUME NEW i \in 1 .. n + 1, j < i PROVE d[i] = s[i - 1]
      <3>1. ~(i < j) /\ i # j
        BY <1>2, <2>3
      <3>2. QED
        BY <1>11, <3>1
    <2>4. QED
      BY <2>1, <2>2, <2>3
  <1>14. QED
    BY <1>1, <1>10, <1>12, <1>13

LEMMA TakenOut ==
  ASSUME NEW S, NEW s \in Seq(S), s # <<>>
  PROVE  /\ RemoveAt(s, 1) \in Seq(S) /\ Len(RemoveAt(s, 1)) = Len(s) - 1
         /\ \A i \in 1 .. Len(s) - 1 : RemoveAt(s, 1)[i] = s[i + 1]
  <1>1. PICK n, a, b : n = Len(s) /\ a = SubSeq(s, 1, 0) /\ b = SubSeq(s, 2, n)
    OBVIOUS
  <1>2. n \in Nat \ {0}
    BY <1>1, EmptySeq, LenProperties
  <1>3. 1 \in 1 .. n + 1 /\ 0 \in 1 - 1 .. n /\ 2 \in 1 .. n + 1 /\ n \in 2 - 1 .. n
    BY <1>2
  <1>4. a \in Seq(S) /\ Len(a) = 0 - 1 + 1
    BY <1>1, <1>3, SubSeqIs
  <1>5. b \in Seq(S) /\ Len(b) = n - 2 + 1 /\ \A i \in 1 .. n - 2 + 1 : b[i] = s[2 + i - 1]
    BY <1>1, <1>3, SubSeqIs
  <1>6. a = <<>>
    BY <1>4, EmptySeq
  <1>7. RemoveAt(s, 1) = b
    <2>1. <<>> \o b = b
      BY <1>5, ConcatEmptySeq
    <2>2. 1 - 1 = 0 /\ 1 + 1 = 2
      OBVIOUS
    <2>3. QED
      BY <1>1, <1>6, <2>1, <2>2 DEF RemoveAt
  <1>8. n - 2 + 1 = n - 1 /\ \A i \in 1 .. n - 1 : 2 + i - 1 = i + 1
    BY <1>2
  <1>9. QED
    BY <1>1, <1>5, <1>7, <1>8
-----------------------------------------------------------------------------
(* Families                                                                *)

FirstOf(p) == IF p # 0 THEN first[p] ELSE IF nelems = 0 THEN 0 ELSE 1

(* s are all the elements that were made children of p, in order; the      *)
(* first k of them have been removed.                                      *)
Family(p, s, k) ==
  /\ s \in Seq(1 .. nelems) /\ Len(s) <= nelems /\ k \in 0 .. Len(s)
  /\ \A x \in 1 .. nelems : parent[x] = p <=> \E i \in 1 .. Len(s) : s[i] = x
  /\ \A i, j \in 1 .. Len(s) : s[i] = s[j] => i = j
  /\ \A i \in 1 .. Len(s) : next[s[i]] = IF i = Len(s) THEN 0 ELSE s[i + 1]
  /\ \A i \in 1 .. Len(s) : s[i] \in removed <=> i <= k
  /\ FirstOf(p) = IF k = Len(s) THEN 0 ELSE s[k + 1]

FamilyInv == \A p \in Ptrs : \E s, k : Family(p, s, k)

(* The rest of a family is a chain.                                        *)
LEMMA RestIs ==
  ASSUME TypeInv, NEW p, NEW s, NEW k, Family(p, s, k), NEW h \in 0 .. Len(s) - 1
  PROVE  /\ Chain(next, s[h + 1], MaxElems) = SubSeq(s, h + 1, Len(s))
         /\ ToSet(SubSeq(s, h + 1, Len(s))) = {s[j] : j \in h + 1 .. Len(s)}
  <1>1. PICK m, n, x, c : m = MaxElems /\ n = Len(s) /\ x = s[h + 1] /\ c = SubSeq(s, h + 1, n)
    OBVIOUS
  <1>2. nelems \in 0 .. m /\ nelems \in Nat /\ m \in Nat /\ next \in [1 .. m -> 0 .. nelems]
    BY <1>1, Numbers, SMTT(30) DEF TypeInv, LinksInv
  <1>3. /\ s \in Seq(1 .. nelems) /\ n \in Nat /\ n <= nelems /\ h \in 0 .. n - 1
        /\ \A i \in 1 .. n : s[i] \in 1 .. nelems
        /\ \A i \in 1 .. n : next[s[i]] = IF i = n THEN 0 ELSE s[i + 1]
    BY <1>1, LenProperties, ElementOfSeq DEF Family
  <1>4. c \in Seq(1 .. nelems) /\ Len(c) = n - h /\ \A i \in 1 .. n - h : c[i] = s[h + i] /\ h + i \in 1 .. n
    <2>1. h + 1 \in 1 .. n + 1 /\ n \in h + 1 - 1 .. n
      BY <1>3
    <2>2. /\ c \in Seq(1 .. nelems) /\ Len(c) = n - (h + 1) + 1
          /\ \A i \in 1 .. n - (h + 1) + 1 : c[i] = s[h + 1 + i - 1]
      BY <1>1, <1>3, <2>1, SubSeqIs
    <2>3. n - (h + 1) + 1 = n - h
      BY <1>3
    <2>4. \A i \in 1 .. n - h : h + 1 + i - 1 = h + i /\ h + i \in 1 .. n
      BY <1>3
    <2>5. QED
      BY <2>2, <2>3, <2>4
  <1>5. 1 \in 1 .. n - h /\ h + 1 \in 1 .. n /\ Len(c) \in 1 .. m
    BY <1>2, <1>3, <1>4
  <1>6. x \in 1 .. m /\ c[1] = x
    BY <1>1, <1>2, <1>3, <1>4, <1>5, SMTT(30)
  <1>7. c \in Seq(1 .. m)
    <2>1. 1 .. nelems \subseteq 1 .. m
      BY <1>2
    <2>2. QED
      BY <1>4, <2>1, SeqGrows
  <1>8. ASSUME NEW i \in 1 .. Len(c) - 1 PROVE next[c[i]] = c[i + 1]
    <2>1. i \in 1 .. n - h /\ i + 1 \in 1 .. n - h /\ h + i \in 1 .. n /\ h + i # n /\ h + (i + 1) = h + i + 1
      BY <1>3, <1>4
    <2>2. c[i] = s[h + i] /\ c[i + 1] = s[h + i + 1]
      <3>1. c[i + 1] = s[h + (i + 1)]
        BY <1>4, <2>1
      <3>2. QED
        BY <1>4, <2>1, <3>1
    <2>3. QED
      BY <1>3, <2>1, <2>2
  <1>9. next[c[Len(c)]] = 0
    <2>1. n - h \in 1 .. n - h /\ h + (n - h) = n /\ n \in 1 .. n
      BY <1>3
    <2>2. c[n - h] = s[n]
      BY <1>4, <2>1
    <2>3. QED
      BY <1>3, <1>4, <2>1, <2>2
  <1>10. IsChain(next, x, m, c)
    BY <1>5, <1>6, <1>7, <1>8, <1>9 DEF IsChain, Part
  <1>11. next \in [1 .. m -> 0 .. m]
    BY <1>2
  <1>12. Chain(next, x, m) = c
    BY <1>2, <1>6, <1>10, <1>11, ChainOne
  <1>13. ToSet(c) = {s[j] : j \in h + 1 .. n}
    <2>1. DOMAIN c = 1 .. n - h
      BY <1>4, LenProperties
    <2>2. \A i \in 1 .. n - h : h + i \in h + 1 .. n
      BY <1>3
    <2>3. \A j \in h + 1 .. n : j - h \in 1 .. n - h /\ h + (j - h) = j
      BY <1>3
    <2>4. \A j \in h + 1 .. n : c[j - h] = s[j]
      BY <1>4, <2>3
    <2>5. ToSet(c) \subseteq {s[j] : j \in h + 1 .. n}
      BY <1>4, <2>1, <2>2 DEF ToSet
    <2>6. {s[j] : j \in h + 1 .. n} \subseteq ToSet(c)
      BY <2>1, <2>3, <2>4 DEF ToSet
    <2>7. QED
      BY <2>5, <2>6
  <1>14. QED
    BY <1>1, <1>12, <1>13

(* Scripts see the rest of the family.                                     *)
LEMMA ChildrenAre ==
  ASSUME TypeInv, NEW p, NEW s, NEW k, Family(p, s, k)
  PROVE  /\ Children(p) = SubSeq(s, k + 1, Len(s))
         /\ Children(p) \in Seq(1 .. nelems) /\ Len(Children(p)) = Len(s) - k
         /\ \A i \in 1 .. Len(s) - k : Children(p)[i] = s[k + i] /\ k + i \in 1 .. Len(s)
  <1>1. PICK m, n, x, c : m = MaxElems /\ n = Len(s) /\ x = FirstOf(p) /\ c = SubSeq(s, k + 1, n)
    OBVIOUS
  <1>2. nelems \in 0 .. m /\ nelems \in Nat /\ m \in Nat /\ next \in [1 .. m -> 0 .. nelems]
    BY <1>1, Numbers, SMTT(30) DEF TypeInv, LinksInv
  <1>3. /\ s \in Seq(1 .. nelems) /\ n \in Nat /\ n <= nelems /\ k \in 0 .. n
        /\ \A i \in 1 .. n : s[i] \in 1 .. nelems
        /\ \A i \in 1 .. n : next[s[i]] = IF i = n THEN 0 ELSE s[i + 1]
        /\ x = IF k = n THEN 0 ELSE s[k + 1]
    BY <1>1, LenProperties, ElementOfSeq DEF Family
  <1>4. c \in Seq(1 .. nelems) /\ Len(c) = n - k /\ \A i \in 1 .. n - k : c[i] = s[k + i] /\ k + i \in 1 .. n
    <2>1. k + 1 \in 1 .. n + 1 /\ n \in k + 1 - 1 .. n
      BY <1>3
    <2>2. /\ c \in Seq(1 .. nelems) /\ Len(c) = n - (k + 1) + 1
          /\ \A i \in 1 .. n - (k + 1) + 1 : c[i] = s[k + 1 + i - 1]
      BY <1>1, <1>3, <2>1, SubSeqIs
    <2>3. n - (k + 1) + 1 = n - k
      BY <1>3
    <2>4. \A i \in 1 .. n - k : k + 1 + i - 1 = k + i /\ k + i \in 1 .. n
      BY <1>3
    <2>5. QED
      BY <2>2, <2>3, <2>4
  <1>5. Children(p) = Chain(next, x, m)
    BY <1>1 DEF Children, FirstOf
  <1>6. Children(p) = c
    <2>1. CASE k = n
      <3>1. x = 0 /\ Len(c) = 0
        BY <1>3, <1>4, <2>1
      <3>2. c = <<>>
        BY <1>4, <3>1, EmptySeq
      <3>3. QED
        BY <1>5, <3>1, <3>2 DEF Chain
    <2>2. CASE k # n
      <3>1. x = s[k + 1] /\ k \in 0 .. n - 1
        BY <1>3, <2>2
      <3>2. Chain(next, s[k + 1], m) = c
        BY <1>1, <3>1, RestIs
      <3>3. QED
        BY <1>5, <3>1, <3>2
    <2>3. QED
      BY <2>1, <2>2
  <1>7. QED
    BY <1>1, <1>4, <1>6

(* What has been removed is not among the children.                        *)
LEMMA RemovedNoChild ==
  ASSUME TypeInv, FamilyInv
  PROVE  RemovedGone
  <1> SUFFICES ASSUME NEW e \in removed, e \in ToSet(Children(parent[e])) PROVE FALSE
    BY DEF RemovedGone
  <1>1. e \in 1 .. nelems /\ e \in Elems /\ parent[e] \in Ptrs
    <2>1. nelems \in 0 .. MaxElems /\ e \in 1 .. nelems /\ parent \in [Elems -> 0 .. nelems]
      BY DEF TypeInv, LinksInv
    <2>2. e \in Elems
      BY <2>1, Numbers
    <2>3. parent[e] \in 0 .. nelems
      BY <2>1, <2>2
    <2>4. QED
      BY <2>1, <2>2, <2>3, Numbers
  <1>2. PICK p : p = parent[e]
    OBVIOUS
  <1>3. PICK s, k : Family(p, s, k)
    BY <1>1, <1>2 DEF FamilyInv
  <1>4. PICK c : c = Children(p)
    OBVIOUS
  <1>5. /\ c \in Seq(1 .. nelems) /\ Len(c) = Len(s) - k
        /\ \A i \in 1 .. Len(s) - k : c[i] = s[k + i] /\ k + i \in 1 .. Len(s)
    BY <1>3, <1>4, ChildrenAre
  <1>6. PICK i \in 1 .. Len(s) - k : s[k + i] = e /\ k + i \in 1 .. Len(s)
    <2>1. DOMAIN c = 1 .. Len(c)
      BY <1>5, LenProperties
    <2>2. QED
      BY <1>2, <1>4, <1>5, <2>1 DEF ToSet
  <1>7. k + i <= k
    BY <1>3, <1>6 DEF Family
  <1>8. k \in Nat /\ Len(s) \in Nat
    BY <1>3, LenProperties DEF Family
  <1>9. QED
    BY <1>6, <1>7, <1>8
(* A family that a step does not touch.                                    *)
LEMMA FamilySame ==
  ASSUME TypeInv, TypeInv', NEW p, NEW s, NEW k, Family(p, s, k), nelems <= nelems',
         \A x \in 1 .. nelems : parent'[x] = parent[x] /\ (parent[x] = p => next'[x] = next[x]),
         \A x \in 1 .. nelems : parent[x] = p => (x \in removed' <=> x \in removed),
         \A x \in 1 .. nelems' : nelems < x => parent'[x] # p,
         FirstOf(p)' = FirstOf(p)
  PROVE  Family(p, s, k)'
  <1>1. /\ s \in Seq(1 .. nelems) /\ Len(s) <= nelems /\ k \in 0 .. Len(s)
        /\ \A x \in 1 .. nelems : parent[x] = p <=> \E i \in 1 .. Len(s) : s[i] = x
        /\ \A i, j \in 1 .. Len(s) : s[i] = s[j] => i = j
        /\ \A i \in 1 .. Len(s) : next[s[i]] = IF i = Len(s) THEN 0 ELSE s[i + 1]
        /\ \A i \in 1 .. Len(s) : s[i] \in removed <=> i <= k
        /\ FirstOf(p) = IF k = Len(s) THEN 0 ELSE s[k + 1]
    BY DEF Family
  <1>2. Len(s) \in Nat /\ nelems \in Nat /\ nelems' \in Nat /\ 1 .. nelems \subseteq 1 .. nelems'
    <2>1. nelems \in Nat /\ nelems' \in Nat
      BY Numbers DEF TypeInv
    <2>2. QED
      BY <1>1, <2>1, LenProperties
  <1>3. s \in Seq(1 .. nelems') /\ Len(s) <= nelems'
    BY <1>1, <1>2, SeqGrows
  <1>4. \A i \in 1 .. Len(s) : s[i] \in 1 .. nelems /\ parent[s[i]] = p
    BY <1>1, ElementOfSeq
  <1>5. ASSUME NEW x \in 1 .. nelems' PROVE parent'[x] = p <=> \E i \in 1 .. Len(s) : s[i] = x
    <2>1. CASE x \in 1 .. nelems
      BY <1>1, <2>1
    <2>2. CASE x \notin 1 .. nelems
      <3>1. nelems < x
        BY <1>2, <2>2
      <3>2. QED
        BY <1>4, <1>5, <2>2, <3>1
    <2>3. QED
      BY <2>1, <2>2
  <1>6. \A i \in 1 .. Len(s) : next'[s[i]] = next[s[i]] /\ (s[i] \in removed' <=> s[i] \in removed)
    BY <1>4
  <1>7. QED
    BY <1>1, <1>3, <1>5, <1>6 DEF Family

(* The last of the family is the one without a younger sibling.            *)
LEMMA LastOfFamily ==
  ASSUME TypeInv, NEW p, NEW s, NEW k, Family(p, s, k)
  PROVE  /\ s = <<>> => LastSibling(p) = {}
         /\ s # <<>> => LastSibling(p) # {} /\ Min(LastSibling(p)) = s[Len(s)]
  <1>1. /\ s \in Seq(1 .. nelems)
        /\ \A x \in 1 .. nelems : parent[x] = p <=> \E i \in 1 .. Len(s) : s[i] = x
        /\ \A i \in 1 .. Len(s) : next[s[i]] = IF i = Len(s) THEN 0 ELSE s[i + 1]
    BY DEF Family
  <1>2. Len(s) \in Nat /\ \A i \in 1 .. Len(s) : s[i] \in 1 .. nelems
    BY <1>1, ElementOfSeq, LenProperties
  <1>3. ASSUME s = <<>> PROVE LastSibling(p) = {}
    <2>1. Len(s) = 0
      BY <1>3
    <2>2. \A i \in 1 .. Len(s) : FALSE
      BY <2>1
    <2>3. QED
      BY <1>1, <2>2 DEF LastSibling
  <1>4. ASSUME s # <<>> PROVE LastSibling(p) # {} /\ Min(LastSibling(p)) = s[Len(s)]
    <2>1. Len(s) \in 1 .. Len(s)
      BY <1>1, <1>4, LastSet
    <2>2. s[Len(s)] \in LastSibling(p)
      BY <1>1, <1>2, <2>1 DEF LastSibling
    <2>3. ASSUME NEW x \in LastSibling(p) PROVE x = s[Len(s)]
      <3>1. x \in 1 .. nelems /\ parent[x] = p /\ next[x] = 0
        BY <2>3 DEF LastSibling
      <3>2. PICK i \in 1 .. Len(s) : s[i] = x
        BY <1>1, <3>1
      <3>3. CASE i = Len(s)
        BY <3>2, <3>3
      <3>4. CASE i # Len(s)
        <4>1. i + 1 \in 1 .. Len(s)
          BY <1>2, <3>4
        <4>2. s[i + 1] \in 1 .. nelems /\ s[i + 1] = 0
          BY <1>1, <1>2, <3>1, <3>2, <3>4, <4>1
        <4>3. nelems \in Nat
          BY Numbers DEF TypeInv
        <4>4. QED
          BY <4>2, <4>3
      <3>5. QED
        BY <3>3, <3>4
    <2>4. Min(LastSibling(p)) \in LastSibling(p)
      BY <2>2, LastSiblingIs
    <2>5. QED
      BY <2>2, <2>3, <2>4
  <1>5. QED
    BY <1>3, <1>4
(* A new element at the end of its family.                                 *)
LEMMA FamilyAppend ==
  ASSUME TypeInv, TypeInv', NEW p \in 1 .. nelems, NEW s, NEW k, Family(p, s, k),
         NEW e, e = nelems + 1, nelems' = e, removed' = removed,
         parent' = [parent EXCEPT ![e] = p],
         first' = IF first[p] = 0 THEN [first EXCEPT ![p] = e] ELSE first,
         next' = IF LastSibling(p) = {} THEN next ELSE [next EXCEPT ![Min(LastSibling(p))] = e]
  PROVE  Family(p, Append(s, e), k)'
  <1>1. PICK n, t : n = Len(s) /\ t = Append(s, e)
    OBVIOUS
  <1>2. /\ s \in Seq(1 .. nelems) /\ n <= nelems /\ k \in 0 .. n
        /\ \A x \in 1 .. nelems : parent[x] = p <=> \E i \in 1 .. n : s[i] = x
        /\ \A i, j \in 1 .. n : s[i] = s[j] => i = j
        /\ \A i \in 1 .. n : next[s[i]] = IF i = n THEN 0 ELSE s[i + 1]
        /\ \A i \in 1 .. n : s[i] \in removed <=> i <= k
        /\ FirstOf(p) = IF k = n THEN 0 ELSE s[k + 1]
    BY <1>1 DEF Family
  <1>3. /\ n \in Nat /\ nelems \in Nat /\ e \in Elems /\ e \in 1 .. e /\ 1 .. nelems \subseteq 1 .. e
        /\ e # 0 /\ 1 .. nelems \subseteq Elems /\ e \notin 1 .. nelems /\ p # 0 /\ p # e /\ p \in Elems
    <2>1. n \in Nat /\ nelems \in Nat /\ e \in 0 .. MaxElems
      BY <1>1, <1>2, Numbers, LenProperties DEF TypeInv
    <2>2. QED
      BY <2>1, Numbers
  <1>4. /\ t \in Seq(1 .. e) /\ Len(t) = n + 1 /\ t[n + 1] = e /\ (\A i \in 1 .. n : t[i] = s[i])
        /\ \A i \in 1 .. n : s[i] \in 1 .. nelems
    <2>1. s \in Seq(1 .. e)
      BY <1>2, <1>3, SeqGrows
    <2>2. t \in Seq(1 .. e)
      BY <1>1, <1>3, <2>1, AppendProperties
    <2>3. Len(t) = n + 1 /\ t[n + 1] = e
      BY <1>1, <1>3, <2>1, AppendProperties
    <2>4. \A i \in 1 .. n : t[i] = s[i]
      BY <1>1, <1>3, <2>1, AppendProperties
    <2>5. \A i \in 1 .. n : s[i] \in 1 .. nelems
      BY <1>1, <1>2, ElementOfSeq
    <2>6. QED
      BY <2>2, <2>3, <2>4, <2>5
  <1>5. ASSUME NEW i \in 1 .. n + 1 PROVE (i \in 1 .. n /\ i # n + 1) \/ i = n + 1
    BY <1>3
  <1>6. ASSUME NEW x \in 1 .. nelems' PROVE parent'[x] = p <=> \E i \in 1 .. n + 1 : t[i] = x
    <2>1. CASE x = e
      <3>1. parent'[e] = p
        BY <1>3 DEF TypeInv, LinksInv
      <3>2. n + 1 \in 1 .. n + 1
        BY <1>3
      <3>3. QED
        BY <1>4, <2>1, <3>1, <3>2
    <2>2. CASE x # e
      <3>1. x \in 1 .. nelems
        BY <1>3, <2>2
      <3>2. parent'[x] = parent[x]
        BY <1>3, <2>2, <3>1 DEF TypeInv, LinksInv
      <3>3. \A i \in 1 .. n : i \in 1 .. n + 1
        BY <1>3
      <3>4. (\E i \in 1 .. n + 1 : t[i] = x) <=> \E i \in 1 .. n : s[i] = x
        BY <1>4, <1>5, <2>2, <3>3
      <3>5. QED
        BY <1>2, <3>1, <3>2, <3>4
    <2>3. QED
      BY <2>1, <2>2
  <1>7. ASSUME NEW i \in 1 .. n + 1, NEW j \in 1 .. n + 1, t[i] = t[j] PROVE i = j
    <2>1. \A x \in 1 .. n : t[x] = s[x] /\ t[x] # e
      BY <1>3, <1>4
    <2>2. CASE i \in 1 .. n /\ j \in 1 .. n
      <3>1. s[i] = s[j]
        BY <1>7, <2>1, <2>2
      <3>2. QED
        BY <1>2, <2>2, <3>1
    <2>3. CASE i = n + 1 \/ j = n + 1
      BY <1>4, <1>5, <1>7, <2>1, <2>3
    <2>4. QED
      BY <1>5, <2>2, <2>3
  <1>8. ASSUME NEW i \in 1 .. n + 1 PROVE next'[t[i]] = IF i = n + 1 THEN 0 ELSE t[i + 1]
    <2>1. next \in [Elems -> 0 .. nelems] /\ next[e] = 0
      BY <1>3 DEF TypeInv, LinksInv
    <2>2. CASE i = n + 1
      <3>1. next'[e] = 0
        <4>1. CASE LastSibling(p) = {}
          BY <2>1, <4>1
        <4>2. CASE LastSibling(p) # {}
          <5>1. Min(LastSibling(p)) # e
            BY <1>3, <4>2, LastSiblingIs
          <5>2. QED
            BY <1>3, <2>1, <4>2, <5>1
        <4>3. QED
          BY <4>1, <4>2
      <3>2. QED
        BY <1>4, <2>2, <3>1
    <2>3. CASE i \in 1 .. n
      <3>1. s # <<>>
        <4>1. Len(<<>>) = 0
          OBVIOUS
        <4>2. QED
          BY <1>1, <1>3, <2>3, <4>1
      <3>2. next' = [next EXCEPT ![s[n]] = e] /\ n \in 1 .. n
        <4>1. n \in 1 .. n
          BY <1>3, <2>3
        <4>2. LastSibling(p) # {} /\ Min(LastSibling(p)) = s[n]
          BY <1>1, <3>1, LastOfFamily
        <4>3. QED
          BY <4>1, <4>2
      <3>3. t[i] = s[i] /\ s[i] \in Elems /\ s[n] \in Elems /\ i # n + 1
        BY <1>3, <1>4, <1>5, <2>3, <3>2
      <3>4. CASE i = n
        <4>1. next'[s[n]] = e
          BY <2>1, <3>2, <3>3
        <4>2. QED
          BY <1>4, <3>3, <3>4, <4>1
      <3>5. CASE i # n
        <4>1. i + 1 \in 1 .. n /\ s[i] # s[n]
          <5>1. i + 1 \in 1 .. n
            BY <1>3, <2>3, <3>5
          <5>2. QED
            BY <1>2, <2>3, <3>2, <3>5, <5>1
        <4>2. next'[s[i]] = next[s[i]]
          BY <2>1, <3>2, <3>3, <4>1
        <4>3. QED
          BY <1>2, <1>4, <2>3, <3>3, <3>5, <4>1, <4>2
      <3>6. QED
        BY <3>4, <3>5
    <2>4. QED
      BY <1>5, <2>2, <2>3
  <1>9. ASSUME NEW i \in 1 .. n + 1 PROVE t[i] \in removed' <=> i <= k
    <2>1. CASE i = n + 1
      <3>1. e \notin removed
        BY <1>3 DEF TypeInv
      <3>2. ~(n + 1 <= k)
        BY <1>2, <1>3
      <3>3. QED
        BY <1>4, <2>1, <3>1, <3>2
    <2>2. CASE i \in 1 .. n
      BY <1>2, <1>4, <2>2
    <2>3. QED
      BY <1>5, <2>1, <2>2
  <1>10. FirstOf(p)' = IF k = n + 1 THEN 0 ELSE t[k + 1]
    <2>1. k # n + 1 /\ FirstOf(p)' = first'[p] /\ FirstOf(p) = first[p]
      BY <1>2, <1>3 DEF FirstOf
    <2>2. CASE k = n
      <3>1. first'[p] = e
        BY <1>2, <1>3, <2>1, <2>2 DEF TypeInv, LinksInv
      <3>2. QED
        BY <1>4, <2>1, <2>2, <3>1
    <2>3. CASE k # n
      <3>1. k + 1 \in 1 .. n
        BY <1>2, <1>3, <2>3
      <3>2. first[p] = s[k + 1] /\ s[k + 1] \in 1 .. nelems
        BY <1>2, <1>4, <2>1, <2>3, <3>1
      <3>3. first[p] # 0
        BY <1>3, <3>2
      <3>4. QED
        BY <1>4, <2>1, <3>1, <3>2, <3>3
    <2>4. QED
      BY <2>2, <2>3
  <1>11. n + 1 <= nelems' /\ k \in 0 .. n + 1
    BY <1>2, <1>3
  <1>12. Family(p, t, k)'
    BY <1>4, <1>6, <1>7, <1>8, <1>9, <1>10, <1>11 DEF Family
  <1>13. QED
    BY <1>1, <1>12
(* A new element between r and the predecessor of r in apelems, which is   *)
(* its elder sibling.                                                      *)
LEMMA FamilyInsert ==
  ASSUME TypeInv, TypeInv', NEW p \in 1 .. nelems, NEW s, NEW k, Family(p, s, k),
         NEW j \in k + 2 .. Len(s), NEW r, s[j] = r, s[j - 1] = r - 1,
         NEW e, e = nelems + 1, nelems' = e, removed' = removed,
         parent' = [parent EXCEPT ![e] = p],
         first' = IF first[p] = 0 THEN [first EXCEPT ![p] = e] ELSE first,
         next' = [next EXCEPT ![r - 1] = e, ![e] = r]
  PROVE  Family(p, InsertAt(s, j, e), k)'
  <1>1. PICK n, t : n = Len(s) /\ t = InsertAt(s, j, e)
    OBVIOUS
  <1>2. /\ s \in Seq(1 .. nelems) /\ n <= nelems /\ k \in 0 .. n
        /\ \A x \in 1 .. nelems : parent[x] = p <=> \E i \in 1 .. n : s[i] = x
        /\ \A i, l \in 1 .. n : s[i] = s[l] => i = l
        /\ \A i \in 1 .. n : next[s[i]] = IF i = n THEN 0 ELSE s[i + 1]
        /\ \A i \in 1 .. n : s[i] \in removed <=> i <= k
        /\ FirstOf(p) = IF k = n THEN 0 ELSE s[k + 1]
    BY <1>1 DEF Family
  <1>3. /\ n \in Nat /\ nelems \in Nat /\ e \in Elems /\ e \in 1 .. e /\ 1 .. nelems \subseteq 1 .. e
        /\ e # 0 /\ 1 .. nelems \subseteq Elems /\ e \notin 1 .. nelems /\ p # 0 /\ p # e /\ p \in Elems
    <2>1. n \in Nat /\ nelems \in Nat /\ e \in 0 .. MaxElems
      BY <1>1, <1>2, Numbers, LenProperties DEF TypeInv
    <2>2. QED
      BY <2>1, Numbers
  <1>4. k \in Nat /\ j \in Nat /\ k + 2 <= j /\ j <= n /\ j \in 1 .. n /\ j - 1 \in 1 .. n /\ j # j - 1
    BY <1>1, <1>2, <1>3
  <1>5. \A i \in 1 .. n : s[i] \in 1 .. nelems /\ s[i] \in Elems /\ s[i] # e
    BY <1>1, <1>2, <1>3, ElementOfSeq, SMTT(30)
  <1>6. /\ t \in Seq(1 .. e) /\ Len(t) = n + 1
        /\ t[j] = e
        /\ \A i \in 1 .. n + 1 : i < j => t[i] = s[i]
        /\ \A i \in 1 .. n + 1 : j < i => t[i] = s[i - 1]
    <2>1. s \in Seq(1 .. e)
      BY <1>2, <1>3, SeqGrows
    <2>2. j \in 1 .. Len(s) + 1 /\ e \in 1 .. e
      BY <1>1, <1>3, <1>4
    <2>3. PICK E, d : E = 1 .. e /\ d = e
      OBVIOUS
    <2>4. s \in Seq(E) /\ d \in E
      BY <2>1, <2>2, <2>3
    <2>5. InsertAt(s, j, d) \in Seq(E) /\ Len(InsertAt(s, j, d)) = Len(s) + 1
      BY <2>2, <2>4, InsertIs
    <2>6. /\ InsertAt(s, j, d)[j] = d
          /\ \A i \in 1 .. Len(s) + 1 : i < j => InsertAt(s, j, d)[i] = s[i]
          /\ \A i \in 1 .. Len(s) + 1 : j < i => InsertAt(s, j, d)[i] = s[i - 1]
      BY <2>2, <2>4, InsertIs, SMTT(30)
    <2>7. QED
      BY <1>1, <2>3, <2>5, <2>6
  <1>7. /\ \A i \in 1 .. n + 1 : i < j => t[i] = s[i] /\ i \in 1 .. n /\ i # j
        /\ j \in 1 .. n + 1 /\ t[j] = e
        /\ \A i \in 1 .. n + 1 : j < i => t[i] = s[i - 1] /\ i - 1 \in 1 .. n /\ i # j
    <2>1. ASSUME NEW i \in 1 .. n + 1, i < j PROVE t[i] = s[i] /\ i \in 1 .. n /\ i # j
      <3>1. i \in 1 .. n /\ i # j
        BY <1>3, <1>4, <2>1
      <3>2. QED
        BY <1>6, <2>1, <3>1
    <2>2. j \in 1 .. n + 1 /\ t[j] = e
      <3>1. j \in 1 .. n + 1
        BY <1>3, <1>4
      <3>2. QED
        BY <1>6, <3>1
    <2>3. ASSUME NEW i \in 1 .. n + 1, j < i PROVE t[i] = s[i - 1] /\ i - 1 \in 1 .. n /\ i # j
      <3>1. i - 1 \in 1 .. n /\ i # j
        BY <1>3, <1>4, <2>3
      <3>2. QED
        BY <1>6, <2>3, <3>1
    <2>4. QED
      BY <2>1, <2>2, <2>3
  <1>8. ASSUME NEW i \in 1 .. n + 1 PROVE i < j \/ i = j \/ j < i
    BY <1>3, <1>4
  <1>9. ASSUME NEW x \in 1 .. nelems' PROVE parent'[x] = p <=> \E i \in 1 .. n + 1 : t[i] = x
    <2>1. CASE x = e
      <3>1. parent'[e] = p
        BY <1>3 DEF TypeInv, LinksInv
      <3>2. QED
        BY <1>7, <2>1, <3>1
    <2>2. CASE x # e
      <3>1. x \in 1 .. nelems
        BY <1>3, <2>2
      <3>2. parent'[x] = parent[x]
        BY <1>3, <2>2, <3>1 DEF TypeInv, LinksInv
      <3>3. ASSUME NEW i \in 1 .. n, s[i] = x PROVE \E l \in 1 .. n + 1 : t[l] = x
        <4>1. CASE i < j
          <5>1. i \in 1 .. n + 1
            BY <1>3
          <5>2. QED
            BY <1>7, <3>3, <4>1, <5>1
        <4>2. CASE ~(i < j)
          <5>1. i + 1 \in 1 .. n + 1 /\ j < i + 1 /\ i + 1 - 1 = i
            BY <1>3, <1>4, <4>2
          <5>2. t[i + 1] = s[i + 1 - 1]
            BY <1>7, <5>1
          <5>3. QED
            BY <3>3, <5>1, <5>2
        <4>3. QED
          BY <4>1, <4>2
      <3>4. ASSUME NEW i \in 1 .. n + 1, t[i] = x PROVE \E l \in 1 .. n : s[l] = x
        BY <1>7, <1>8, <2>2, <3>4
      <3>5. QED
        BY <1>2, <3>1, <3>2, <3>3, <3>4
    <2>3. QED
      BY <2>1, <2>2
  <1>10. ASSUME NEW i \in 1 .. n + 1, NEW l \in 1 .. n + 1, t[i] = t[l] PROVE i = l
    <2>1. CASE i = j \/ l = j
      <3>1. \A x \in 1 .. n + 1 : x # j => t[x] # e
        BY <1>5, <1>7, <1>8
      <3>2. QED
        BY <1>7, <1>10, <2>1, <3>1
    <2>2. CASE i # j /\ l # j
      <3>1. PICK a : a = IF i < j THEN i ELSE i - 1
        OBVIOUS
      <3>2. PICK b : b = IF l < j THEN l ELSE l - 1
        OBVIOUS
      <3>3. a \in 1 .. n /\ t[i] = s[a]
        BY <1>7, <1>8, <2>2, <3>1
      <3>4. b \in 1 .. n /\ t[l] = s[b]
        BY <1>7, <1>8, <2>2, <3>2
      <3>5. a = b
        <4>1. s[a] = s[b]
          BY <1>10, <3>3, <3>4
        <4>2. QED
          BY <1>2, <3>3, <3>4, <4>1
      <3>6. i \in Int /\ l \in Int
        OBVIOUS
      <3>7. QED
        BY <1>4, <2>2, <3>1, <3>2, <3>5, <3>6
    <2>3. QED
      BY <2>1, <2>2
  <1>11. /\ next'[r - 1] = e /\ next'[e] = r /\ \A x \in Elems : x # r - 1 /\ x # e => next'[x] = next[x]
    <2>1. r - 1 \in Elems /\ r - 1 # e /\ next \in [Elems -> 0 .. nelems]
      <3>1. s[j - 1] \in Elems /\ s[j - 1] # e
        BY <1>4, <1>5
      <3>2. next \in [Elems -> 0 .. nelems]
        BY DEF TypeInv, LinksInv
      <3>3. QED
        BY <3>1, <3>2
    <2>2. QED
      BY <1>3, <2>1
  <1>12. ASSUME NEW i \in 1 .. n + 1 PROVE next'[t[i]] = IF i = n + 1 THEN 0 ELSE t[i + 1]
    <2>1. CASE i < j
      <3>1. /\ t[i] = s[i] /\ i \in 1 .. n /\ i + 1 \in 1 .. n + 1 /\ i # n + 1 /\ i # n
            /\ (i + 1 < j \/ i + 1 = j) /\ (i + 1 < j => i # j - 1) /\ (i + 1 = j => i = j - 1)
        BY <1>3, <1>4, <1>7, <2>1
      <3>2. CASE i + 1 < j
        <4>1. s[i] # s[j - 1] /\ s[i] \in Elems /\ s[i] # e
          BY <1>2, <1>4, <1>5, <3>1, <3>2
        <4>2. next'[s[i]] = next[s[i]]
          BY <1>11, <4>1
        <4>3. t[i + 1] = s[i + 1]
          BY <1>7, <3>1, <3>2
        <4>4. QED
          BY <1>2, <3>1, <4>2, <4>3
      <3>3. CASE i + 1 = j
        BY <1>7, <1>11, <3>1, <3>3
      <3>4. QED
        BY <3>1, <3>2, <3>3
    <2>2. CASE i = j
      <3>1. j + 1 \in 1 .. n + 1 /\ j < j + 1 /\ j + 1 - 1 = j /\ j # n + 1
        BY <1>3, <1>4
      <3>2. t[j + 1] = s[j + 1 - 1]
        BY <1>7, <3>1
      <3>3. QED
        BY <1>7, <1>11, <2>2, <3>1, <3>2
    <2>3. CASE j < i
      <3>1. t[i] = s[i - 1] /\ i - 1 \in 1 .. n /\ i - 1 # j - 1 /\ (i = n + 1 <=> i - 1 = n) /\ i - 1 + 1 = i
        BY <1>3, <1>4, <1>7, <2>3
      <3>2. s[i - 1] # s[j - 1] /\ s[i - 1] \in Elems /\ s[i - 1] # e
        BY <1>2, <1>4, <1>5, <3>1
      <3>3. next'[t[i]] = IF i - 1 = n THEN 0 ELSE s[i - 1 + 1]
        <4>1. PICK x : x = i - 1
          OBVIOUS
        <4>2. x \in 1 .. n /\ t[i] = s[x] /\ s[x] # r - 1 /\ s[x] \in Elems /\ s[x] # e
          BY <3>1, <3>2, <4>1
        <4>3. next'[s[x]] = next[s[x]]
          BY <1>11, <4>2
        <4>4. next[s[x]] = IF x = n THEN 0 ELSE s[x + 1]
          BY <1>2, <4>2
        <4>5. QED
          BY <4>1, <4>2, <4>3, <4>4
      <3>4. ASSUME i # n + 1 PROVE t[i + 1] = s[i]
        <4>1. i + 1 \in 1 .. n + 1 /\ j < i + 1 /\ i + 1 - 1 = i
          BY <1>3, <1>4, <2>3, <3>4
        <4>2. t[i + 1] = s[i + 1 - 1]
          BY <1>7, <4>1
        <4>3. QED
          BY <4>1, <4>2
      <3>5. QED
        BY <3>1, <3>3, <3>4
    <2>4. QED
      BY <1>8, <2>1, <2>2, <2>3
  <1>13. ASSUME NEW i \in 1 .. n + 1 PROVE t[i] \in removed' <=> i <= k
    <2>1. CASE i < j
      BY <1>2, <1>7, <2>1
    <2>2. CASE i = j
      <3>1. e \notin removed
        BY <1>3 DEF TypeInv
      <3>2. ~(j <= k)
        BY <1>4
      <3>3. QED
        BY <1>7, <2>2, <3>1, <3>2
    <2>3. CASE j < i
      <3>1. t[i] = s[i - 1] /\ i - 1 \in 1 .. n /\ ~(i - 1 <= k) /\ ~(i <= k)
        BY <1>4, <1>7, <2>3
      <3>2. QED
        BY <1>2, <3>1
    <2>4. QED
      BY <1>8, <2>1, <2>2, <2>3
  <1>14. FirstOf(p)' = IF k = n + 1 THEN 0 ELSE t[k + 1]
    <2>1. k # n + 1 /\ k # n /\ k + 1 < j /\ k + 1 \in 1 .. n + 1 /\ k + 1 \in 1 .. n
      BY <1>3, <1>4
    <2>2. FirstOf(p)' = first'[p] /\ FirstOf(p) = first[p]
      BY <1>3 DEF FirstOf
    <2>3. first[p] = s[k + 1] /\ t[k + 1] = s[k + 1] /\ s[k + 1] \in 1 .. nelems
      BY <1>2, <1>5, <1>7, <2>1, <2>2
    <2>4. first[p] # 0
      BY <1>3, <2>3
    <2>5. QED
      BY <2>1, <2>2, <2>3, <2>4
  <1>15. n + 1 <= nelems' /\ k \in 0 .. n + 1
    BY <1>2, <1>3
  <1>16. Family(p, t, k)'
    <2>1. t \in Seq(1 .. nelems')
      BY <1>6
    <2>2. Len(t) = n + 1
      BY <1>6
    <2>3. \A x \in 1 .. nelems' : parent'[x] = p <=> \E i \in 1 .. Len(t) : t[i] = x
      BY <1>9, <2>2
    <2>4. \A i, l \in 1 .. Len(t) : t[i] = t[l] => i = l
      BY <1>10, <2>2
    <2>5. \A i \in 1 .. Len(t) : next'[t[i]] = IF i = Len(t) THEN 0 ELSE t[i + 1]
      BY <1>12, <2>2
    <2>6. \A i \in 1 .. Len(t) : t[i] \in removed' <=> i <= k
      BY <1>13, <2>2
    <2>7. FirstOf(p)' = IF k = Len(t) THEN 0 ELSE t[k + 1]
      BY <1>14, <2>2
    <2>8. Len(t) <= nelems' /\ k \in 0 .. Len(t)
      BY <1>15, <2>2
    <2>9. QED
      BY <2>1, <2>3, <2>4, <2>5, <2>6, <2>7, <2>8 DEF Family
  <1>17. QED
    BY <1>1, <1>16
(* The first element of main.xml is the root.                              *)
LEMMA FamilyFirst ==
  ASSUME TypeInv, TypeInv', FamilyInv, nelems = 0, nelems' = 1, removed' = removed, UNCHANGED links
  PROVE  FamilyInv' /\ Family(0, <<1>>, 0)' /\ \A p \in Ptrs \ {0} : Family(p, <<>>, 0)'
  <1>1. /\ 1 \in Elems /\ parent' = parent /\ first' = first /\ next' = next /\ removed' = {}
        /\ parent[1] = 0 /\ next[1] = 0
        /\ \A x \in Elems : first[x] = 0
    BY Numbers DEF TypeInv, LinksInv, links
  <1>2. ASSUME NEW p \in Ptrs, p # 0 PROVE Family(p, <<>>, 0)'
    <2>1. FirstOf(p)' = 0
      BY <1>1, <1>2, Numbers DEF FirstOf
    <2>2. <<>> \in Seq(1 .. 1) /\ Len(<<>>) = 0 /\ 1 .. 0 = {} /\ \A x \in 1 .. 1 : x = 1
      OBVIOUS
    <2>3. QED
      BY <1>1, <1>2, <2>1, <2>2 DEF Family
  <1>3. Family(0, <<1>>, 0)'
    <2>1. <<1>> \in Seq(1 .. 1) /\ Len(<<1>>) = 1 /\ <<1>>[1] = 1
      OBVIOUS
    <2>2. PICK s : s = <<1>>
      OBVIOUS
    <2>3. s \in Seq(1 .. 1) /\ Len(s) = 1 /\ s[1] = 1 /\ 1 .. 1 = {1}
      BY <2>1, <2>2
    <2>4. FirstOf(0)' = 1
      BY DEF FirstOf
    <2>5. \A x \in 1 .. 1 : x = 1
      OBVIOUS
    <2>6. Family(0, s, 0)'
      BY <1>1, <2>3, <2>4, <2>5 DEF Family
    <2>7. QED
      BY <2>2, <2>6
  <1>4. FamilyInv'
    <2>1. \A p \in Ptrs : \E s, k : Family(p, s, k)'
      BY <1>2, <1>3
    <2>2. QED
      BY <2>1 DEF FamilyInv
  <1>5. QED
    BY <1>2, <1>3, <1>4

(* The first child leaves its family; next keeps pointing out of it.       *)
LEMMA FamilyRemoved ==
  ASSUME TypeInv, TypeInv', NEW p \in 1 .. nelems, NEW s, NEW k, Family(p, s, k),
         NEW e \in 1 .. nelems, first[p] = e, UNCHANGED <<nelems, parent, next>>,
         first' = [first EXCEPT ![p] = next[e]], removed' = removed \cup {e}
  PROVE  k < Len(s) /\ s[k + 1] = e /\ Family(p, s, k + 1)'
  <1>1. PICK n : n = Len(s)
    OBVIOUS
  <1>2. /\ s \in Seq(1 .. nelems) /\ n <= nelems /\ k \in 0 .. n
        /\ \A x \in 1 .. nelems : parent[x] = p <=> \E i \in 1 .. n : s[i] = x
        /\ \A i, j \in 1 .. n : s[i] = s[j] => i = j
        /\ \A i \in 1 .. n : next[s[i]] = IF i = n THEN 0 ELSE s[i + 1]
        /\ \A i \in 1 .. n : s[i] \in removed <=> i <= k
        /\ FirstOf(p) = IF k = n THEN 0 ELSE s[k + 1]
    BY <1>1 DEF Family
  <1>3. n \in Nat /\ nelems \in Nat /\ e # 0 /\ p # 0 /\ p \in Elems
    BY <1>1, <1>2, Numbers, LenProperties, SMTT(30) DEF TypeInv
  <1>4. k # n /\ s[k + 1] = e /\ k + 1 \in 1 .. n /\ k + 1 \in 0 .. n /\ k < n
    BY <1>2, <1>3 DEF FirstOf
  <1>5. ASSUME NEW i \in 1 .. n PROVE s[i] \in removed' <=> i <= k + 1
    <2>1. s[i] = e <=> i = k + 1
      BY <1>2, <1>4
    <2>2. i <= k + 1 <=> i <= k \/ i = k + 1
      BY <1>2, <1>3
    <2>3. QED
      BY <1>2, <2>1, <2>2
  <1>6. FirstOf(p)' = IF k + 1 = n THEN 0 ELSE s[k + 1 + 1]
    <2>1. FirstOf(p)' = next[e]
      BY <1>3 DEF FirstOf, TypeInv, LinksInv
    <2>2. QED
      BY <1>2, <1>4, <2>1
  <1>7. Family(p, s, k + 1)'
    BY <1>1, <1>2, <1>4, <1>5, <1>6 DEF Family
  <1>8. QED
    BY <1>1, <1>4, <1>7
AreChildren(p, s, k) ==
  /\ Children(p) = SubSeq(s, k + 1, Len(s))
  /\ Children(p) \in Seq(1 .. nelems) /\ Len(Children(p)) = Len(s) - k
  /\ \A i \in 1 .. Len(s) - k : Children(p)[i] = s[k + i] /\ k + i \in 1 .. Len(s)

LEMMA ChildrenThen ==
  ASSUME NEW p, NEW s, NEW k
  PROVE  TypeInv' /\ Family(p, s, k)' => AreChildren(p, s, k)'
  <1>1. TypeInv /\ Family(p, s, k) => AreChildren(p, s, k)
    BY ChildrenAre DEF AreChildren
  <1>2. QED
    BY <1>1, PTL

LEMMA ChildrenSame ==
  ASSUME TypeInv, TypeInv', NEW p, NEW s, NEW k, Family(p, s, k), Family(p, s, k)'
  PROVE  Children(p)' = Children(p)
  <1>1. Children(p) = SubSeq(s, k + 1, Len(s))
    BY ChildrenAre
  <1>2. Children(p)' = SubSeq(s, k + 1, Len(s))
    BY ChildrenThen DEF AreChildren
  <1>3. QED
    BY <1>1, <1>2

(* The children after an element has been added at the end, before one of  *)
(* them, and after the first one has been removed.                         *)
LEMMA ChildrenAppend ==
  ASSUME TypeInv, TypeInv', NEW p, NEW s, NEW k, Family(p, s, k),
         NEW e, e \in 1 .. nelems', nelems <= nelems', Family(p, Append(s, e), k)'
  PROVE  Children(p)' = Append(Children(p), e)
  <1>1. PICK E, t, c, d : E = 1 .. nelems' /\ t = Append(s, e) /\ c = Children(p) /\ d = Children(p)'
    OBVIOUS
  <1>2. PICK n : n = Len(s)
    OBVIOUS
  <1>3. n \in Nat /\ k \in 0 .. n /\ s \in Seq(1 .. nelems) /\ e \in E /\ 1 .. nelems \subseteq E
    <2>1. nelems \in Nat /\ nelems' \in Nat
      BY Numbers DEF TypeInv
    <2>2. QED
      BY <1>1, <1>2, <2>1, LenProperties DEF Family
  <1>4. Len(t) = n + 1 /\ t[n + 1] = e /\ \A i \in 1 .. n : t[i] = s[i]
    <2>1. s \in Seq(E)
      BY <1>3, SeqGrows
    <2>2. Len(t) = n + 1 /\ t[n + 1] = e
      BY <1>1, <1>2, <1>3, <2>1, AppendProperties
    <2>3. \A i \in 1 .. n : t[i] = s[i]
      BY <1>1, <1>2, <1>3, <2>1, AppendProperties
    <2>4. QED
      BY <2>2, <2>3
  <1>5. c \in Seq(E) /\ Len(c) = n - k /\ \A i \in 1 .. n - k : c[i] = s[k + i] /\ k + i \in 1 .. n
    <2>1. c \in Seq(1 .. nelems) /\ Len(c) = n - k /\ \A i \in 1 .. n - k : c[i] = s[k + i] /\ k + i \in 1 .. n
      BY <1>1, <1>2, ChildrenAre
    <2>2. QED
      BY <1>3, <2>1, SeqGrows
  <1>6. d \in Seq(E) /\ Len(d) = n + 1 - k /\ \A i \in 1 .. n + 1 - k : d[i] = t[k + i]
    <2>1. Family(p, t, k)'
      BY <1>1
    <2>2. /\ Children(p)' \in Seq(1 .. nelems') /\ Len(Children(p)') = Len(t) - k
          /\ \A i \in 1 .. Len(t) - k : Children(p)'[i] = t[k + i] /\ k + i \in 1 .. Len(t)
      BY <2>1, ChildrenThen DEF AreChildren
    <2>3. d \in Seq(E) /\ Len(d) = Len(t) - k /\ \A i \in 1 .. Len(t) - k : d[i] = t[k + i]
      BY <1>1, <2>2
    <2>4. Len(t) = n + 1
      BY <1>4
    <2>5. n \in Int /\ k \in Int
      BY <1>3
    <2>6. QED
      BY <2>3, <2>4, <2>5
  <1>7. PICK m : m = n - k
    OBVIOUS
  <1>8. m \in Nat /\ n + 1 - k = m + 1 /\ k + (m + 1) = n + 1
    BY <1>3, <1>7
  <1>9. PICK a : a = Append(c, e)
    OBVIOUS
  <1>10. a \in Seq(E) /\ Len(a) = m + 1 /\ a[m + 1] = e /\ \A i \in 1 .. m : a[i] = c[i]
    <2>1. a \in Seq(E)
      BY <1>3, <1>5, <1>9, AppendProperties
    <2>2. Len(a) = m + 1 /\ a[m + 1] = e
      <3>1. Len(a) = Len(c) + 1 /\ a[Len(c) + 1] = e
        BY <1>3, <1>5, <1>9, AppendProperties, ZenonT(60)
      <3>2. QED
        BY <1>5, <1>7, <3>1
    <2>3. \A i \in 1 .. m : a[i] = c[i]
      BY <1>3, <1>5, <1>7, <1>9, AppendProperties
    <2>4. QED
      BY <2>1, <2>2, <2>3
  <1>11. ASSUME NEW i \in 1 .. m + 1 PROVE d[i] = a[i]
    <2>1. CASE i = m + 1
      BY <1>4, <1>6, <1>8, <1>10, <2>1
    <2>2. CASE i # m + 1
      <3>1. i \in 1 .. m
        BY <1>8, <2>2
      <3>2. d[i] = t[k + i] /\ c[i] = s[k + i] /\ k + i \in 1 .. n
        BY <1>5, <1>6, <1>7, <1>8, <3>1
      <3>3. QED
        BY <1>4, <1>10, <3>1, <3>2
    <2>3. QED
      BY <2>1, <2>2
  <1>12. Len(d) = m + 1
    BY <1>6, <1>8
  <1>13. d = a
    BY <1>6, <1>10, <1>11, <1>12, SeqEqual
  <1>14. QED
    BY <1>1, <1>9, <1>13
LEMMA ChildrenInsert ==
  ASSUME TypeInv, TypeInv', NEW p, NEW s, NEW k, Family(p, s, k), NEW r, NEW j \in k + 2 .. Len(s), s[j] = r,
         NEW e, e \in 1 .. nelems', nelems <= nelems', Family(p, InsertAt(s, j, e), k)'
  PROVE  Children(p)' = LET i == CHOOSE i \in DOMAIN Children(p) : Children(p)[i] = r
                        IN  InsertAt(Children(p), i, e)
  <1>1. PICK E, t, c, d : E = 1 .. nelems' /\ t = InsertAt(s, j, e) /\ c = Children(p) /\ d = Children(p)'
    OBVIOUS
  <1>2. PICK n : n = Len(s)
    OBVIOUS
  <1>3. n \in Nat /\ k \in 0 .. n /\ s \in Seq(1 .. nelems) /\ e \in E /\ 1 .. nelems \subseteq E
    <2>1. nelems \in Nat /\ nelems' \in Nat
      BY Numbers DEF TypeInv
    <2>2. QED
      BY <1>1, <1>2, <2>1, LenProperties DEF Family
  <1>4. j \in Int /\ k \in Int /\ n \in Int /\ k + 2 <= j /\ j <= n /\ k >= 0
    BY <1>2, <1>3
  <1>5. /\ Len(t) = n + 1 /\ t[j] = e
        /\ \A i \in 1 .. n + 1 : i < j => t[i] = s[i]
        /\ \A i \in 1 .. n + 1 : j < i => t[i] = s[i - 1]
    <2>1. s \in Seq(E) /\ e \in E
      BY <1>3, SeqGrows
    <2>2. j \in 1 .. Len(s) + 1
      BY <1>2, <1>4
    <2>3. t = InsertAt(s, j, e)
      BY <1>1
    <2>4. Len(t) = Len(s) + 1 /\ t[j] = e
      BY <2>1, <2>2, <2>3, InsertIs
    <2>5. \A i \in 1 .. Len(s) + 1 : i < j => InsertAt(s, j, e)[i] = s[i]
      BY <2>1, <2>2, InsertIs
    <2>6. \A i \in 1 .. Len(s) + 1 : j < i => InsertAt(s, j, e)[i] = s[i - 1]
      BY <2>1, <2>2, InsertIs
    <2>7. QED
      BY <1>2, <2>3, <2>4, <2>5, <2>6
  <1>6. c \in Seq(E) /\ Len(c) = n - k /\ \A i \in 1 .. n - k : c[i] = s[k + i] /\ k + i \in 1 .. n
    <2>1. c \in Seq(1 .. nelems) /\ Len(c) = n - k /\ \A i \in 1 .. n - k : c[i] = s[k + i] /\ k + i \in 1 .. n
      BY <1>1, <1>2, ChildrenAre
    <2>2. QED
      BY <1>3, <2>1, SeqGrows
  <1>7. d \in Seq(E) /\ Len(d) = n + 1 - k /\ \A i \in 1 .. n + 1 - k : d[i] = t[k + i]
    <2>1. Family(p, t, k)'
      BY <1>1
    <2>2. /\ Children(p)' \in Seq(1 .. nelems') /\ Len(Children(p)') = Len(t) - k
          /\ \A i \in 1 .. Len(t) - k : Children(p)'[i] = t[k + i] /\ k + i \in 1 .. Len(t)
      BY <2>1, ChildrenThen DEF AreChildren
    <2>3. d \in Seq(E) /\ Len(d) = Len(t) - k /\ \A i \in 1 .. Len(t) - k : d[i] = t[k + i]
      BY <1>1, <2>2
    <2>4. Len(t) = n + 1 /\ n \in Int /\ k \in Int
      BY <1>4, <1>5
    <2>5. QED
      BY <2>3, <2>4
  <1>8. PICK m, l : m = n - k /\ l = j - k
    OBVIOUS
  <1>9. m \in Nat /\ l \in 1 .. m /\ l \in 1 .. m + 1 /\ n + 1 - k = m + 1 /\ j = k + l
    BY <1>3, <1>4, <1>8
  <1>10. (CHOOSE i \in DOMAIN c : c[i] = r) = l
    <2>1. DOMAIN c = 1 .. m
      BY <1>6, <1>8, LenProperties
    <2>2. c[l] = r
      BY <1>6, <1>8, <1>9
    <2>3. ASSUME NEW i \in 1 .. m, c[i] = r PROVE i = l
      <3>1. s[k + i] = s[k + l] /\ k + i \in 1 .. n /\ k + l \in 1 .. n
        BY <1>6, <1>8, <1>9, <2>2, <2>3
      <3>2. k + i = k + l
        BY <1>2, <3>1 DEF Family
      <3>3. QED
        BY <1>4, <1>9, <3>2
    <2>4. QED
      BY <1>9, <2>1, <2>2, <2>3
  <1>11. PICK a : a = InsertAt(c, l, e)
    OBVIOUS
  <1>12. /\ a \in Seq(E) /\ Len(a) = m + 1 /\ a[l] = e
         /\ \A i \in 1 .. m + 1 : i < l => a[i] = c[i]
         /\ \A i \in 1 .. m + 1 : l < i => a[i] = c[i - 1]
    <2>1. Len(c) = m
      BY <1>6, <1>8
    <2>2. l \in 1 .. Len(c) + 1
      BY <1>9, <2>1
    <2>3. c \in Seq(E) /\ e \in E
      BY <1>3, <1>6
    <2>4. a \in Seq(E) /\ Len(a) = Len(c) + 1 /\ a[l] = e
      BY <1>11, <2>2, <2>3, InsertIs
    <2>5. \A i \in 1 .. Len(c) + 1 : i < l => InsertAt(c, l, e)[i] = c[i]
      BY <2>2, <2>3, InsertIs
    <2>6. \A i \in 1 .. Len(c) + 1 : l < i => InsertAt(c, l, e)[i] = c[i - 1]
      BY <2>2, <2>3, InsertIs
    <2>7. QED
      BY <1>11, <2>1, <2>4, <2>5, <2>6
  <1>13. \A i \in 1 .. m : c[i] = s[k + i] /\ k + i \in 1 .. n
    BY <1>6, <1>8
  <1>14. \A i \in 1 .. m + 1 : d[i] = t[k + i] /\ k + i \in 1 .. n + 1
    BY <1>4, <1>7, <1>8, <1>9
  <1>15. ASSUME NEW i \in 1 .. m + 1 PROVE d[i] = a[i]
    <2>1. PICK x : x = k + i
      OBVIOUS
    <2>2. d[i] = t[x] /\ x \in 1 .. n + 1
      BY <1>14, <2>1
    <2>3. i \in Int /\ l \in Int /\ (i < l => x < j) /\ (i = l => x = j) /\ (l < i => j < x) /\ x - 1 = k + (i - 1)
      BY <1>4, <1>9, <2>1
    <2>4. CASE i < l
      <3>1. i \in 1 .. m
        BY <1>9, <2>3, <2>4
      <3>2. t[x] = s[x]
        BY <1>5, <2>2, <2>3, <2>4
      <3>3. QED
        BY <1>12, <1>13, <2>1, <2>2, <2>4, <3>1, <3>2
    <2>5. CASE i = l
      BY <1>5, <1>12, <2>2, <2>3, <2>5
    <2>6. CASE l < i
      <3>1. i - 1 \in 1 .. m
        BY <1>9, <2>3, <2>6
      <3>2. a[i] = c[i - 1] /\ c[i - 1] = s[k + (i - 1)]
        BY <1>12, <1>13, <2>6, <3>1
      <3>3. t[x] = s[x - 1]
        BY <1>5, <2>2, <2>3, <2>6
      <3>4. QED
        BY <2>2, <2>3, <3>2, <3>3
    <2>7. QED
      BY <2>3, <2>4, <2>5, <2>6
  <1>16. Len(d) = m + 1
    BY <1>7, <1>9
  <1>17. d = a
    BY <1>7, <1>12, <1>15, <1>16, SeqEqual
  <1>18. QED
    BY <1>1, <1>10, <1>11, <1>17

LEMMA ChildrenRemoved ==
  ASSUME TypeInv, TypeInv', NEW p, NEW s, NEW k, Family(p, s, k), k < Len(s), nelems' = nelems,
         Family(p, s, k + 1)'
  PROVE  1 \in DOMAIN Children(p) /\ Children(p)' = RemoveAt(Children(p), 1)
  <1>1. PICK E, c, d, n : E = 1 .. nelems /\ c = Children(p) /\ d = Children(p)' /\ n = Len(s)
    OBVIOUS
  <1>2. c \in Seq(E) /\ Len(c) = n - k /\ \A i \in 1 .. n - k : c[i] = s[k + i] /\ k + i \in 1 .. n
    BY <1>1, ChildrenAre
  <1>3. d \in Seq(E) /\ Len(d) = n - (k + 1) /\ \A i \in 1 .. n - (k + 1) : d[i] = s[k + 1 + i]
    <2>1. /\ Children(p)' \in Seq(1 .. nelems') /\ Len(Children(p)') = Len(s) - (k + 1)
          /\ \A i \in 1 .. Len(s) - (k + 1) : Children(p)'[i] = s[k + 1 + i] /\ k + 1 + i \in 1 .. Len(s)
      BY ChildrenThen DEF AreChildren
    <2>2. QED
      BY <1>1, <2>1
  <1>4. n \in Nat /\ k \in Nat /\ k < n
    BY <1>1, LenProperties DEF Family
  <1>5. c # <<>> /\ DOMAIN c = 1 .. n - k /\ 1 \in DOMAIN c
    <2>1. DOMAIN c = 1 .. n - k
      BY <1>2, LenProperties
    <2>2. 1 \in 1 .. n - k
      BY <1>4
    <2>3. Len(<<>>) = 0 /\ n - k # 0
      BY <1>4
    <2>4. QED
      BY <1>2, <2>1, <2>2, <2>3
  <1>6. PICK a : a = RemoveAt(c, 1)
    OBVIOUS
  <1>7. a \in Seq(E) /\ Len(a) = Len(c) - 1 /\ \A i \in 1 .. Len(c) - 1 : a[i] = c[i + 1]
    <2>1. a \in Seq(E) /\ Len(a) = Len(c) - 1
      BY <1>2, <1>5, <1>6, TakenOut
    <2>2. \A i \in 1 .. Len(c) - 1 : a[i] = c[i + 1]
      BY <1>2, <1>5, <1>6, TakenOut
    <2>3. QED
      BY <2>1, <2>2
  <1>8. n - (k + 1) = n - k - 1
    BY <1>4
  <1>9. ASSUME NEW i \in 1 .. n - k - 1 PROVE d[i] = a[i]
    <2>1. i + 1 \in 1 .. n - k /\ k + (i + 1) = k + 1 + i
      BY <1>4
    <2>2. c[i + 1] = s[k + (i + 1)]
      BY <1>2, <2>1
    <2>3. QED
      BY <1>2, <1>3, <1>7, <1>8, <2>1, <2>2
  <1>10. Len(d) = n - k - 1 /\ Len(a) = n - k - 1
    BY <1>2, <1>3, <1>7, <1>8
  <1>11. d = a
    BY <1>3, <1>7, <1>9, <1>10, SeqEqual
  <1>12. QED
    BY <1>1, <1>5, <1>6, <1>11
-----------------------------------------------------------------------------
(* The tree                                                                *)

(* The entry that follows the others becomes a child of p.                 *)
Added(p) ==
  /\ nelems' = nelems + 1 /\ removed' = removed
  /\ parent' = [parent EXCEPT ![nelems + 1] = p]
  /\ first' = IF first[p] = 0 THEN [first EXCEPT ![p] = nelems + 1] ELSE first
  /\ next' = IF sibling # 0 THEN [next EXCEPT ![sibling - 1] = nelems + 1, ![nelems + 1] = sibling]
             ELSE IF LastSibling(p) = {} THEN next
             ELSE [next EXCEPT ![Min(LastSibling(p))] = nelems + 1]
  /\ sibling # 0 => AfterElder(p, sibling)

(* Where r is in its family.                                               *)
LEMMA ElderInFamily ==
  ASSUME TypeInv, NEW p, NEW s, NEW k, Family(p, s, k), NEW r, AfterElder(p, r)
  PROVE  \E j \in k + 2 .. Len(s) : s[j] = r /\ s[j - 1] = r - 1 /\ j - 1 \in 1 .. Len(s)
  <1>1. PICK n, c : n = Len(s) /\ c = Children(p)
    OBVIOUS
  <1>2. n \in Nat /\ k \in 0 .. n
    BY <1>1, LenProperties DEF Family
  <1>3. c \in Seq(1 .. nelems) /\ Len(c) = n - k /\ \A i \in 1 .. n - k : c[i] = s[k + i] /\ k + i \in 1 .. n
    BY <1>1, ChildrenAre
  <1>4. PICK i \in 2 .. n - k : c[i] = r /\ c[i - 1] = r - 1
    BY <1>1, <1>3 DEF AfterElder
  <1>5. /\ i \in 1 .. n - k /\ i - 1 \in 1 .. n - k /\ (k + i) - 1 = k + (i - 1) /\ k + i \in k + 2 .. n
        /\ k + (i - 1) \in 1 .. n
    BY <1>2
  <1>6. PICK j : j = k + i
    OBVIOUS
  <1>7. j \in k + 2 .. n /\ j - 1 = k + (i - 1) /\ j - 1 \in 1 .. n
    BY <1>5, <1>6
  <1>8. s[j] = r /\ s[j - 1] = r - 1
    BY <1>3, <1>4, <1>5, <1>6, <1>7
  <1>9. QED
    BY <1>1, <1>7, <1>8

LEMMA AddedFamily ==
  ASSUME TypeInv, TypeInv', FamilyInv, nelems < MaxElems, NEW q \in 1 .. nelems, Added(q)
  PROVE  /\ FamilyInv'
         /\ \A p \in Ptrs \ {q} : Children(p)' = Children(p)
         /\ sibling = 0 => Children(q)' = Append(Children(q), nelems + 1)
         /\ sibling # 0 =>
              Children(q)' = LET i == CHOOSE i \in DOMAIN Children(q) : Children(q)[i] = sibling
                             IN  InsertAt(Children(q), i, nelems + 1)
  <1>1. PICK e, r : e = nelems + 1 /\ r = sibling
    OBVIOUS
  <1>2. /\ e \in Elems /\ nelems \in Nat /\ nelems' = e /\ nelems <= nelems' /\ e \notin 1 .. nelems
        /\ q \in Ptrs /\ q # 0 /\ q \in Elems /\ 1 .. nelems \subseteq Elems /\ e \in 1 .. nelems'
    BY <1>1, Numbers DEF TypeInv, Added
  <1>3. /\ nelems' = nelems + 1 /\ removed' = removed
        /\ parent' = [parent EXCEPT ![e] = q]
        /\ first' = IF first[q] = 0 THEN [first EXCEPT ![q] = e] ELSE first
        /\ r # 0 => next' = [next EXCEPT ![r - 1] = e, ![e] = r] /\ AfterElder(q, r)
        /\ r = 0 => next' = IF LastSibling(q) = {} THEN next
                            ELSE [next EXCEPT ![Min(LastSibling(q))] = e]
    BY <1>1 DEF Added
  <1>4. PICK s, k : Family(q, s, k)
    BY <1>2 DEF FamilyInv
  <1>5. \A i \in 1 .. Len(s) : s[i] \in 1 .. nelems /\ parent[s[i]] = q
    BY <1>4, ElementOfSeq DEF Family
  <1>6. \A x \in 1 .. nelems : parent'[x] = parent[x]
    BY <1>2, <1>3 DEF TypeInv, LinksInv
  <1>7. \A x \in 1 .. nelems : parent[x] # q => next'[x] = next[x]
    <2>1. next \in [Elems -> 0 .. nelems]
      BY DEF TypeInv, LinksInv
    <2>2. CASE r # 0
      <3>1. PICK j \in k + 2 .. Len(s) : s[j] = r /\ s[j - 1] = r - 1 /\ j - 1 \in 1 .. Len(s)
        BY <1>3, <1>4, <2>2, ElderInFamily
      <3>2. parent[r - 1] = q
        BY <1>5, <3>1
      <3>3. QED
        BY <1>2, <1>3, <2>1, <2>2, <3>2
    <2>3. CASE r = 0 /\ LastSibling(q) = {}
      BY <1>3, <2>3
    <2>4. CASE r = 0 /\ LastSibling(q) # {}
      <3>1. parent[Min(LastSibling(q))] = q
        <4>1. Min(LastSibling(q)) \in LastSibling(q)
          BY <2>4, LastSiblingIs
        <4>2. QED
          BY <4>1 DEF LastSibling
      <3>2. QED
        BY <1>2, <1>3, <2>1, <2>4, <3>1
    <2>5. QED
      BY <2>2, <2>3, <2>4
  <1>8. ASSUME NEW p \in Ptrs, p # q, NEW s1, NEW k1, Family(p, s1, k1)
        PROVE  Family(p, s1, k1)'
    <2>1. \A x \in 1 .. nelems : parent'[x] = parent[x] /\ (parent[x] = p => next'[x] = next[x])
      BY <1>6, <1>7, <1>8
    <2>2. \A x \in 1 .. nelems : parent[x] = p => (x \in removed' <=> x \in removed)
      BY <1>3
    <2>3. \A x \in 1 .. nelems' : nelems < x => parent'[x] # p
      <3>1. parent'[e] = q
        BY <1>2, <1>3 DEF TypeInv, LinksInv
      <3>2. \A x \in 1 .. nelems' : nelems < x => x = e
        BY <1>1, <1>2
      <3>3. QED
        BY <1>8, <3>1, <3>2
    <2>4. FirstOf(p)' = FirstOf(p)
      <3>1. CASE p = 0
        <4>1. nelems # 0 /\ nelems' # 0
          BY <1>2
        <4>2. QED
          BY <3>1, <4>1 DEF FirstOf
      <3>2. CASE p # 0
        <4>1. p \in Elems
          BY <3>2, Numbers
        <4>2. first'[p] = first[p]
          BY <1>3, <1>8, <4>1 DEF TypeInv, LinksInv
        <4>3. QED
          BY <3>2, <4>2 DEF FirstOf
      <3>3. QED
        BY <3>1, <3>2
    <2>5. QED
      BY <1>2, <1>8, <2>1, <2>2, <2>3, <2>4, FamilySame
  <1>9. \A p \in Ptrs \ {q} : (\E s1, k1 : Family(p, s1, k1)') /\ Children(p)' = Children(p)
    <2> TAKE p \in Ptrs \ {q}
    <2>1. PICK s1, k1 : Family(p, s1, k1)
      BY DEF FamilyInv
    <2>2. Family(p, s1, k1)'
      BY <1>8, <2>1
    <2>3. Children(p)' = Children(p)
      BY <2>1, <2>2, ChildrenSame
    <2>4. QED
      BY <2>2, <2>3
  <1>10. CASE r = 0
    <2>1. Family(q, Append(s, e), k)'
      BY <1>1, <1>2, <1>3, <1>4, <1>10, FamilyAppend
    <2>2. Children(q)' = Append(Children(q), e)
      BY <1>2, <1>4, <2>1, ChildrenAppend
    <2>3. FamilyInv'
      BY <1>9, <2>1 DEF FamilyInv
    <2>4. QED
      BY <1>1, <1>9, <1>10, <2>2, <2>3
  <1>11. CASE r # 0
    <2>1. PICK j \in k + 2 .. Len(s) : s[j] = r /\ s[j - 1] = r - 1 /\ j - 1 \in 1 .. Len(s)
      BY <1>3, <1>4, <1>11, ElderInFamily
    <2>2. Family(q, InsertAt(s, j, e), k)'
      BY <1>1, <1>2, <1>3, <1>4, <1>11, <2>1, FamilyInsert
    <2>3. Children(q)' = LET i == CHOOSE i \in DOMAIN Children(q) : Children(q)[i] = r
                         IN  InsertAt(Children(q), i, e)
      BY <1>2, <1>4, <2>1, <2>2, ChildrenInsert
    <2>4. FamilyInv'
      BY <1>9, <2>2 DEF FamilyInv
    <2>5. QED
      BY <1>1, <1>9, <1>11, <2>3, <2>4
  <1>12. QED
    BY <1>10, <1>11
(* What the document under way is allowed to do: its first element may go  *)
(* before an element whose elder sibling is its predecessor in apelems.    *)
EditOf(p, r, os) ==
  /\ p = 0 /\ os = <<>> => nelems = 0
  /\ sibling = r
  /\ r # 0 /\ os = <<>> => AfterElder(p, r)

EditInv == \A p, r, os : Reading(p, r, os) => EditOf(p, r, os)

TreeInv == PathInv /\ FamilyInv /\ EditInv

LEMMA EditKnown ==
  ASSUME NEW p, NEW r, NEW os
  PROVE  Reading(p, r, os) /\ EditOf(p, r, os) => EditInv
  <1> SUFFICES ASSUME Reading(p, r, os), EditOf(p, r, os), NEW p1, NEW r1, NEW os1, Reading(p1, r1, os1)
               PROVE  EditOf(p1, r1, os1)
    BY DEF EditInv
  <1>1. /\ Current = [into |-> p, before |-> r, open |-> os]
        /\ Current = [into |-> p1, before |-> r1, open |-> os1]
    BY ReadingIs
  <1>2. p1 = p /\ r1 = r /\ os1 = os
    <2>1. Current.into = p /\ Current.before = r /\ Current.open = os
      BY <1>1
    <2>2. Current.into = p1 /\ Current.before = r1 /\ Current.open = os1
      BY <1>1
    <2>3. QED
      BY <2>1, <2>2
  <1>3. QED
    BY <1>2

AllRead == doc = <<>>

LEMMA EditNone == AllRead => EditInv
  <1> SUFFICES ASSUME doc = <<>>, NEW p, NEW r, NEW os, Reading(p, r, os) PROVE FALSE
    BY DEF EditInv, AllRead
  <1>1. QED
    BY ReadingIs

LEMMA EditThen ==
  ASSUME NEW p, NEW r, NEW os
  PROVE  /\ Reading(p, r, os)' /\ EditOf(p, r, os)' => EditInv'
         /\ AllRead' => EditInv'
  <1>1. Reading(p, r, os) /\ EditOf(p, r, os) => EditInv
    BY EditKnown
  <1>2. AllRead => EditInv
    BY EditNone
  <1>3. QED
    BY <1>1, <1>2, PTL

LEMMA TreeInit == Init => TreeInv
  <1> SUFFICES ASSUME Init PROVE TreeInv
    OBVIOUS
  <1>1. EditInv
    <2>1. Reading(0, 0, <<>>) /\ EditOf(0, 0, <<>>)
      BY DEF Init, Reading, Parse, EditOf
    <2>2. QED
      BY <2>1, EditKnown
  <1>2. FamilyInv
    <2>1. ASSUME NEW p \in Ptrs PROVE Family(p, <<>>, 0)
      <3>1. FirstOf(p) = 0
        BY Numbers DEF Init, FirstOf
      <3>2. <<>> \in Seq(1 .. nelems) /\ Len(<<>>) = 0 /\ 1 .. 0 = {} /\ nelems = 0
        BY DEF Init
      <3>3. QED
        BY <3>1, <3>2 DEF Family
    <2>2. QED
      BY <2>1 DEF FamilyInv
  <1>3. QED
    BY <1>1, <1>2, PathInit DEF TreeInv

(* How an element begins: as the root, or as a child of the innermost open *)
(* one or of the one the document goes into.                               *)
LEMMA StartIs ==
  ASSUME Env = {}, TreeInv, NEW m \in BOOLEAN, StartElement(m), nelems < MaxElems
  PROVE  \E p, r, os :
           /\ Reading(p, r, os) /\ os \in Seq(0 .. nelems)
           /\ \A i \in 1 .. Len(os) : os[i] # 0
           /\ doc' = <<[into |-> p, before |-> r, open |-> Append(os, nelems + 1)]>>
           /\ sibling = r /\ (r # 0 => os = <<>>) /\ UNCHANGED <<sibling, removed>>
           /\ p = 0 /\ os = <<>> => nelems = 0 /\ nelems' = 1 /\ UNCHANGED links
           /\ ~(p = 0 /\ os = <<>>) => ParentOf(p, os) \in 1 .. nelems /\ Added(ParentOf(p, os))
  <1>1. TypeInv /\ nelems \in Nat /\ nelems # MaxElems /\ ~(nelems + 1 > MaxElems)
    BY Numbers DEF TreeInv, PathInv, TypeInv
  <1>2. MayOpen /\ FamilySet(nelems + 1, level + 1) /\ doc' = Opened(nelems + 1) /\ UNCHANGED <<sibling, removed>>
    BY <1>1 DEF StartElement
  <1>3. PICK p, r, os : Reading(p, r, os) /\ PathOf(p, os)
    BY <1>2 DEF MayOpen, TreeInv, PathInv
  <1>4. Current = [into |-> p, before |-> r, open |-> os]
    BY <1>3, ReadingIs
  <1>5. os # <<>> => Last(os) # 0 /\ sibling = 0
    <2>1. Current.open = os
      BY <1>4
    <2>2. QED
      BY <1>1, <1>2, <2>1 DEF MayOpen
  <1>6. EditOf(p, r, os)
    BY <1>3 DEF TreeInv, EditInv
  <1>7. sibling = r /\ (r # 0 => os = <<>> /\ AfterElder(p, r))
    BY <1>5, <1>6 DEF EditOf
  <1>8. os \in Seq(0 .. nelems) /\ p \in 0 .. nelems /\ \A i \in 1 .. Len(os) : os[i] # 0
    <2>1. os \in Seq(0 .. nelems) /\ p \in 0 .. nelems
      BY <1>3 DEF PathOf
    <2>2. ASSUME NEW i \in 1 .. Len(os) PROVE os[i] # 0
      <3>1. os[i] = 0 => i = Len(os)
        BY <1>1, <1>3 DEF PathOf
      <3>2. os # <<>>
        <4>1. Len(<<>>) = 0 /\ 1 .. 0 = {}
          OBVIOUS
        <4>2. QED
          BY <4>1
      <3>3. QED
        BY <1>5, <3>1, <3>2 DEF Last
    <2>3. QED
      BY <2>1, <2>2
  <1>9. doc' = <<[into |-> p, before |-> r, open |-> Append(os, nelems + 1)]>>
    <2>1. \A e : Opened(e) = <<[into |-> p, before |-> r, open |-> Append(os, e)]>>
      BY <1>3, ReadingIs
    <2>2. QED
      BY <1>2, <2>1
  <1>10. PICK q : q = ParentOf(p, os)
    OBVIOUS
  <1>11. /\ q \in 0 .. nelems
         /\ q = 0 => p = 0 /\ os = <<>> /\ level + 1 = 0
         /\ q # 0 => level \in Nat /\ stack[level] = q
    BY <1>1, <1>3, <1>5, <1>10, ParentIs
  <1>12. CASE q = 0
    <2>1. p = 0 /\ os = <<>> /\ nelems = 0
      BY <1>6, <1>11, <1>12 DEF EditOf
    <2>2. nelems' = 1 /\ UNCHANGED links
      BY <1>2, <1>11, <1>12, <2>1 DEF FamilySet
    <2>3. QED
      BY <1>2, <1>3, <1>7, <1>8, <1>9, <2>1, <2>2
  <1>13. CASE q # 0
    <2>1. q \in 1 .. nelems /\ ~(level + 1 <= 0) /\ (level + 1) - 1 = level
      BY <1>1, <1>11, <1>13
    <2>2. ~(p = 0 /\ os = <<>>)
      BY <1>10, <1>13 DEF ParentOf
    <2>3. Added(q)
      <3>1. stack[(level + 1) - 1] = q
        BY <1>11, <1>13, <2>1
      <3>2. /\ parent' = [parent EXCEPT ![nelems + 1] = q]
            /\ first' = IF q # 0 /\ first[q] = 0 THEN [first EXCEPT ![q] = nelems + 1] ELSE first
            /\ next' = IF sibling # 0 THEN [next EXCEPT ![sibling - 1] = nelems + 1, ![nelems + 1] = sibling]
                       ELSE IF LastSibling(q) = {} THEN next
                       ELSE [next EXCEPT ![Min(LastSibling(q))] = nelems + 1]
        BY <1>2, <2>1, <3>1 DEF FamilySet
      <3>3. nelems' = nelems + 1
        BY <1>2 DEF FamilySet
      <3>4. sibling # 0 => AfterElder(q, sibling)
        BY <1>7, <1>10 DEF ParentOf
      <3>5. QED
        BY <1>2, <1>13, <3>2, <3>3, <3>4 DEF Added
    <2>4. QED
      BY <1>2, <1>3, <1>7, <1>8, <1>9, <1>10, <2>1, <2>2, <2>3
  <1>14. QED
    BY <1>12, <1>13
(* Nothing of the tree changes.                                            *)
LEMMA TreeSame ==
  ASSUME FamilyInv, UNCHANGED <<nelems, parent, first, next, removed>>
  PROVE  /\ FamilyInv' /\ \A p : Children(p)' = Children(p)
         /\ \A p, r : AfterElder(p, r) => AfterElder(p, r)'
  <1>1. FamilyInv'
    BY DEF FamilyInv, Family, FirstOf
  <1>2. \A p : Children(p)' = Children(p)
    BY DEF Children
  <1>3. \A p, r : AfterElder(p, r) => AfterElder(p, r)'
    BY <1>2 DEF AfterElder
  <1>4. QED
    BY <1>1, <1>2, <1>3

(* An element is taken out, or was out already.                            *)
LEMMA RemovedFamily ==
  ASSUME Env = {}, TypeInv, TypeInv', FamilyInv, NEW e \in Elems, RemoveElement(e)
  PROVE  /\ FamilyInv'
         /\ \/ \A p \in Ptrs : Children(p)' = Children(p)
            \/ \E p \in 1 .. nelems :
                 /\ 1 \in DOMAIN Children(p) /\ Children(p)' = RemoveAt(Children(p), 1)
                 /\ \A q \in Ptrs \ {p} : Children(q)' = Children(q)
  <1>1. PICK p : p = parent[e]
    OBVIOUS
  <1>2. /\ e \in 2 .. nelems /\ removed' = removed \cup {e} /\ next' = next
        /\ first' = IF p # 0 /\ first[p] = e THEN [first EXCEPT ![p] = next[e]] ELSE first
        /\ UNCHANGED <<nelems, parent>>
        /\ \A i \in 2 .. Len(Children(p)) : Children(p)[i] # e
    <2>1. Unlinked(e) = next
      BY NothingUnlinked DEF TypeInv
    <2>2. QED
      BY <1>1, <2>1 DEF RemoveElement, MayRemove
  <1>3. nelems \in Nat /\ e \in 1 .. nelems /\ e # 1 /\ p \in 0 .. nelems /\ p \in Ptrs
    <2>1. nelems \in 0 .. MaxElems /\ parent \in [Elems -> 0 .. nelems]
      BY DEF TypeInv, LinksInv
    <2>2. p \in 0 .. nelems
      BY <1>1, <2>1
    <2>3. QED
      BY <1>2, <2>1, <2>2, Numbers
  <1>4. PICK s, k : Family(p, s, k)
    BY <1>3 DEF FamilyInv
  <1>5. CASE p # 0 /\ first[p] = e
    <2>1. p \in 1 .. nelems /\ first' = [first EXCEPT ![p] = next[e]]
      BY <1>2, <1>3, <1>5
    <2>2. k < Len(s) /\ Family(p, s, k + 1)'
      BY <1>2, <1>3, <1>4, <1>5, <2>1, FamilyRemoved
    <2>3. 1 \in DOMAIN Children(p) /\ Children(p)' = RemoveAt(Children(p), 1)
      BY <1>2, <1>4, <2>2, ChildrenRemoved
    <2>4. \A q \in Ptrs \ {p} : (\E s1, k1 : Family(q, s1, k1)') /\ Children(q)' = Children(q)
      <3> TAKE q \in Ptrs \ {p}
      <3>1. PICK s1, k1 : Family(q, s1, k1)
        BY DEF FamilyInv
      <3>2. FirstOf(q)' = FirstOf(q)
        <4>1. CASE q = 0
          BY <1>2, <4>1 DEF FirstOf
        <4>2. CASE q # 0
          <5>1. q \in Elems /\ q # p
            BY <4>2, Numbers
          <5>2. first'[q] = first[q]
            BY <2>1, <5>1 DEF TypeInv, LinksInv
          <5>3. QED
            BY <4>2, <5>2 DEF FirstOf
        <4>3. QED
          BY <4>1, <4>2
      <3>3. /\ \A x \in 1 .. nelems : parent'[x] = parent[x] /\ (parent[x] = q => next'[x] = next[x])
            /\ \A x \in 1 .. nelems : parent[x] = q => (x \in removed' <=> x \in removed)
            /\ \A x \in 1 .. nelems' : nelems < x => parent'[x] # q
            /\ nelems <= nelems'
        BY <1>1, <1>2, <1>3
      <3>4. Family(q, s1, k1)'
        BY <3>1, <3>2, <3>3, FamilySame
      <3>5. Children(q)' = Children(q)
        BY <3>1, <3>4, ChildrenSame
      <3>6. QED
        BY <3>4, <3>5
    <2>5. FamilyInv'
      BY <2>2, <2>4 DEF FamilyInv
    <2>6. QED
      BY <2>1, <2>3, <2>4, <2>5
  <1>6. CASE ~(p # 0 /\ first[p] = e)
    <2>1. FirstOf(p) # e
      BY <1>3, <1>6 DEF FirstOf
    <2>2. PICK c, n : c = Children(p) /\ n = Len(s)
      OBVIOUS
    <2>3. n \in Nat /\ k \in 0 .. n
      BY <1>4, <2>2, LenProperties DEF Family
    <2>4. Len(c) = n - k /\ \A i \in 1 .. n - k : c[i] = s[k + i]
      BY <1>4, <2>2, ChildrenAre
    <2>5. PICK i \in 1 .. n : s[i] = e
      BY <1>1, <1>3, <1>4, <2>2 DEF Family
    <2>6. i <= k
      <3> SUFFICES ASSUME ~(i <= k) PROVE FALSE
        OBVIOUS
      <3>1. CASE i = k + 1
        <4>1. k # n
          BY <2>3, <3>1
        <4>2. FirstOf(p) = s[k + 1]
          BY <1>4, <2>2, <4>1 DEF Family
        <4>3. QED
          BY <2>1, <2>5, <3>1, <4>2
      <3>2. CASE i # k + 1
        <4>1. PICK j : j = i - k
          OBVIOUS
        <4>2. j \in 2 .. n - k /\ j \in 1 .. n - k /\ k + j = i
          BY <2>3, <3>2, <4>1
        <4>3. c[j] = e
          BY <2>4, <2>5, <4>2
        <4>4. QED
          BY <1>2, <2>2, <2>4, <4>2, <4>3
      <3>3. QED
        BY <3>1, <3>2
    <2>7. e \in removed
      BY <1>4, <2>2, <2>5, <2>6 DEF Family
    <2>8. UNCHANGED <<nelems, parent, first, next, removed>>
      BY <1>2, <1>6, <2>7
    <2>9. QED
      BY <2>8, TreeSame
  <1>7. QED
    BY <1>5, <1>6

LEMMA RootFamily ==
  ASSUME TypeInv, TypeInv', FamilyInv, nelems = 0, nelems' = 1, removed' = removed, UNCHANGED links
  PROVE  /\ FamilyInv'
         /\ \A p \in Ptrs \ {0} : Children(p)' = Children(p)
         /\ Children(0) = <<>> /\ Children(0)' = <<1>>
  <1>1. FamilyInv' /\ Family(0, <<1>>, 0)' /\ \A p \in Ptrs \ {0} : Family(p, <<>>, 0)'
    BY FamilyFirst
  <1>2. \A p \in Ptrs : Children(p) = <<>>
    <2>1. \A x \in Elems : first[x] = 0
      BY Numbers DEF TypeInv, LinksInv
    <2>2. \A p \in Ptrs : p # 0 => p \in Elems
      BY Numbers
    <2>3. QED
      BY <2>1, <2>2 DEF Children, Chain
  <1>3. \A p \in Ptrs \ {0} : Children(p)' = <<>>
    <2> TAKE p \in Ptrs \ {0}
    <2>1. Family(p, <<>>, 0)'
      BY <1>1
    <2>2. Children(p)' \in Seq(1 .. nelems') /\ Len(Children(p)') = Len(<<>>) - 0
      BY <2>1, ChildrenThen DEF AreChildren
    <2>3. Len(Children(p)') = 0
      BY <2>2
    <2>4. QED
      BY <2>2, <2>3, EmptySeq
  <1>4. Children(0)' = <<1>>
    <2>1. PICK s, c : s = <<1>> /\ c = Children(0)'
      OBVIOUS
    <2>2. Len(s) = 1 /\ s[1] = 1 /\ s \in Seq(1 .. 1)
      BY <2>1
    <2>3. Family(0, s, 0)'
      BY <1>1, <2>1
    <2>4. /\ c \in Seq(1 .. 1) /\ Len(c) = Len(s) - 0 /\ \A i \in 1 .. Len(s) - 0 : c[i] = s[0 + i]
      BY <2>1, <2>3, ChildrenThen DEF AreChildren
    <2>5. Len(c) = 1 /\ c[1] = 1
      BY <2>2, <2>4
    <2>6. \A i \in 1 .. 1 : i = 1
      OBVIOUS
    <2>7. c = s
      BY <2>2, <2>4, <2>5, <2>6, SeqEqual
    <2>8. QED
      BY <2>1, <2>7
  <1>5. 0 \in Ptrs
    BY Numbers
  <1>6. QED
    BY <1>1, <1>2, <1>3, <1>4, <1>5

(* A document under way after the step.                                    *)
LEMMA ReadOn ==
  ASSUME NEW p, NEW r, NEW os, doc' = <<[into |-> p, before |-> r, open |-> os]>>,
         os # <<>>, sibling' = r
  PROVE  EditInv'
  <1>1. Reading(p, r, os)'
    BY DEF Reading
  <1>2. EditOf(p, r, os)'
    BY DEF EditOf
  <1>3. QED
    BY <1>1, <1>2, EditThen

LEMMA ReadAll ==
  ASSUME doc' = <<>>
  PROVE  EditInv'
  <1>1. AllRead'
    BY DEF AllRead
  <1>2. AllRead' => EditInv'
    BY EditThen
  <1>3. QED
    BY <1>1, <1>2

LEMMA GrownOpen ==
  ASSUME NEW S, NEW os \in Seq(S), NEW x
  PROVE  Append(os, x) # <<>>
  <1>1. Len(Append(os, x)) = Len(os) + 1 /\ Len(os) \in Nat /\ Len(<<>>) = 0
    BY LenProperties
  <1>2. QED
    BY <1>1

LEMMA TreeStep ==
  ASSUME Env = {}
  PROVE  TreeInv /\ [Next]_vars => TreeInv'
  <1> SUFFICES ASSUME TreeInv, [Next]_vars PROVE TreeInv'
    OBVIOUS
  <1>1. PathInv'
    <2>1. Env \cap {"wrapper", "reentrant"} = {}
      OBVIOUS
    <2>2. QED
      BY <2>1, PathStep DEF TreeInv
  <1>2. TypeInv /\ TypeInv' /\ FamilyInv /\ EditInv
    BY <1>1 DEF TreeInv, PathInv
  <1>3. ASSUME doc # <<>>
        PROVE  \E p, r, os : Reading(p, r, os) /\ os \in Seq(0 .. nelems) /\ sibling = r
    <2>1. PICK p, r, os : Reading(p, r, os) /\ PathOf(p, os)
      BY <1>3 DEF TreeInv, PathInv
    <2>2. sibling = r
      BY <1>2, <2>1 DEF EditInv, EditOf
    <2>3. QED
      BY <2>1, <2>2 DEF PathOf
  <1>4. ASSUME UNCHANGED <<nelems, parent, first, next, removed>>
        PROVE  FamilyInv'
    BY <1>2, <1>4, TreeSame
  <1>5. ASSUME MayOpen, UNCHANGED <<nelems, links, removed, sibling>>, doc' = Opened(0)
        PROVE  FamilyInv' /\ EditInv'
    <2>1. PICK p, r, os : Reading(p, r, os) /\ os \in Seq(0 .. nelems) /\ sibling = r
      BY <1>3, <1>5 DEF MayOpen
    <2>2. doc' = <<[into |-> p, before |-> r, open |-> Append(os, 0)]>>
      BY <1>5, <2>1, ReadingIs
    <2>3. Append(os, 0) # <<>>
      BY <2>1, GrownOpen
    <2>4. EditInv'
      BY <1>5, <2>1, <2>2, <2>3, ReadOn
    <2>5. QED
      BY <1>4, <1>5, <2>4 DEF links
  <1>6. ASSUME NEW m \in BOOLEAN, StartElement(m) PROVE FamilyInv' /\ EditInv'
    <2>1. CASE nelems + 1 > MaxElems
      BY <1>5, <1>6, <2>1 DEF StartElement
    <2>2. CASE ~(nelems + 1 > MaxElems)
      <3>1. nelems < MaxElems
        BY <1>2, <2>2, Numbers DEF TypeInv
      <3>2. PICK p, r, os :
              /\ Reading(p, r, os) /\ os \in Seq(0 .. nelems)
              /\ doc' = <<[into |-> p, before |-> r, open |-> Append(os, nelems + 1)]>>
              /\ sibling = r /\ UNCHANGED <<sibling, removed>>
              /\ p = 0 /\ os = <<>> => nelems = 0 /\ nelems' = 1 /\ UNCHANGED links
              /\ ~(p = 0 /\ os = <<>>) => ParentOf(p, os) \in 1 .. nelems /\ Added(ParentOf(p, os))
        <4>1. PICK p, r, os :
           /\ Reading(p, r, os) /\ os \in Seq(0 .. nelems)
           /\ \A i \in 1 .. Len(os) : os[i] # 0
           /\ doc' = <<[into |-> p, before |-> r, open |-> Append(os, nelems + 1)]>>
           /\ sibling = r /\ (r # 0 => os = <<>>) /\ UNCHANGED <<sibling, removed>>
           /\ p = 0 /\ os = <<>> => nelems = 0 /\ nelems' = 1 /\ UNCHANGED links
           /\ ~(p = 0 /\ os = <<>>) => ParentOf(p, os) \in 1 .. nelems /\ Added(ParentOf(p, os))
          BY <1>6, <3>1, StartIs
        <4>2. QED
          BY <4>1
      <3>3. EditInv'
        <4>1. Append(os, nelems + 1) # <<>>
          BY <3>2, GrownOpen
        <4>2. sibling' = r
          BY <3>2
        <4>3. QED
          BY <3>2, <4>1, <4>2, ReadOn
      <3>4. FamilyInv'
        <4>1. CASE p = 0 /\ os = <<>>
          BY <1>2, <3>2, <4>1, RootFamily
        <4>2. CASE ~(p = 0 /\ os = <<>>)
          BY <1>2, <3>1, <3>2, <4>2, AddedFamily
        <4>3. QED
          BY <4>1, <4>2
      <3>5. QED
        BY <3>3, <3>4
    <2>3. QED
      BY <2>1, <2>2
  <1>7. ASSUME StartOther PROVE FamilyInv' /\ EditInv'
    BY <1>5, <1>7 DEF StartOther
  <1>8. ASSUME EndElement PROVE FamilyInv' /\ EditInv'
    <2>1. /\ doc # <<>> /\ Current.open # <<>> /\ doc' = Closed
          /\ UNCHANGED <<nelems, links, sibling, removed>>
      BY <1>8 DEF EndElement
    <2>2. PICK p, r, os : Reading(p, r, os) /\ os \in Seq(0 .. nelems) /\ sibling = r
      BY <1>3, <2>1
    <2>3. /\ Current = [into |-> p, before |-> r, open |-> os]
          /\ doc' = IF Len(os) = 1 THEN <<>> ELSE <<[into |-> p, before |-> r, open |-> Front(os)]>>
      BY <2>1, <2>2, ReadingIs
    <2>4. FamilyInv'
      BY <1>4, <2>1 DEF links
    <2>5. CASE Len(os) = 1
      <3>1. doc' = <<>>
        BY <2>3, <2>5
      <3>2. QED
        BY <2>4, <3>1, ReadAll
    <2>6. CASE Len(os) # 1
      <3>1. Front(os) # <<>>
        <4>1. os # <<>>
          BY <2>1, <2>3
        <4>2. Len(Front(os)) = Len(os) - 1 /\ Len(os) \in Nat \ {0} /\ Len(<<>>) = 0
          BY <2>2, <4>1, FrontIs
        <4>3. QED
          BY <2>6, <4>2
      <3>2. doc' = <<[into |-> p, before |-> r, open |-> Front(os)]>> /\ sibling' = r
        BY <2>1, <2>2, <2>3, <2>6
      <3>3. QED
        BY <2>4, <3>1, <3>2, ReadOn
    <2>7. QED
      BY <2>5, <2>6
  <1>9. ASSUME ParseFails PROVE FamilyInv' /\ EditInv'
    <2>1. doc # <<>> /\ doc' = Front(doc) /\ UNCHANGED <<nelems, links, removed>>
      BY <1>9 DEF ParseFails
    <2>2. doc' = <<>>
      BY <1>3, <2>1, ReadingIs
    <2>3. QED
      BY <1>4, <2>1, <2>2, ReadAll DEF links
  <1>10. ASSUME NEW p \in Elems, NEW r \in Ptrs, InsertElement(p, r) PROVE FamilyInv' /\ EditInv'
    <2>1. /\ doc = <<>> /\ p \in 1 .. nelems /\ sibling' = r
          /\ r # 0 => AfterElder(p, r)
          /\ doc' = Append(doc, Parse(p, r)) /\ UNCHANGED <<nelems, parent, first, next, removed>>
      BY <1>10 DEF InsertElement, ScriptRuns, links
    <2>2. FamilyInv'
      BY <1>4, <2>1
    <2>3. r # 0 => AfterElder(p, r)'
      BY <1>2, <2>1, TreeSame
    <2>4. p # 0
      BY <2>1, Numbers
    <2>5. Reading(p, r, <<>>)'
      BY <2>1 DEF Reading, Parse
    <2>6. EditOf(p, r, <<>>)'
      BY <2>1, <2>3, <2>4 DEF EditOf
    <2>7. QED
      BY <2>2, <2>5, <2>6, EditThen
  <1>11. ASSUME NEW e \in Elems, RemoveElement(e) PROVE FamilyInv' /\ EditInv'
    <2>1. doc' = <<>>
      BY <1>11 DEF RemoveElement, MayRemove, ScriptRuns
    <2>2. FamilyInv'
      BY <1>2, <1>11, RemovedFamily
    <2>3. QED
      BY <2>1, <2>2, ReadAll
  <1>12. ASSUME UNCHANGED vars PROVE FamilyInv' /\ EditInv'
    <2>1. UNCHANGED <<nelems, parent, first, next, removed, doc, sibling>>
      BY <1>12 DEF vars, links
    <2>2. FamilyInv'
      BY <1>4, <2>1
    <2>3. CASE doc = <<>>
      BY <2>1, <2>2, <2>3, ReadAll
    <2>4. CASE doc # <<>>
      <3>1. PICK p, r, os : Reading(p, r, os)
        BY <1>3, <2>4
      <3>2. EditOf(p, r, os)
        BY <1>2, <3>1 DEF EditInv
      <3>3. EditOf(p, r, os)'
        <4>1. r # 0 /\ os = <<>> => AfterElder(p, r)'
          BY <1>2, <2>1, <3>2, TreeSame DEF EditOf
        <4>2. QED
          BY <2>1, <3>2, <4>1 DEF EditOf
      <3>4. Reading(p, r, os)'
        BY <2>1, <3>1 DEF Reading
      <3>5. QED
        BY <2>2, <3>3, <3>4, EditThen
    <2>5. QED
      BY <2>3, <2>4
  <1>13. FamilyInv' /\ EditInv'
    BY <1>6, <1>7, <1>8, <1>9, <1>10, <1>11, <1>12 DEF Next
  <1>14. QED
    BY <1>1, <1>13 DEF TreeInv

(* What removeElement() took out of the tree is no child any more and no   *)
(* later edit brings it back, as long as only first children are removed   *)
(* (the elder sibling of any other is not unlinked from it) and elements   *)
(* are inserted where their predecessor in apelems is the elder sibling    *)
(* (xjse_treeelem_family_set, xgg_apelems_find).                           *)
THEOREM RemovedGoneAlways ==
  ASSUME Env = {}
  PROVE  Spec => []RemovedGone
  <1>1. Init => TreeInv
    BY TreeInit
  <1>2. TreeInv /\ [Next]_vars => TreeInv'
    BY TreeStep
  <1>3. TreeInv => RemovedGone
    BY RemovedNoChild DEF TreeInv, PathInv
  <1>4. QED
    BY <1>1, <1>2, <1>3, PTL DEF Spec

-----------------------------------------------------------------------------
(* The ordered tree that scripts expect                                    *)

LEMMA KidsAre ==
  /\ Kids = [p \in Ptrs |-> Children(p)] /\ Kids' = [p \in Ptrs |-> Children(p)']
  /\ \A p \in Ptrs : Kids[p] = Children(p)
  BY DEF Kids

LEMMA TreeIsReading ==
  ASSUME NEW p, NEW r, NEW os, Reading(p, r, os)
  PROVE  /\ Tree!Current = [into |-> p, before |-> r, open |-> os]
         /\ Tree!Reading
         /\ \A e : Tree!Opened(e) = <<[into |-> p, before |-> r, open |-> Append(os, e)]>>
  <1>1. doc # <<>> /\ Len(doc) = 1 /\ Current = [into |-> p, before |-> r, open |-> os]
    BY ReadingIs
  <1>2. Tree!Current = Current
    BY DEF Tree!Current, Tree!Last, Current
  <1>3. \A e : Tree!Opened(e) = Opened(e)
    BY DEF Tree!Opened, Opened
  <1>4. \A e : Opened(e) = <<[into |-> p, before |-> r, open |-> Append(os, e)]>>
    BY ReadingIs
  <1>5. Tree!Reading
    BY <1>1 DEF Tree!Reading
  <1>6. QED
    BY <1>1, <1>2, <1>3, <1>4, <1>5

LEMMA ContainerIs ==
  ASSUME nelems \in Nat, NEW p, NEW r, NEW os, Reading(p, r, os), os \in Seq(0 .. nelems),
         \A i \in 1 .. Len(os) : os[i] # 0
  PROVE  Tree!Container = ParentOf(p, os)
  <1>1. PICK n, opened : n = Len(os) /\ opened = {i \in DOMAIN os : os[i] # 0}
    OBVIOUS
  <1>2. n \in Nat /\ opened = 1 .. n
    BY <1>1, LenProperties
  <1>3. Tree!Container = IF opened = {} THEN p ELSE os[Tree!Max(opened)]
    <2>1. Tree!Current.open = os /\ Tree!Current.into = p
      BY TreeIsReading
    <2>2. QED
      BY <1>1, <2>1 DEF Tree!Container
  <1>4. CASE os = <<>>
    <2>1. n = 0 /\ opened = {}
      BY <1>1, <1>2, <1>4
    <2>2. QED
      BY <1>3, <1>4, <2>1 DEF ParentOf
  <1>5. CASE os # <<>>
    <2>1. n # 0 /\ n \in 1 .. n /\ Last(os) = os[n]
      BY <1>1, <1>5, LastSet
    <2>2. Tree!Max(1 .. n) = n
      <3>1. \A x \in 1 .. n : n >= x
        BY <1>2
      <3>2. ASSUME NEW m \in 1 .. n, \A x \in 1 .. n : m >= x PROVE m = n
        <4>1. m >= n
          BY <2>1, <3>2
        <4>2. QED
          BY <1>2, <4>1
      <3>3. QED
        BY <2>1, <3>1, <3>2 DEF Tree!Max
    <2>3. QED
      BY <1>2, <1>3, <1>5, <2>1, <2>2 DEF ParentOf
  <1>6. QED
    BY <1>4, <1>5

(* Where the tree puts a new element e of q.                               *)
LEMMA PlacedLast ==
  ASSUME NEW p, NEW os, Reading(p, 0, os), NEW q \in Ptrs, NEW e
  PROVE  Tree!Placed(q, e) = Append(Children(q), e)
  <1>1. PICK c : c = Children(q)
    OBVIOUS
  <1>2. Kids[q] = c
    BY <1>1, KidsAre
  <1>3. Tree!Current.before = 0
    BY TreeIsReading
  <1>4. Tree!Placed(q, e) = Append(c, e)
    BY <1>2, <1>3 DEF Tree!Placed
  <1>5. QED
    BY <1>1, <1>4

LEMMA PlacedBefore ==
  ASSUME NEW p, NEW r, NEW os, Reading(p, r, os), r # 0, p \in Ptrs, NEW e
  PROVE  Tree!Placed(p, e) = LET i == CHOOSE i \in DOMAIN Children(p) : Children(p)[i] = r
                             IN  InsertAt(Children(p), i, e)
  <1>1. PICK c : c = Children(p)
    OBVIOUS
  <1>2. Kids[p] = c
    BY <1>1, KidsAre
  <1>3. Tree!Current.into = p /\ Tree!Current.before = r
    BY TreeIsReading
  <1>4. PICK i : i = CHOOSE j \in DOMAIN c : c[j] = r
    OBVIOUS
  <1>5. Tree!Placed(p, e) = Tree!InsertAt(c, i, e)
    BY <1>2, <1>3, <1>4 DEF Tree!Placed
  <1>6. Tree!InsertAt(c, i, e) = InsertAt(c, i, e)
    BY DEF Tree!InsertAt, InsertAt
  <1>7. QED
    BY <1>1, <1>4, <1>5, <1>6

LEMMA KidsChange ==
  ASSUME NEW q \in Ptrs, NEW s, Children(q)' = s, \A p \in Ptrs \ {q} : Children(p)' = Children(p)
  PROVE  Kids' = [Kids EXCEPT ![q] = s]
  <1>1. \A p \in Ptrs : Children(p)' = IF p = q THEN s ELSE Children(p)
    OBVIOUS
  <1>2. QED
    BY <1>1, KidsAre

(* Every step of the pointers is one of the tree.                          *)
LEMMA AddStep ==
  ASSUME Env = {}, TreeInv, TypeInv', nelems < MaxElems, NEW m \in BOOLEAN, StartElement(m)
  PROVE  Tree!Add
  <1>1. TypeInv /\ FamilyInv /\ nelems \in Nat
    <2>1. TypeInv /\ FamilyInv
      BY DEF TreeInv, PathInv
    <2>2. nelems \in Nat
      BY <2>1, Numbers DEF TypeInv
    <2>3. QED
      BY <2>1, <2>2
  <1>2. PICK p, r, os :
           /\ Reading(p, r, os) /\ os \in Seq(0 .. nelems)
           /\ \A i \in 1 .. Len(os) : os[i] # 0
           /\ doc' = <<[into |-> p, before |-> r, open |-> Append(os, nelems + 1)]>>
           /\ sibling = r /\ (r # 0 => os = <<>>) /\ UNCHANGED <<sibling, removed>>
           /\ p = 0 /\ os = <<>> => nelems = 0 /\ nelems' = 1 /\ UNCHANGED links
           /\ ~(p = 0 /\ os = <<>>) => ParentOf(p, os) \in 1 .. nelems /\ Added(ParentOf(p, os))
    BY StartIs
  <1>3. PICK q, e : q = ParentOf(p, os) /\ e = nelems + 1
    OBVIOUS
  <1>4. Tree!Container = q
    BY <1>1, <1>2, <1>3, ContainerIs
  <1>5. r # 0 => q = p
    BY <1>2, <1>3 DEF ParentOf
  <1>10. ASSUME q \in Ptrs, r = 0 PROVE Tree!Placed(q, e) = Append(Children(q), e)
    <2>1. Reading(p, 0, os)
      BY <1>2, <1>10
    <2>2. QED
      BY <1>10, <2>1, PlacedLast
  <1>6. Tree!Reading /\ doc' = Tree!Opened(nelems + 1)
    <2>1. \A x : Tree!Opened(x) = <<[into |-> p, before |-> r, open |-> Append(os, x)]>>
      BY <1>2, TreeIsReading
    <2>2. Tree!Reading
      BY <1>2, TreeIsReading
    <2>3. QED
      BY <1>2, <2>1, <2>2
  <1>7. q \in Ptrs /\ Children(q)' = Tree!Placed(q, e) /\ nelems' = nelems + 1
        /\ \A x \in Ptrs \ {q} : Children(x)' = Children(x)
    <2>1. CASE p = 0 /\ os = <<>>
      <3>1. q = 0 /\ q \in Ptrs /\ e = 1 /\ nelems' = nelems + 1
        BY <1>2, <1>3, <2>1, Numbers DEF ParentOf
      <3>2. /\ Children(0) = <<>> /\ Children(0)' = <<1>>
            /\ \A x \in Ptrs \ {0} : Children(x)' = Children(x)
        BY <1>1, <1>2, <2>1, RootFamily
      <3>3. r = 0
        <4>1. EditOf(p, r, os)
          BY <1>2 DEF TreeInv, EditInv
        <4>2. Len(Children(0)) = 0 /\ 2 .. 0 = {}
          BY <3>2
        <4>3. ~AfterElder(0, r)
          BY <4>2 DEF AfterElder
        <4>4. QED
          BY <2>1, <4>1, <4>3 DEF EditOf
      <3>4. Tree!Placed(q, e) = Append(Children(q), e)
        BY <1>10, <3>1, <3>3
      <3>5. Append(<<>>, 1) = <<1>>
        OBVIOUS
      <3>6. QED
        BY <3>1, <3>2, <3>4, <3>5
    <2>2. CASE ~(p = 0 /\ os = <<>>)
      <3>1. q \in 1 .. nelems /\ Added(q)
        BY <1>2, <1>3, <2>2
      <3>2. q \in Ptrs /\ nelems' = nelems + 1
        BY <1>1, <3>1, Numbers DEF TypeInv, Added
      <3>3. /\ \A x \in Ptrs \ {q} : Children(x)' = Children(x)
            /\ sibling = 0 => Children(q)' = Append(Children(q), nelems + 1)
            /\ sibling # 0 =>
                 Children(q)' = LET i == CHOOSE i \in DOMAIN Children(q) : Children(q)[i] = sibling
                                IN  InsertAt(Children(q), i, nelems + 1)
        BY <1>1, <3>1, AddedFamily
      <3>4. CASE r = 0
        <4>1. Tree!Placed(q, e) = Append(Children(q), e)
          BY <1>10, <3>2, <3>4
        <4>2. QED
          BY <1>2, <1>3, <3>2, <3>3, <3>4, <4>1
      <3>5. CASE r # 0
        <4>1. Tree!Placed(q, e) = LET i == CHOOSE i \in DOMAIN Children(q) : Children(q)[i] = r
                                  IN  InsertAt(Children(q), i, e)
          <5>1. q = p /\ Reading(q, r, os)
            BY <1>2, <1>5, <3>5
          <5>2. QED
            BY <3>2, <3>5, <5>1, PlacedBefore
        <4>2. QED
          BY <1>2, <1>3, <3>2, <3>3, <3>5, <4>1
      <3>6. QED
        BY <3>4, <3>5
    <2>3. QED
      BY <2>1, <2>2
  <1>8. Kids' = [Kids EXCEPT ![q] = Tree!Placed(q, e)]
    BY <1>7, KidsChange
  <1>9. QED
    BY <1>3, <1>4, <1>6, <1>7, <1>8 DEF Tree!Add

LEMMA TreeNextStep ==
  ASSUME Env = {}
  PROVE  TreeInv /\ TypeInv' /\ [Next]_vars => [Tree!Next]_<<nelems, Kids, doc>>
  <1> SUFFICES ASSUME TreeInv, TypeInv', [Next]_vars PROVE [Tree!Next]_<<nelems, Kids, doc>>
    OBVIOUS
  <1>1. TypeInv /\ FamilyInv
    BY DEF TreeInv, PathInv
  <1>2. ASSUME UNCHANGED <<nelems, links>> PROVE Kids' = Kids
    BY <1>2 DEF Kids, Children, links
  <1>3. ASSUME doc # <<>>
        PROVE  /\ Tree!Reading /\ Tree!Current = Current
               /\ \A e : Tree!Opened(e) = Opened(e)
    <2>1. Tree!Current = Current
      BY <1>3 DEF Tree!Current, Tree!Last, Current
    <2>2. \A e : Tree!Opened(e) = Opened(e)
      BY DEF Tree!Opened, Opened
    <2>3. QED
      BY <1>3, <2>1, <2>2 DEF Tree!Reading
  <1>4. ASSUME MayOpen, UNCHANGED <<nelems, links>>, doc' = Opened(0) PROVE Tree!Next
    <2>1. Kids' = Kids
      BY <1>2, <1>4
    <2>2. Tree!Reading /\ doc' = Tree!Opened(0)
      BY <1>3, <1>4 DEF MayOpen
    <2>3. QED
      BY <1>4, <2>1, <2>2 DEF Tree!Next, Tree!Skip
  <1>5. ASSUME NEW m \in BOOLEAN, StartElement(m) PROVE Tree!Next
    <2>1. CASE nelems + 1 > MaxElems
      BY <1>4, <1>5, <2>1 DEF StartElement
    <2>2. CASE ~(nelems + 1 > MaxElems)
      <3>1. nelems < MaxElems
        BY <1>1, <2>2, Numbers DEF TypeInv
      <3>2. Tree!Add
        BY <1>5, <3>1, AddStep
      <3>3. QED
        BY <3>2 DEF Tree!Next
    <2>3. QED
      BY <2>1, <2>2
  <1>6. ASSUME StartOther PROVE Tree!Next
    BY <1>4, <1>6 DEF StartOther
  <1>7. ASSUME EndElement PROVE Tree!Next
    <2>1. doc # <<>> /\ Current.open # <<>> /\ doc' = Closed /\ UNCHANGED <<nelems, links>>
      BY <1>7 DEF EndElement
    <2>2. Kids' = Kids
      BY <1>2, <2>1
    <2>3. Tree!Reading /\ Tree!Current.open = Current.open
      BY <1>3, <2>1
    <2>4. Tree!Front(doc) = Front(doc) /\ Tree!Front(Current.open) = Front(Current.open)
      BY DEF Tree!Front, Front
    <2>5. [doc EXCEPT ![Len(doc)].open = Tree!Front(@)] = [doc EXCEPT ![Len(doc)].open = Front(@)]
      BY DEF Tree!Front, Front
    <2>6. doc' = IF Len(Tree!Current.open) = 1 THEN Tree!Front(doc)
                 ELSE [doc EXCEPT ![Len(doc)].open = Tree!Front(@)]
      BY <2>1, <2>3, <2>4, <2>5 DEF Closed
    <2>7. Tree!Close
      BY <2>1, <2>2, <2>3, <2>6 DEF Tree!Close
    <2>8. QED
      BY <2>7 DEF Tree!Next
  <1>8. ASSUME ParseFails PROVE Tree!Next
    <2>1. doc # <<>> /\ doc' = Front(doc) /\ UNCHANGED <<nelems, links>>
      BY <1>8 DEF ParseFails
    <2>2. Kids' = Kids /\ Tree!Reading
      BY <1>2, <1>3, <2>1
    <2>3. doc' = Tree!Front(doc)
      BY <2>1 DEF Tree!Front, Front
    <2>4. QED
      BY <2>1, <2>2, <2>3 DEF Tree!Next, Tree!Fail
  <1>9. ASSUME NEW p \in Elems, NEW r \in Ptrs, InsertElement(p, r) PROVE Tree!Next
    <2>1. /\ p \in 1 .. nelems
          /\ r # 0 => r \in ToSet(Children(p))
          /\ doc' = Append(doc, Parse(p, r)) /\ UNCHANGED <<nelems, links>>
      BY <1>9 DEF InsertElement
    <2>2. Kids' = Kids
      BY <1>2, <2>1
    <2>3. Kids[p] = Children(p)
      <3>1. p \in Ptrs
        BY Numbers
      <3>2. QED
        BY <3>1, KidsAre
    <2>4. r \in {0} \cup Tree!ToSet(Kids[p])
      BY <2>1, <2>3 DEF Tree!ToSet, ToSet
    <2>5. r \in 0 .. nelems
      <3>1. nelems \in Nat /\ ToSet(Children(p)) \subseteq 0 .. nelems
        BY <1>1, <2>1, KidsTyped, Numbers, SMTT(30) DEF TypeInv
      <3>2. QED
        BY <2>1, <3>1
    <2>6. Tree!Edit(p, r)
      BY <2>1, <2>2, <2>4 DEF Tree!Edit, Parse
    <2>7. QED
      BY <2>1, <2>5, <2>6 DEF Tree!Next
  <1>10. ASSUME NEW e \in Elems, RemoveElement(e)
         PROVE  Tree!Next \/ UNCHANGED <<nelems, Kids, doc>>
    <2>1. nelems' = nelems /\ doc' = doc
      BY <1>10 DEF RemoveElement
    <2>2. \/ \A p \in Ptrs : Children(p)' = Children(p)
          \/ \E p \in 1 .. nelems :
               /\ 1 \in DOMAIN Children(p) /\ Children(p)' = RemoveAt(Children(p), 1)
               /\ \A q \in Ptrs \ {p} : Children(q)' = Children(q)
      BY <1>1, <1>10, RemovedFamily
    <2>3. CASE \A p \in Ptrs : Children(p)' = Children(p)
      <3>1. Kids' = Kids
        BY <2>3, KidsAre
      <3>2. QED
        BY <2>1, <3>1
    <2>4. CASE \E p \in 1 .. nelems :
                 /\ 1 \in DOMAIN Children(p) /\ Children(p)' = RemoveAt(Children(p), 1)
                 /\ \A q \in Ptrs \ {p} : Children(q)' = Children(q)
      <3>1. PICK p \in 1 .. nelems :
                 /\ 1 \in DOMAIN Children(p) /\ Children(p)' = RemoveAt(Children(p), 1)
                 /\ \A q \in Ptrs \ {p} : Children(q)' = Children(q)
        BY <2>4
      <3>2. p \in Ptrs /\ 1 \in 1 .. nelems
        BY <1>1, Numbers DEF TypeInv
      <3>3. PICK s : s = RemoveAt(Children(p), 1)
        OBVIOUS
      <3>4. Kids' = [Kids EXCEPT ![p] = s]
        BY <3>1, <3>2, <3>3, KidsChange
      <3>5. Kids[p] = Children(p)
        BY <3>2, KidsAre
      <3>6. s = Tree!RemoveAt(Kids[p], 1)
        BY <3>3, <3>5 DEF Tree!RemoveAt, RemoveAt
      <3>7. Kids' = [Kids EXCEPT ![p] = Tree!RemoveAt(@, 1)]
        BY <3>4, <3>6
      <3>8. Tree!TakeOut(p, 1)
        BY <2>1, <3>1, <3>5, <3>7 DEF Tree!TakeOut
      <3>9. QED
        BY <3>2, <3>8 DEF Tree!Next
    <2>5. QED
      BY <2>2, <2>3, <2>4
  <1>11. ASSUME UNCHANGED vars PROVE UNCHANGED <<nelems, Kids, doc>>
    <2>1. UNCHANGED <<nelems, links, doc>>
      BY <1>11 DEF vars
    <2>2. QED
      BY <1>2, <2>1
  <1>12. QED
    BY <1>5, <1>6, <1>7, <1>8, <1>9, <1>10, <1>11 DEF Next

(* As long as scripts remove first children only, and insert where the     *)
(* predecessor in apelems is the elder sibling, the pointers make up the   *)
(* ordered tree that scripts expect: what is appended comes last, what is  *)
(* inserted comes before the element it was to, and nothing else moves     *)
(* (xjse_treeelem_family_set, xgg_global_removeelement).                   *)
THEOREM ImplementsTreeAlways ==
  ASSUME Env = {}
  PROVE  Spec => ImplementsTree
  <1>1. Init => Tree!Init
    <2> SUFFICES ASSUME Init PROVE Tree!Init
      OBVIOUS
    <2>1. nelems = 0 /\ doc = <<[into |-> 0, before |-> 0, open |-> <<>>]>>
      BY DEF Init, Parse
    <2>2. \A p \in Ptrs : Children(p) = <<>>
      BY Numbers DEF Init, Children, Chain
    <2>3. Kids = [p \in 0 .. MaxElems |-> <<>>]
      BY <2>2, KidsAre DEF Ptrs
    <2>4. QED
      BY <2>1, <2>3 DEF Tree!Init
  <1>2. TreeInv /\ TypeInv' /\ [Next]_vars => [Tree!Next]_<<nelems, Kids, doc>>
    BY TreeNextStep
  <1>3. Init => TreeInv
    BY TreeInit
  <1>4. TreeInv /\ [Next]_vars => TreeInv'
    BY TreeStep
  <1>5. TreeInv => TypeInv
    BY DEF TreeInv, PathInv
  <1>6. QED
    BY <1>1, <1>2, <1>3, <1>4, <1>5, PTL DEF Spec, ImplementsTree, Tree!TreeSpec

-----------------------------------------------------------------------------
(* What an element is in                                                   *)

(* An element is in itself and in what its parent is in.                   *)
LEMMA AroundIs ==
  ASSUME TypeInv
  PROVE  /\ Around(0) = {}
         /\ \A x \in 1 .. nelems : /\ parent[x] \in 0 .. x - 1 /\ parent[x] \in 0 .. nelems
                                   /\ Around(x) = {x} \cup Around(parent[x])
                                   /\ Around(x) \subseteq 1 .. x
  <1>1. PICK m : m = MaxElems
    OBVIOUS
  <1>2. /\ m \in Nat /\ nelems \in 0 .. m /\ parent \in [1 .. m -> 0 .. nelems]
        /\ \A y \in 1 .. m : parent[y] < y
    BY <1>1, Numbers DEF TypeInv, LinksInv
  <1>3. parent \in [1 .. m -> 0 .. m]
    BY <1>2
  <1>4. Around(0) = {}
    BY DEF Around, Chain, ToSet
  <1>5. ASSUME NEW x \in 1 .. nelems
        PROVE  /\ parent[x] \in 0 .. x - 1 /\ parent[x] \in 0 .. nelems
               /\ Around(x) = {x} \cup Around(parent[x]) /\ Around(x) \subseteq 1 .. x
    <2>1. x \in 1 .. m /\ parent[x] \in 0 .. x - 1 /\ parent[x] \in 0 .. nelems
      BY <1>2
    <2>2. PICK p : p = parent[x]
      OBVIOUS
    <2>3. ToSet(Chain(parent, x, m)) = {x} \cup ToSet(Chain(parent, p, m))
      <3>1. ToSet(Chain(parent, x, m)) = {x} \cup ToSet(Chain(parent, parent[x], m))
        BY <1>2, <1>3, <2>1, ChainTail
      <3>2. QED
        BY <2>2, <3>1
    <2>4. PICK c : c = Chain(parent, x, m)
      OBVIOUS
    <2>5. c \in Seq(1 .. m) /\ \A i \in 1 .. Len(c) : c[i] \in 1 .. x
      <3>1. Part(parent, x, m, c) /\ \A i \in 1 .. Len(c) : c[i] \in 1 .. x
        BY <1>2, <1>3, <2>1, <2>4, ChainDown
      <3>2. QED
        BY <3>1 DEF Part
    <2>6. ToSet(c) \subseteq 1 .. x
      BY <2>5, LenProperties DEF ToSet
    <2>7. QED
      BY <1>1, <2>1, <2>2, <2>3, <2>4, <2>6 DEF Around
  <1>6. QED
    BY <1>4, <1>5

(* All that follows from it.                                               *)
LEMMA AroundWithin ==
  ASSUME TypeInv, NEW x \in 1 .. nelems, NEW a \in Around(x)
  PROVE  a \in 1 .. nelems /\ a <= x /\ Around(a) \subseteq Around(x)
  <1>1. ASSUME NEW y \in 1 .. nelems
        PROVE  /\ parent[y] \in 0 .. y - 1 /\ parent[y] \in 0 .. nelems
               /\ Around(y) = {y} \cup Around(parent[y]) /\ Around(y) \subseteq 1 .. y
    BY AroundIs
  <1>2. Around(0) = {} /\ nelems \in Nat
    BY AroundIs DEF TypeInv
  <1>3. a \in 1 .. nelems /\ a <= x
    BY <1>1, <1>2
  <1> DEFINE T == {y \in 1 .. nelems : ~ \A b \in Around(y) : Around(b) \subseteq Around(y)}
  <1>4. T = {}
    <2> SUFFICES ASSUME T # {} PROVE FALSE
      OBVIOUS
    <2>1. PICK y \in T : \A j \in T : y <= j
      <3>1. T \subseteq Nat
        OBVIOUS
      <3> HIDE DEF T
      <3>2. QED
        BY <3>1, LeastNumber
    <2>2. PICK b \in Around(y) : ~(Around(b) \subseteq Around(y))
      BY <2>1
    <2>3. b \in Around(parent[y]) /\ parent[y] \in 1 .. nelems /\ parent[y] < y
      BY <1>1, <1>2, <2>1, <2>2
    <2>4. parent[y] \notin T
      BY <2>1, <2>3
    <2>5. Around(b) \subseteq Around(parent[y])
      BY <2>3, <2>4
    <2>6. QED
      BY <1>1, <2>1, <2>2, <2>5
  <1>5. QED
    BY <1>3, <1>4

LEMMA AroundStep ==
  ASSUME TypeInv, NEW x \in 1 .. nelems, NEW a \in Around(x), a # x
  PROVE  /\ parent[x] \in 1 .. nelems /\ a \in Around(parent[x])
         /\ \E b \in Around(x) : parent[b] = a
  <1>1. ASSUME NEW y \in 1 .. nelems
        PROVE  /\ parent[y] \in 0 .. y - 1 /\ parent[y] \in 0 .. nelems
               /\ Around(y) = {y} \cup Around(parent[y]) /\ Around(y) \subseteq 1 .. y
    BY AroundIs
  <1>2. Around(0) = {} /\ nelems \in Nat
    BY AroundIs DEF TypeInv
  <1>3. parent[x] \in 1 .. nelems /\ a \in Around(parent[x])
    BY <1>1, <1>2
  <1> DEFINE T == {y \in 1 .. nelems : a \in Around(y) /\ a # y /\ ~ \E b \in Around(y) : parent[b] = a}
  <1>4. T = {}
    <2> SUFFICES ASSUME T # {} PROVE FALSE
      OBVIOUS
    <2>1. PICK y \in T : \A j \in T : y <= j
      <3>1. T \subseteq Nat
        OBVIOUS
      <3> HIDE DEF T
      <3>2. QED
        BY <3>1, LeastNumber
    <2>2. a \in Around(parent[y]) /\ parent[y] \in 1 .. nelems /\ parent[y] < y /\ y \in Around(y)
      BY <1>1, <1>2, <2>1
    <2>3. parent[y] \notin T
      BY <2>1, <2>2
    <2>4. parent[y] # a
      BY <2>1, <2>2
    <2>5. PICK b \in Around(parent[y]) : parent[b] = a
      BY <2>2, <2>3, <2>4
    <2>6. b \in Around(y)
      BY <1>1, <2>1, <2>5
    <2>7. QED
      BY <2>1, <2>5, <2>6
  <1>5. QED
    BY <1>3, <1>4

LEMMA AroundUp ==
  ASSUME TypeInv, NEW x \in 1 .. nelems, NEW a \in Around(x)
  PROVE  x \in Around(x) /\ (parent[a] # 0 => parent[a] \in Around(x))
  <1>1. \A y \in 1 .. nelems : parent[y] \in 0 .. nelems /\ Around(y) = {y} \cup Around(parent[y])
    BY AroundIs
  <1>2. a \in 1 .. nelems /\ Around(a) \subseteq Around(x)
    BY AroundWithin
  <1>3. ASSUME parent[a] # 0 PROVE parent[a] \in Around(x)
    <2>1. parent[a] \in 1 .. nelems
      BY <1>1, <1>2, <1>3
    <2>2. parent[a] \in Around(parent[a])
      BY <1>1, <2>1
    <2>3. QED
      BY <1>1, <1>2, <2>2
  <1>4. QED
    BY <1>1, <1>3

LEMMA AroundOrdered ==
  ASSUME TypeInv, NEW x \in 1 .. nelems, NEW a \in Around(x), NEW b \in Around(x)
  PROVE  a \in Around(b) \/ b \in Around(a)
  <1>1. ASSUME NEW y \in 1 .. nelems
        PROVE  /\ parent[y] \in 0 .. y - 1 /\ parent[y] \in 0 .. nelems
               /\ Around(y) = {y} \cup Around(parent[y]) /\ Around(y) \subseteq 1 .. y
    BY AroundIs
  <1>2. Around(0) = {} /\ nelems \in Nat
    BY AroundIs DEF TypeInv
  <1> DEFINE T == {y \in 1 .. nelems : a \in Around(y) /\ b \in Around(y)
                                        /\ ~(a \in Around(b) \/ b \in Around(a))}
  <1>3. T = {}
    <2> SUFFICES ASSUME T # {} PROVE FALSE
      OBVIOUS
    <2>1. PICK y \in T : \A j \in T : y <= j
      <3>1. T \subseteq Nat
        OBVIOUS
      <3> HIDE DEF T
      <3>2. QED
        BY <3>1, LeastNumber
    <2>2. a # y /\ b # y
      BY <2>1
    <2>3. /\ a \in Around(parent[y]) /\ b \in Around(parent[y])
          /\ parent[y] \in 1 .. nelems /\ parent[y] < y
      BY <1>1, <1>2, <2>1, <2>2
    <2>4. QED
      BY <2>1, <2>3
  <1>4. QED
    BY <1>3

(* Of siblings, an element is in one only.                                 *)
LEMMA AroundOneSibling ==
  ASSUME TypeInv, NEW x \in 1 .. nelems, NEW a \in Around(x), NEW b \in Around(x), parent[a] = parent[b]
  PROVE  a = b
  <1>1. a \in 1 .. nelems /\ b \in 1 .. nelems
    BY AroundWithin
  <1>2. ASSUME NEW u \in 1 .. nelems, NEW v \in 1 .. nelems, u \in Around(v), parent[u] = parent[v], u # v
        PROVE  FALSE
    <2>1. parent[v] \in 1 .. nelems /\ u \in Around(parent[v])
      BY <1>2, AroundStep
    <2>2. u <= parent[v]
      BY <2>1, AroundWithin
    <2>3. parent[u] < u
      BY AroundIs
    <2>4. nelems \in Nat
      BY DEF TypeInv
    <2>5. QED
      BY <1>2, <2>1, <2>2, <2>3, <2>4
  <1>3. a \in Around(b) \/ b \in Around(a)
    BY AroundOrdered
  <1>4. QED
    BY <1>1, <1>2, <1>3
-----------------------------------------------------------------------------
(* Siblings                                                                *)

(* The place of an element among its siblings.                             *)
LEMMA YoungerIs ==
  ASSUME TypeInv, NEW p, NEW s, NEW k, Family(p, s, k), NEW i \in 1 .. Len(s)
  PROVE  Younger(s[i]) = {s[j] : j \in i + 1 .. Len(s)}
  <1>1. PICK n : n = Len(s)
    OBVIOUS
  <1>2. n \in Nat /\ i \in 1 .. n /\ next[s[i]] = IF i = n THEN 0 ELSE s[i + 1]
    BY <1>1, LenProperties DEF Family
  <1>3. CASE i = n
    <2>1. Younger(s[i]) = {}
      BY <1>2, <1>3 DEF Younger, Chain, ToSet
    <2>2. i + 1 .. n = {}
      BY <1>2, <1>3
    <2>3. QED
      BY <1>1, <2>1, <2>2
  <1>4. CASE i # n
    <2>1. i \in 0 .. n - 1 /\ next[s[i]] = s[i + 1]
      BY <1>2, <1>4
    <2>2. ToSet(Chain(next, s[i + 1], MaxElems)) = {s[j] : j \in i + 1 .. n}
      BY <1>1, <2>1, RestIs, ZenonT(60)
    <2>3. QED
      BY <1>1, <2>1, <2>2 DEF Younger
  <1>5. QED
    BY <1>3, <1>4

(* a is an element with the family s of which k have been removed, in      *)
(* place i.                                                                *)
InFamily(a, s, k, i) ==
  /\ i \in 1 .. Len(s) /\ s[i] = a /\ Len(s) \in Nat
  /\ Younger(a) = {s[j] : j \in i + 1 .. Len(s)}
  /\ next[a] = IF i = Len(s) THEN 0 ELSE s[i + 1]
  /\ a \in removed <=> i <= k
  /\ k \in 0 .. Len(s)

LEMMA FamilyPlaces ==
  ASSUME TypeInv, NEW p, NEW s, NEW k, Family(p, s, k)
  PROVE  /\ \A i \in 1 .. Len(s) : InFamily(s[i], s, k, i) /\ s[i] \in 1 .. nelems /\ parent[s[i]] = p
         /\ \A i, j \in 1 .. Len(s) : s[i] = s[j] => i = j
         /\ \A x \in 1 .. nelems : parent[x] = p => \E i \in 1 .. Len(s) : s[i] = x
  <1>1. PICK n : n = Len(s)
    OBVIOUS
  <1>2. /\ s \in Seq(1 .. nelems) /\ n \in Nat /\ k \in 0 .. n
        /\ \A i \in 1 .. n : s[i] \in 1 .. nelems
        /\ \A x \in 1 .. nelems : parent[x] = p <=> \E i \in 1 .. n : s[i] = x
        /\ \A i, j \in 1 .. n : s[i] = s[j] => i = j
        /\ \A i \in 1 .. n : next[s[i]] = IF i = n THEN 0 ELSE s[i + 1]
        /\ \A i \in 1 .. n : s[i] \in removed <=> i <= k
    BY <1>1, LenProperties, ElementOfSeq DEF Family
  <1>3. ASSUME NEW i \in 1 .. n PROVE InFamily(s[i], s, k, i)
    <2>1. Younger(s[i]) = {s[j] : j \in i + 1 .. n}
      BY <1>1, YoungerIs
    <2>2. QED
      BY <1>1, <1>2, <2>1 DEF InFamily
  <1>4. QED
    BY <1>1, <1>2, <1>3

LEMMA FamilyOf ==
  ASSUME TypeInv, FamilyInv, NEW p \in 0 .. nelems
  PROVE  \E s, k : Family(p, s, k)
  <1>1. p \in Ptrs
    BY Numbers DEF TypeInv
  <1>2. QED
    BY <1>1 DEF FamilyInv

(* The order of siblings.                                                  *)
LEMMA SiblingsOrdered ==
  ASSUME TypeInv, FamilyInv, NEW a \in 1 .. nelems
  PROVE  /\ next[a] \in 0 .. nelems /\ a \notin Younger(a)
         /\ Younger(a) = IF next[a] = 0 THEN {} ELSE {next[a]} \cup Younger(next[a])
         /\ \A b \in Younger(a) : /\ b \in 1 .. nelems /\ parent[b] = parent[a]
                                  /\ a \notin removed => b \notin removed
                                  /\ Younger(b) \subseteq Younger(a) /\ a \notin Younger(b)
  <1>1. parent[a] \in 0 .. nelems
    BY AroundIs
  <1>2. PICK p : p = parent[a]
    OBVIOUS
  <1>3. PICK s, k : Family(p, s, k)
    BY <1>1, <1>2, FamilyOf
  <1>4. PICK n : n = Len(s)
    OBVIOUS
  <1>5. /\ \A i \in 1 .. n : InFamily(s[i], s, k, i) /\ s[i] \in 1 .. nelems /\ parent[s[i]] = p
        /\ \A i, j \in 1 .. n : s[i] = s[j] => i = j
        /\ \E i \in 1 .. n : s[i] = a
    BY <1>2, <1>3, <1>4, FamilyPlaces
  <1>6. PICK i \in 1 .. n : s[i] = a
    BY <1>5
  <1>7. \A j \in 1 .. n : /\ Younger(s[j]) = {s[h] : h \in j + 1 .. n}
                          /\ next[s[j]] = IF j = n THEN 0 ELSE s[j + 1]
                          /\ s[j] \in removed <=> j <= k
    BY <1>4, <1>5 DEF InFamily
  <1>8. n \in Nat /\ k \in 0 .. n
    <2>1. InFamily(s[i], s, k, i)
      BY <1>5, <1>6
    <2>2. QED
      BY <1>4, <2>1 DEF InFamily
  <1>9. Younger(a) = {s[h] : h \in i + 1 .. n} /\ next[a] = IF i = n THEN 0 ELSE s[i + 1]
    BY <1>6, <1>7
  <1>10. a \notin Younger(a)
    <2> SUFFICES ASSUME NEW h \in i + 1 .. n, s[h] = s[i] PROVE FALSE
      BY <1>6, <1>9
    <2>1. h \in 1 .. n /\ h # i
      BY <1>6, <1>8
    <2>2. QED
      BY <1>5, <1>6, <2>1
  <1>11. /\ next[a] \in 0 .. nelems
         /\ Younger(a) = IF next[a] = 0 THEN {} ELSE {next[a]} \cup Younger(next[a])
    <2>1. CASE i = n
      <3>1. i + 1 .. n = {} /\ next[a] = 0
        BY <1>8, <1>9, <2>1
      <3>2. nelems \in Nat
        BY DEF TypeInv
      <3>3. QED
        BY <1>9, <3>1, <3>2
    <2>2. CASE i # n
      <3>1. i + 1 \in 1 .. n /\ next[a] = s[i + 1]
        BY <1>6, <1>8, <1>9, <2>2
      <3>2. next[a] \in 1 .. nelems
        BY <1>5, <3>1
      <3>3. Younger(next[a]) = {s[h] : h \in i + 1 + 1 .. n}
        BY <1>7, <3>1
      <3>4. i + 1 .. n = {i + 1} \cup (i + 1 + 1 .. n)
        BY <1>6, <1>8, <2>2
      <3>5. {s[h] : h \in i + 1 .. n} = {s[i + 1]} \cup {s[h] : h \in i + 1 + 1 .. n}
        BY <3>4
      <3>6. QED
        BY <1>9, <3>1, <3>2, <3>3, <3>5
    <2>3. QED
      BY <2>1, <2>2
  <1>12. ASSUME NEW b \in Younger(a)
         PROVE  /\ b \in 1 .. nelems /\ parent[b] = parent[a]
                /\ a \notin removed => b \notin removed
                /\ Younger(b) \subseteq Younger(a) /\ a \notin Younger(b)
    <2>1. PICK j \in i + 1 .. n : s[j] = b
      BY <1>9
    <2>2. j \in 1 .. n /\ i < j
      BY <1>6, <1>8
    <2>3. b \in 1 .. nelems /\ parent[b] = parent[a]
      BY <1>2, <1>5, <2>1, <2>2
    <2>4. a \notin removed => b \notin removed
      BY <1>6, <1>7, <1>8, <2>1, <2>2
    <2>5. Younger(b) = {s[h] : h \in j + 1 .. n}
      BY <1>7, <2>1, <2>2
    <2>6. j + 1 .. n \subseteq i + 1 .. n
      BY <1>6, <1>8, <2>2
    <2>7. Younger(b) \subseteq Younger(a)
      BY <1>9, <2>5, <2>6
    <2>8. QED
      BY <1>10, <2>3, <2>4, <2>7
  <1>13. QED
    BY <1>10, <1>11, <1>12

(* The first child, and its younger siblings, are all that is left.        *)
LEMMA FirstIs ==
  ASSUME TypeInv, FamilyInv, NEW p \in 0 .. nelems
  PROVE  /\ FirstOf(p) \in 0 .. nelems
         /\ FirstOf(p) # 0 => parent[FirstOf(p)] = p /\ FirstOf(p) \notin removed
         /\ \A x \in 1 .. nelems :
              parent[x] = p /\ x \notin removed
                <=> FirstOf(p) # 0 /\ (x = FirstOf(p) \/ x \in Younger(FirstOf(p)))
  <1>1. PICK s, k : Family(p, s, k)
    BY FamilyOf
  <1>2. PICK n, r : n = Len(s) /\ r = FirstOf(p)
    OBVIOUS
  <1>3. /\ \A i \in 1 .. n : InFamily(s[i], s, k, i) /\ s[i] \in 1 .. nelems /\ parent[s[i]] = p
        /\ \A x \in 1 .. nelems : parent[x] = p => \E i \in 1 .. n : s[i] = x
    BY <1>1, <1>2, FamilyPlaces
  <1>4. r = (IF k = n THEN 0 ELSE s[k + 1]) /\ n \in Nat /\ k \in 0 .. n
    BY <1>1, <1>2, LenProperties DEF Family
  <1>5. \A j \in 1 .. n : /\ Younger(s[j]) = {s[h] : h \in j + 1 .. n}
                          /\ s[j] \in removed <=> j <= k
    BY <1>2, <1>3 DEF InFamily
  <1>6. CASE k = n
    <2>1. r = 0
      BY <1>4, <1>6
    <2>2. \A j \in 1 .. n : s[j] \in removed
      BY <1>4, <1>5, <1>6
    <2>3. nelems \in Nat
      BY DEF TypeInv
    <2>4. QED
      BY <1>2, <1>3, <2>1, <2>2, <2>3
  <1>7. CASE k # n
    <2>1. k + 1 \in 1 .. n /\ r = s[k + 1] /\ ~(k + 1 <= k)
      BY <1>4, <1>7
    <2>2. r \in 1 .. nelems /\ r \in 0 .. nelems /\ r # 0 /\ parent[r] = p /\ r \notin removed
      <3>1. r \in 1 .. nelems /\ parent[r] = p
        BY <1>3, <2>1
      <3>2. r \notin removed
        BY <1>5, <2>1
      <3>3. QED
        BY <3>1, <3>2
    <2>3. Younger(r) = {s[h] : h \in k + 1 + 1 .. n}
      BY <1>5, <2>1
    <2>4. ASSUME NEW x \in 1 .. nelems, parent[x] = p, x \notin removed
          PROVE  x = r \/ x \in Younger(r)
      <3>1. PICK i \in 1 .. n : s[i] = x
        BY <1>3, <2>4
      <3>2. ~(i <= k)
        BY <1>5, <2>4, <3>1
      <3>3. i = k + 1 \/ i \in k + 1 + 1 .. n
        BY <1>4, <3>2
      <3>4. QED
        BY <2>1, <2>3, <3>1, <3>3
    <2>5. ASSUME NEW x \in Younger(r) PROVE parent[x] = p /\ x \notin removed
      <3>1. r \in 1 .. nelems /\ r \notin removed /\ parent[r] = p
        BY <2>2
      <3>2. QED
        BY <3>1, SiblingsOrdered
    <2>6. QED
      BY <1>2, <2>2, <2>4, <2>5
  <1>8. QED
    BY <1>6, <1>7

(* What is in the tree has not been removed, nor what it is in.            *)
LEMMA ShownIs ==
  ASSUME TypeInv, FamilyInv
  PROVE  Shown = {e \in 1 .. nelems : \A a \in Around(e) : a \notin removed}
  <1>1. ASSUME NEW e \in 1 .. nelems, NEW a \in Around(e)
        PROVE  a \in ToSet(Children(parent[a])) <=> a \notin removed
    <2>1. a \in 1 .. nelems /\ parent[a] \in 0 .. nelems
      <3>1. a \in 1 .. nelems
        BY AroundWithin
      <3>2. QED
        BY <3>1, AroundIs
    <2>2. PICK p : p = parent[a]
      OBVIOUS
    <2>3. PICK s, k : Family(p, s, k)
      BY <2>1, <2>2, FamilyOf
    <2>4. PICK n, c : n = Len(s) /\ c = Children(p)
      OBVIOUS
    <2>5. /\ c \in Seq(1 .. nelems) /\ Len(c) = n - k
          /\ \A i \in 1 .. n - k : c[i] = s[k + i] /\ k + i \in 1 .. n
      BY <2>3, <2>4, ChildrenAre
    <2>6. /\ \A i \in 1 .. n : s[i] \in removed <=> i <= k
          /\ k \in 0 .. n /\ n \in Nat
          /\ \E i \in 1 .. n : s[i] = a
      BY <2>1, <2>2, <2>3, <2>4, LenProperties DEF Family
    <2>7. DOMAIN c = 1 .. n - k
      BY <2>5, LenProperties
    <2>8. ASSUME a \in ToSet(c) PROVE a \notin removed
      <3>1. PICK i \in 1 .. n - k : c[i] = a
        BY <2>7, <2>8 DEF ToSet
      <3>2. a = s[k + i] /\ k + i \in 1 .. n /\ ~(k + i <= k)
        BY <2>5, <2>6, <3>1
      <3>3. QED
        BY <2>6, <3>2
    <2>9. ASSUME a \notin removed PROVE a \in ToSet(c)
      <3>1. PICK i \in 1 .. n : s[i] = a
        BY <2>6
      <3>2. ~(i <= k)
        BY <2>6, <2>9, <3>1
      <3>3. i - k \in 1 .. n - k /\ k + (i - k) = i
        BY <2>6, <3>2
      <3>4. c[i - k] = a
        BY <2>5, <3>1, <3>3
      <3>5. QED
        BY <2>7, <3>3, <3>4 DEF ToSet
    <2>10. QED
      BY <2>2, <2>4, <2>8, <2>9
  <1>2. QED
    BY <1>1 DEF Shown
-----------------------------------------------------------------------------
(* The order of elements                                                   *)

(* x is in something that comes before something that y is in.             *)
Left(x, y) == \E a \in Around(x) : Younger(a) \cap Around(y) # {}

LEMMA LeftApart ==
  ASSUME TypeInv, FamilyInv, NEW x \in 1 .. nelems, NEW y \in 1 .. nelems, Left(x, y)
  PROVE  x \notin Around(y) /\ y \notin Around(x) /\ ~Left(y, x)
  <1>1. PICK a \in Around(x), b \in Around(y) : b \in Younger(a)
    BY DEF Left
  <1>2. a \in 1 .. nelems /\ Around(a) \subseteq Around(x)
    BY AroundWithin
  <1>3. b \in 1 .. nelems /\ Around(b) \subseteq Around(y)
    BY AroundWithin
  <1>4. parent[b] = parent[a] /\ b # a /\ a \notin Younger(b)
    BY <1>1, <1>2, SiblingsOrdered
  <1>5. ~(a \in Around(y))
    BY <1>4, AroundOneSibling
  <1>6. ~(b \in Around(x))
    BY <1>4, AroundOneSibling
  <1>7. x \notin Around(y)
    <2> SUFFICES ASSUME x \in Around(y) PROVE FALSE
      OBVIOUS
    <2>1. Around(x) \subseteq Around(y)
      BY AroundWithin
    <2>2. QED
      BY <1>5, <2>1
  <1>8. y \notin Around(x)
    <2> SUFFICES ASSUME y \in Around(x) PROVE FALSE
      OBVIOUS
    <2>1. Around(y) \subseteq Around(x)
      BY AroundWithin
    <2>2. QED
      BY <1>6, <2>1
  <1>9. ASSUME Left(y, x) PROVE FALSE
    <2>1. PICK c \in Around(y), d \in Around(x) : d \in Younger(c)
      BY <1>9 DEF Left
    <2>2. c \in 1 .. nelems /\ Around(c) \subseteq Around(y)
      BY AroundWithin
    <2>3. d \in 1 .. nelems /\ Around(d) \subseteq Around(x)
      BY AroundWithin
    <2>4. parent[d] = parent[c] /\ d # c
      BY <2>1, <2>2, SiblingsOrdered
    <2>5. CASE a = d
      <3>1. c = b
        BY <1>4, <2>4, <2>5, AroundOneSibling
      <3>2. QED
        BY <1>4, <2>1, <2>5, <3>1
    <2>6. CASE a # d /\ a \in Around(d)
      <3>1. parent[d] \in 1 .. nelems /\ a \in Around(parent[d])
        BY <2>3, <2>6, AroundStep
      <3>2. Around(parent[c]) \subseteq Around(c)
        BY <2>2, AroundIs
      <3>3. a \in Around(y)
        BY <2>2, <2>4, <3>1, <3>2
      <3>4. QED
        BY <1>5, <3>3
    <2>7. CASE a # d /\ d \in Around(a)
      <3>1. parent[a] \in 1 .. nelems /\ d \in Around(parent[a])
        BY <1>2, <2>7, AroundStep
      <3>2. Around(parent[b]) \subseteq Around(b)
        BY <1>3, AroundIs
      <3>3. d \in Around(y)
        BY <1>3, <1>4, <3>1, <3>2
      <3>4. QED
        BY <2>4, <3>3, AroundOneSibling
    <2>8. a \in Around(d) \/ d \in Around(a)
      BY AroundOrdered
    <2>9. QED
      BY <2>5, <2>6, <2>7, <2>8
  <1>10. QED
    BY <1>7, <1>8, <1>9

LEMMA BeforeApart ==
  ASSUME TypeInv, FamilyInv, NEW x \in 1 .. nelems, NEW y \in 1 .. nelems, Before(x, y)
  PROVE  ~Before(y, x) /\ x # y
  <1>1. Before(x, y) = ((x # y /\ y \in Around(x)) \/ Left(x, y))
    BY DEF Before, Left
  <1>2. Before(y, x) = ((y # x /\ x \in Around(y)) \/ Left(y, x))
    BY DEF Before, Left
  <1>3. x \in Around(x)
    BY AroundIs
  <1>4. CASE Left(x, y)
    BY <1>2, <1>3, <1>4, LeftApart
  <1>5. CASE x # y /\ y \in Around(x)
    <2>1. ~Left(y, x)
      BY <1>5, LeftApart
    <2>2. ~(x \in Around(y))
      <3>1. x \in Around(y) => x <= y
        BY AroundWithin
      <3>2. y <= x
        BY <1>5, AroundWithin
      <3>3. nelems \in Nat
        BY DEF TypeInv
      <3>4. QED
        BY <1>5, <3>1, <3>2, <3>3
    <2>3. QED
      BY <1>2, <1>5, <2>1, <2>2
  <1>6. QED
    BY <1>1, <1>4, <1>5

(* An element, its younger siblings, and all that is in them.              *)
All(e) ==
  IF e = 0 THEN {} ELSE {y \in 1 .. nelems : \E a \in Around(y) : a = e \/ a \in Younger(e)}

LEMMA BelowIs ==
  ASSUME TypeInv, FamilyInv, NEW e \in 1 .. nelems
  PROVE  /\ first[e] \in 0 .. nelems /\ (first[e] # 0 => parent[first[e]] = e /\ first[e] \notin removed)
         /\ \A u \in All(first[e]) : u \in 1 .. nelems /\ u # e /\ e \in Around(u)
         /\ \A u \in Shown : u # e /\ e \in Around(u) => u \in All(first[e])
  <1>1. e \in 0 .. nelems /\ nelems \in Nat /\ e # 0
    BY DEF TypeInv
  <1>2. PICK r : r = first[e]
    OBVIOUS
  <1>3. FirstOf(e) = r
    BY <1>1, <1>2 DEF FirstOf
  <1>4. /\ r \in 0 .. nelems
        /\ r # 0 => parent[r] = e /\ r \notin removed
        /\ \A x \in 1 .. nelems : parent[x] = e /\ x \notin removed <=> r # 0 /\ (x = r \/ x \in Younger(r))
    BY <1>1, <1>3, FirstIs
  <1>5. ASSUME NEW u \in All(r) PROVE u \in 1 .. nelems /\ u # e /\ e \in Around(u)
    <2>1. r # 0 /\ u \in 1 .. nelems
      BY <1>5 DEF All
    <2>2. PICK a \in Around(u) : a = r \/ a \in Younger(r)
      BY <1>5, <2>1 DEF All
    <2>3. a \in 1 .. nelems /\ a <= u
      BY <2>1, AroundWithin
    <2>4. parent[a] = e
      BY <1>4, <2>1, <2>2, <2>3
    <2>5. e \in Around(u)
      BY <1>1, <2>1, <2>2, <2>4, AroundUp
    <2>6. parent[a] < a
      <3>1. parent[a] \in 0 .. a - 1
        BY <2>3, AroundIs
      <3>2. QED
        BY <2>3, <3>1
    <2>7. u # e
      BY <1>1, <2>1, <2>3, <2>4, <2>6
    <2>8. QED
      BY <2>1, <2>5, <2>7
  <1>6. ASSUME NEW u \in Shown, u # e, e \in Around(u) PROVE u \in All(r)
    <2>1. u \in 1 .. nelems /\ \A a \in Around(u) : a \notin removed
      BY ShownIs
    <2>2. PICK b \in Around(u) : parent[b] = e
      BY <1>6, <2>1, AroundStep
    <2>3. b \in 1 .. nelems /\ b \notin removed
      BY <2>1, <2>2, AroundWithin
    <2>4. r # 0 /\ (b = r \/ b \in Younger(r))
      BY <1>4, <2>2, <2>3
    <2>5. QED
      BY <2>1, <2>2, <2>4 DEF All
  <1>7. QED
    BY <1>2, <1>4, <1>5, <1>6

LEMMA BesideIs ==
  ASSUME TypeInv, FamilyInv, NEW e \in 1 .. nelems
  PROVE  /\ next[e] \in 0 .. nelems
         /\ All(next[e]) = {y \in 1 .. nelems : \E a \in Around(y) : a \in Younger(e)}
         /\ next[e] # 0 => parent[next[e]] = parent[e] /\ (e \notin removed => next[e] \notin removed)
  <1>1. /\ next[e] \in 0 .. nelems
        /\ Younger(e) = IF next[e] = 0 THEN {} ELSE {next[e]} \cup Younger(next[e])
        /\ \A b \in Younger(e) : parent[b] = parent[e] /\ (e \notin removed => b \notin removed)
    BY SiblingsOrdered
  <1>2. All(next[e]) = {y \in 1 .. nelems : \E a \in Around(y) : a \in Younger(e)}
    BY <1>1 DEF All
  <1>3. QED
    BY <1>1, <1>2

(* What is below an element comes before it, and it before what is beside  *)
(* it; there is nothing else.                                              *)
LEMMA AllParts ==
  ASSUME TypeInv, FamilyInv, NEW e \in 1 .. nelems
  PROVE  /\ e \in All(e) /\ All(first[e]) \subseteq All(e) \ {e} /\ All(next[e]) \subseteq All(e) \ {e}
         /\ All(e) \cap Shown \subseteq All(first[e]) \cup {e} \cup All(next[e])
         /\ \A u \in All(first[e]) : Before(u, e)
         /\ \A w \in All(next[e]) : Before(e, w)
         /\ \A u \in All(first[e]), w \in All(next[e]) : Before(u, w)
  <1>1. /\ \A u \in All(first[e]) : u \in 1 .. nelems /\ u # e /\ e \in Around(u)
        /\ \A u \in Shown : u # e /\ e \in Around(u) => u \in All(first[e])
    BY BelowIs
  <1>2. All(next[e]) = {y \in 1 .. nelems : \E a \in Around(y) : a \in Younger(e)}
    BY BesideIs
  <1>3. e # 0 /\ e \in Around(e)
    BY AroundIs
  <1>4. All(e) = {y \in 1 .. nelems : \E a \in Around(y) : a = e \/ a \in Younger(e)}
    BY <1>3 DEF All
  <1>5. e \in All(e) /\ All(first[e]) \subseteq All(e) \ {e}
    BY <1>1, <1>3, <1>4
  <1>6. e \notin All(next[e])
    <2> SUFFICES ASSUME NEW a \in Around(e), a \in Younger(e) PROVE FALSE
      BY <1>2
    <2>1. Left(e, e)
      BY <1>3 DEF Left
    <2>2. QED
      BY <1>3, <2>1, LeftApart
  <1>7. All(next[e]) \subseteq All(e) \ {e}
    BY <1>2, <1>4, <1>6
  <1>8. All(e) \cap Shown \subseteq All(first[e]) \cup {e} \cup All(next[e])
    BY <1>1, <1>2, <1>4
  <1>9. ASSUME NEW u \in All(first[e]) PROVE Before(u, e)
    BY <1>1 DEF Before
  <1>10. ASSUME NEW w \in All(next[e]) PROVE Before(e, w)
    BY <1>2, <1>3 DEF Before
  <1>11. ASSUME NEW u \in All(first[e]), NEW w \in All(next[e]) PROVE Before(u, w)
    BY <1>1, <1>2 DEF Before
  <1>12. QED
    BY <1>5, <1>7, <1>8, <1>9, <1>10, <1>11
-----------------------------------------------------------------------------
(* The search for the next focus                                           *)

Findings == [found : Ptrs, current : Ptrs]

(* One step of the search, with f for the rest of it.                      *)
Finding(f, q) ==
  LET x == q[1]
      below == f[<<first[x], q[2]>>]
  IN  IF x = 0 THEN [found |-> 0, current |-> q[2]]
      ELSE IF below.found # 0 THEN below
      ELSE IF below.current = 0 /\ x \in mouse THEN [found |-> x, current |-> 0]
      ELSE f[<<next[x], IF x = below.current THEN 0 ELSE below.current>>]

IsFind(f) == f = [q \in Ptrs \X Ptrs |-> Finding(f, q)]

(* The search ends: children and siblings have less below and beside them. *)
Ranks(R) ==
  /\ R \in [Ptrs -> 0 .. MaxElems]
  /\ \A x \in Elems : R[first[x]] < R[x] /\ R[next[x]] < R[x]

LEMMA PointersTyped ==
  ASSUME TypeInv, NEW x \in Elems
  PROVE  first[x] \in Ptrs /\ next[x] \in Ptrs /\ x \in Ptrs
  BY Numbers, SMTT(30) DEF TypeInv, LinksInv

LEMMA RanksExist ==
  ASSUME TypeInv, FamilyInv
  PROVE  \E R : Ranks(R)
  <1> DEFINE R == [x \in Ptrs |-> IF x \in 1 .. nelems THEN Cardinality(All(x)) ELSE IF x = 0 THEN 0 ELSE 1]
  <1>1. nelems \in 0 .. MaxElems /\ MaxElems \in Nat /\ MaxElems > 0 /\ nelems \in Nat
    BY Numbers DEF TypeInv
  <1>2. ASSUME NEW x
        PROVE  All(x) \subseteq 1 .. nelems /\ IsFiniteSet(All(x)) /\ Cardinality(All(x)) \in 0 .. nelems
    <2>1. All(x) \subseteq 1 .. nelems
      BY DEF All
    <2>2. IsFiniteSet(1 .. nelems) /\ Cardinality(1 .. nelems) = nelems
      <3>1. IsFiniteSet(1 .. nelems) /\ Cardinality(1 .. nelems) = IF 1 > nelems THEN 0 ELSE nelems - 1 + 1
        BY <1>1, FS_Interval
      <3>2. QED
        BY <1>1, <3>1
    <2>3. IsFiniteSet(All(x)) /\ Cardinality(All(x)) <= nelems
      BY <2>1, <2>2, FS_Subset
    <2>4. Cardinality(All(x)) \in Nat
      BY <2>3, FS_CardinalityType
    <2>5. QED
      BY <1>1, <2>1, <2>3, <2>4
  <1>3. R \in [Ptrs -> 0 .. MaxElems]
    <2>1. ASSUME NEW x \in Ptrs
          PROVE  (IF x \in 1 .. nelems THEN Cardinality(All(x)) ELSE IF x = 0 THEN 0 ELSE 1) \in 0 .. MaxElems
      <3>1. Cardinality(All(x)) \in 0 .. nelems
        BY <1>2
      <3>2. QED
        BY <1>1, <3>1
    <2>2. QED
      BY <2>1
  <1>4. \A x \in Ptrs : x <= nelems => R[x] = Cardinality(All(x))
    <2>1. All(0) = {} /\ Cardinality({}) = 0
      BY FS_EmptySet DEF All
    <2>2. QED
      BY <1>1, <2>1, Numbers
  <1>5. ASSUME NEW x \in Elems PROVE R[first[x]] < R[x] /\ R[next[x]] < R[x]
    <2>1. first[x] \in Ptrs /\ next[x] \in Ptrs /\ x \in Ptrs
      BY PointersTyped
    <2>2. CASE x \in 1 .. nelems
      <3>1. /\ x \in All(x) /\ All(first[x]) \subseteq All(x) \ {x} /\ All(next[x]) \subseteq All(x) \ {x}
        BY <2>2, AllParts
      <3>2. first[x] <= nelems /\ next[x] <= nelems
        BY <1>1, <2>2, Numbers DEF TypeInv, LinksInv
      <3>3. /\ R[x] = Cardinality(All(x)) /\ R[first[x]] = Cardinality(All(first[x]))
            /\ R[next[x]] = Cardinality(All(next[x]))
        BY <1>1, <1>4, <2>1, <2>2, <3>2
      <3>4. ASSUME NEW y, All(y) \subseteq All(x) \ {x}
            PROVE  Cardinality(All(y)) < Cardinality(All(x))
        <4>1. IsFiniteSet(All(x)) /\ All(y) \subseteq All(x) /\ All(y) # All(x)
          BY <1>2, <3>1, <3>4
        <4>2. Cardinality(All(y)) <= Cardinality(All(x)) /\ Cardinality(All(y)) # Cardinality(All(x))
          BY <4>1, FS_Subset
        <4>3. Cardinality(All(y)) \in Int /\ Cardinality(All(x)) \in Int
          BY <1>2, <1>1
        <4>4. QED
          BY <4>2, <4>3
      <3>5. QED
        BY <3>1, <3>3, <3>4
    <2>3. CASE x \notin 1 .. nelems
      <3>1. nelems < x /\ x # 0
        BY <1>1, <2>3, Numbers
      <3>2. first[x] = 0 /\ next[x] = 0
        BY <3>1 DEF TypeInv, LinksInv
      <3>3. 0 \in Ptrs /\ 0 \notin 1 .. nelems
        BY Numbers
      <3>4. R[0] = 0 /\ R[x] = 1
        BY <2>1, <2>3, <3>1, <3>3
      <3>5. QED
        BY <3>2, <3>4
    <2>4. QED
      BY <2>2, <2>3
  <1> HIDE DEF R
  <1>6. QED
    BY <1>3, <1>5 DEF Ranks

LEMMA FindingTyped ==
  ASSUME TypeInv, NEW f \in [Ptrs \X Ptrs -> Findings], NEW x \in Ptrs, NEW c \in Ptrs
  PROVE  Finding(f, <<x, c>>) \in Findings
  <1>1. 0 \in Ptrs /\ \A y \in Elems : first[y] \in Ptrs /\ next[y] \in Ptrs
    BY PointersTyped, Numbers
  <1>2. CASE x = 0
    BY <1>1, <1>2 DEF Finding, Findings
  <1>3. CASE x # 0
    <2>1. x \in Elems
      BY <1>3, Numbers
    <2>2. PICK b : b = f[<<first[x], c>>]
      OBVIOUS
    <2>3. b \in Findings
      BY <1>1, <2>1, <2>2
    <2>4. b.found \in Ptrs /\ b.current \in Ptrs
      BY <2>3 DEF Findings
    <2>5. f[<<next[x], IF x = b.current THEN 0 ELSE b.current>>] \in Findings
      BY <1>1, <2>1, <2>4
    <2>6. [found |-> x, current |-> 0] \in Findings
      BY <1>1 DEF Findings
    <2>7. Finding(f, <<x, c>>) = IF b.found # 0 THEN b
                                 ELSE IF b.current = 0 /\ x \in mouse THEN [found |-> x, current |-> 0]
                                 ELSE f[<<next[x], IF x = b.current THEN 0 ELSE b.current>>]
      BY <1>3, <2>2 DEF Finding
    <2>8. QED
      BY <2>3, <2>5, <2>6, <2>7
  <1>4. QED
    BY <1>2, <1>3

(* What is found depends on what is below and beside only.                 *)
LEMMA FindingSame ==
  ASSUME TypeInv, NEW f \in [Ptrs \X Ptrs -> Findings], NEW g, NEW x \in Elems, NEW c \in Ptrs,
         \A d \in Ptrs : g[<<first[x], d>>] = f[<<first[x], d>>] /\ g[<<next[x], d>>] = f[<<next[x], d>>]
  PROVE  Finding(g, <<x, c>>) = Finding(f, <<x, c>>)
  <1>1. 0 \in Ptrs /\ first[x] \in Ptrs /\ next[x] \in Ptrs /\ x # 0
    BY PointersTyped, Numbers
  <1>2. PICK b : b = f[<<first[x], c>>]
    OBVIOUS
  <1>3. b \in Findings
    BY <1>1, <1>2
  <1>4. PICK d : d = IF x = b.current THEN 0 ELSE b.current
    OBVIOUS
  <1>5. d \in Ptrs
    <2>1. b.current \in Ptrs
      BY <1>3 DEF Findings
    <2>2. QED
      BY <1>1, <1>4, <2>1
  <1>6. g[<<first[x], c>>] = b /\ g[<<next[x], d>>] = f[<<next[x], d>>]
    BY <1>2, <1>5
  <1>7. Finding(f, <<x, c>>) = IF b.found # 0 THEN b
                               ELSE IF b.current = 0 /\ x \in mouse THEN [found |-> x, current |-> 0]
                               ELSE f[<<next[x], d>>]
    BY <1>1, <1>2, <1>4 DEF Finding
  <1>8. Finding(g, <<x, c>>) = IF b.found # 0 THEN b
                               ELSE IF b.current = 0 /\ x \in mouse THEN [found |-> x, current |-> 0]
                               ELSE g[<<next[x], d>>]
    BY <1>1, <1>6, <1>4 DEF Finding
  <1>9. QED
    BY <1>6, <1>7, <1>8

LEMMA FindExists ==
  ASSUME TypeInv, FamilyInv
  PROVE  \E f : IsFind(f)
  <1>1. PICK R : Ranks(R)
    BY RanksExist
  <1>2. PICK m : m = MaxElems + 1
    OBVIOUS
  <1>3. /\ m \in Nat /\ \A x \in Ptrs : R[x] \in Nat /\ R[x] < m
        /\ \A x \in Elems : R[first[x]] < R[x] /\ R[next[x]] < R[x]
    BY <1>1, <1>2, Numbers, SMTT(30) DEF Ranks
  <1>4. 0 \in Ptrs /\ Ptrs = Elems \cup {0} /\ \A x \in Elems : first[x] \in Ptrs /\ next[x] \in Ptrs
    BY PointersTyped, Numbers
  <1> DEFINE Upto(f, h) == /\ f \in [Ptrs \X Ptrs -> Findings]
                           /\ \A x, c \in Ptrs : R[x] < h => f[<<x, c>>] = Finding(f, <<x, c>>)
             T == {h \in Nat : ~ \E f : Upto(f, h)}
  <1>5. T = {}
    <2> SUFFICES ASSUME T # {} PROVE FALSE
      OBVIOUS
    <2>1. PICK h \in T : \A j \in T : h <= j
      <3>1. T \subseteq Nat
        OBVIOUS
      <3> HIDE DEF T
      <3>2. QED
        BY <3>1, LeastNumber
    <2>2. h \in Nat /\ \A f : ~Upto(f, h)
      BY <2>1
    <2>3. h # 0
      <3> SUFFICES ASSUME h = 0 PROVE FALSE
        OBVIOUS
      <3>1. PICK f : f = [q \in Ptrs \X Ptrs |-> [found |-> 0, current |-> 0]]
        OBVIOUS
      <3>2. f \in [Ptrs \X Ptrs -> Findings]
        BY <1>4, <3>1 DEF Findings
      <3>3. \A x \in Ptrs : ~(R[x] < 0)
        BY <1>3
      <3>4. Upto(f, 0)
        BY <3>2, <3>3
      <3>5. QED
        BY <2>2, <3>4
    <2>4. PICK k : k = h - 1
      OBVIOUS
    <2>5. k \in Nat /\ k \notin T /\ h = k + 1
      <3>1. k \in Nat /\ h = k + 1 /\ ~(h <= k)
        BY <2>2, <2>3, <2>4
      <3>2. QED
        BY <2>1, <3>1
    <2>6. PICK f : Upto(f, k)
      BY <2>5
    <2>7. PICK g : g = [q \in Ptrs \X Ptrs |-> Finding(f, q)]
      OBVIOUS
    <2>8. \A x, c \in Ptrs : g[<<x, c>>] = Finding(f, <<x, c>>)
      BY <2>7
    <2>9. g \in [Ptrs \X Ptrs -> Findings]
      <3>1. f \in [Ptrs \X Ptrs -> Findings]
        BY <2>6
      <3>2. \A x, c \in Ptrs : Finding(f, <<x, c>>) \in Findings
        BY <3>1, FindingTyped
      <3>3. \A q \in Ptrs \X Ptrs : Finding(f, q) \in Findings
        <4>1. \A q \in Ptrs \X Ptrs : \E x, c \in Ptrs : q = <<x, c>>
          OBVIOUS
        <4>2. QED
          BY <3>2, <4>1
      <3>4. QED
        BY <2>7, <3>3
    <2>10. ASSUME NEW x \in Ptrs, NEW c \in Ptrs, R[x] < h PROVE g[<<x, c>>] = Finding(g, <<x, c>>)
      <3>1. CASE x = 0
        <4>1. ASSUME NEW u PROVE Finding(u, <<x, c>>) = [found |-> 0, current |-> c]
          BY <3>1 DEF Finding
        <4>2. QED
          BY <2>8, <4>1
      <3>2. CASE x \in Elems
        <4>1. first[x] \in Ptrs /\ next[x] \in Ptrs
          BY <1>4, <3>2
        <4>2. R[first[x]] < k /\ R[next[x]] < k
          <5>1. R[first[x]] < R[x] /\ R[next[x]] < R[x]
            BY <1>3, <3>2
          <5>2. R[first[x]] \in Nat /\ R[next[x]] \in Nat /\ R[x] \in Nat
            BY <1>3, <4>1
          <5>3. QED
            BY <2>5, <2>10, <5>1, <5>2
        <4>3. \A d \in Ptrs : g[<<first[x], d>>] = f[<<first[x], d>>] /\ g[<<next[x], d>>] = f[<<next[x], d>>]
          BY <2>6, <2>8, <4>1, <4>2
        <4>4. f \in [Ptrs \X Ptrs -> Findings]
          BY <2>6
        <4>5. Finding(g, <<x, c>>) = Finding(f, <<x, c>>)
          BY <3>2, <4>3, <4>4, FindingSame
        <4>6. QED
          BY <2>8, <4>5
      <3>3. QED
        BY <1>4, <3>1, <3>2
    <2>11. Upto(g, h)
      BY <2>9, <2>10
    <2>12. QED
      BY <2>2, <2>11
  <1>6. PICK f : Upto(f, m)
    BY <1>3, <1>5
  <1>7. \A x, c \in Ptrs : f[<<x, c>>] = Finding(f, <<x, c>>)
    BY <1>3, <1>6
  <1>8. f \in [Ptrs \X Ptrs -> Findings]
    BY <1>6
  <1>9. \A q \in Ptrs \X Ptrs : f[q] = Finding(f, q)
    <2>1. \A q \in Ptrs \X Ptrs : \E x, c \in Ptrs : q = <<x, c>>
      OBVIOUS
    <2>2. QED
      BY <1>7, <2>1
  <1>10. f = [q \in Ptrs \X Ptrs |-> Finding(f, q)]
    BY <1>8, <1>9
  <1>11. QED
    BY <1>10 DEF IsFind

LEMMA FindIs ==
  ASSUME TypeInv, FamilyInv
  PROVE  \E f : /\ \A x, c \in Ptrs : f[<<x, c>>] = Finding(f, <<x, c>>)
                /\ \A x, c \in Ptrs : FindNextEndNode(x, c) = f[<<x, c>>]
  <1> DEFINE find[q \in Ptrs \X Ptrs] ==
               LET x == q[1]
                   below == find[<<first[x], q[2]>>]
               IN  IF x = 0 THEN [found |-> 0, current |-> q[2]]
                   ELSE IF below.found # 0 THEN below
                   ELSE IF below.current = 0 /\ x \in mouse THEN [found |-> x, current |-> 0]
                   ELSE find[<<next[x], IF x = below.current THEN 0 ELSE below.current>>]
             Q(g) == IsFind(g)
  <1>1. find = CHOOSE g : Q(g)
    BY DEF IsFind, Finding
  <1>2. \A x, c \in Ptrs : FindNextEndNode(x, c) = find[<<x, c>>]
    BY DEF FindNextEndNode
  <1>3. PICK g : Q(g)
    BY FindExists
  <1> HIDE DEF Q, find
  <1>4. Q(CHOOSE h : Q(h))
    BY <1>3, Zenon
  <1>5. IsFind(find)
    BY <1>1, <1>4 DEF Q
  <1>6. \A x, c \in Ptrs : find[<<x, c>>] = Finding(find, <<x, c>>)
    BY <1>5 DEF IsFind
  <1>7. QED
    BY <1>2, <1>6
-----------------------------------------------------------------------------
(* What the search finds                                                   *)

(* r is the first one of S.                                                *)
FirstOne(S, r) ==
  /\ r = 0 <=> S = {}
  /\ r # 0 => r \in S /\ \A y \in S \ {r} : Before(r, y)

Ahead(e, c) == {y \in All(e) \cap Shown \cap mouse : c = 0 \/ Before(c, y)}

(* What is found from the sibling e on, after c: if c is met, the first    *)
(* one after it.                                                           *)
Right(e, c, r) ==
  IF c = 0 \/ c \in All(e) \cap Shown THEN r.current = 0 /\ FirstOne(Ahead(e, c), r.found)
  ELSE r.found = 0 /\ r.current = c

(* The step at e, b being what was found below it, d beside it.            *)
Joined(e, b, d) ==
  IF b.found # 0 THEN b
  ELSE IF b.current = 0 /\ e \in mouse THEN [found |-> e, current |-> 0]
  ELSE d

LEMMA JoinedRight ==
  ASSUME TypeInv, FamilyInv, NEW e \in Shown, NEW c \in Ptrs, NEW b, NEW d,
         Right(first[e], c, b), b.found = 0 => Right(next[e], IF e = b.current THEN 0 ELSE b.current, d)
  PROVE  Right(e, c, Joined(e, b, d))
  <1>1. PICK A, B, V : A = All(first[e]) \cap Shown /\ B = All(next[e]) \cap Shown /\ V = All(e) \cap Shown
    OBVIOUS
  <1>2. e \in 1 .. nelems /\ e # 0 /\ Shown \subseteq 1 .. nelems
    BY DEF Shown
  <1>3. V = A \cup {e} \cup B /\ e \notin A /\ e \notin B
    <2>1. /\ e \in All(e) /\ All(first[e]) \subseteq All(e) \ {e} /\ All(next[e]) \subseteq All(e) \ {e}
          /\ All(e) \cap Shown \subseteq All(first[e]) \cup {e} \cup All(next[e])
      BY <1>2, AllParts
    <2>2. QED
      BY <1>1, <2>1
  <1>4. /\ \A u \in A : Before(u, e)
        /\ \A w \in B : Before(e, w)
        /\ \A u \in A, w \in B : Before(u, w)
    BY <1>1, <1>2, AllParts
  <1>5. A \subseteq 1 .. nelems /\ B \subseteq 1 .. nelems
    BY <1>1, <1>2
  <1>6. \A x, y \in 1 .. nelems : Before(x, y) => ~Before(y, x) /\ x # y
    BY BeforeApart
  <1>7. /\ \A u \in A : ~Before(e, u) /\ \A w \in B : ~Before(w, u) /\ u # w
        /\ \A w \in B : ~Before(w, e)
        /\ ~Before(e, e)
    BY <1>2, <1>4, <1>5, <1>6
  <1>8. /\ \A x : Ahead(e, x) = {y \in V \cap mouse : x = 0 \/ Before(x, y)}
        /\ \A x : Ahead(first[e], x) = {y \in A \cap mouse : x = 0 \/ Before(x, y)}
        /\ \A x : Ahead(next[e], x) = {y \in B \cap mouse : x = 0 \/ Before(x, y)}
    BY <1>1 DEF Ahead
  <1>9. CASE c = 0 \/ c \in A
    <2>1. PICK K : K = {y \in A \cap mouse : c = 0 \/ Before(c, y)}
      OBVIOUS
    <2>2. b.current = 0 /\ FirstOne(K, b.found)
      BY <1>1, <1>8, <1>9, <2>1 DEF Right
    <2>3. Ahead(e, c) = K \cup (({e} \cup B) \cap mouse)
      <3>1. c = 0 \/ (Before(c, e) /\ \A w \in B : Before(c, w))
        BY <1>4, <1>9
      <3>2. QED
        BY <1>3, <1>8, <2>1, <3>1
    <2>4. c = 0 \/ c \in V
      BY <1>3, <1>9
    <2>5. \A u \in K : Before(u, e) /\ \A w \in B : Before(u, w)
      BY <1>4, <2>1
    <2>6. CASE b.found # 0
      <3>1. b.found \in K /\ \A y \in K \ {b.found} : Before(b.found, y)
        BY <2>2, <2>6 DEF FirstOne
      <3>2. FirstOne(Ahead(e, c), b.found)
        BY <2>3, <2>5, <2>6, <3>1 DEF FirstOne
      <3>3. Joined(e, b, d) = b
        BY <2>6 DEF Joined
      <3>4. QED
        BY <1>1, <2>2, <2>4, <3>2, <3>3 DEF Right
    <2>7. CASE b.found = 0 /\ e \in mouse
      <3>1. K = {}
        BY <2>2, <2>7 DEF FirstOne
      <3>2. FirstOne(Ahead(e, c), e)
        BY <1>2, <1>4, <2>3, <2>7, <3>1 DEF FirstOne
      <3>3. Joined(e, b, d) = [found |-> e, current |-> 0]
        BY <2>2, <2>7 DEF Joined
      <3>4. QED
        BY <1>1, <2>4, <3>2, <3>3 DEF Right
    <2>8. CASE b.found = 0 /\ e \notin mouse
      <3>1. K = {}
        BY <2>2, <2>8 DEF FirstOne
      <3>2. Right(next[e], 0, d)
        BY <1>2, <2>2, <2>8
      <3>3. d.current = 0 /\ FirstOne(Ahead(next[e], 0), d.found)
        BY <3>2 DEF Right
      <3>4. Ahead(next[e], 0) = B \cap mouse
        BY <1>8
      <3>5. Ahead(e, c) = B \cap mouse
        BY <2>3, <2>8, <3>1
      <3>6. Joined(e, b, d) = d
        BY <2>8 DEF Joined
      <3>7. QED
        BY <1>1, <2>4, <3>3, <3>4, <3>5, <3>6 DEF Right
    <2>9. QED
      BY <2>6, <2>7, <2>8
  <1>10. CASE ~(c = 0 \/ c \in A)
    <2>1. b.found = 0 /\ b.current = c /\ c # 0
      BY <1>1, <1>10 DEF Right
    <2>2. Joined(e, b, d) = d
      BY <2>1 DEF Joined
    <2>3. CASE c = e
      <3>1. Right(next[e], 0, d)
        BY <2>1, <2>3
      <3>2. d.current = 0 /\ FirstOne(Ahead(next[e], 0), d.found)
        BY <3>1 DEF Right
      <3>3. Ahead(next[e], 0) = B \cap mouse
        BY <1>8
      <3>4. Ahead(e, c) = B \cap mouse
        BY <1>2, <1>3, <1>4, <1>7, <1>8, <2>3
      <3>5. c \in V
        BY <1>3, <2>3
      <3>6. QED
        BY <1>1, <2>2, <3>2, <3>3, <3>4, <3>5 DEF Right
    <2>4. CASE c # e
      <3>1. Right(next[e], c, d)
        BY <2>1, <2>4
      <3>2. CASE c \in B
        <4>1. d.current = 0 /\ FirstOne(Ahead(next[e], c), d.found)
          BY <1>1, <3>1, <3>2 DEF Right
        <4>2. ~Before(c, e) /\ \A u \in A : ~Before(c, u)
          BY <1>7, <3>2
        <4>3. \A y \in V \cap mouse : Before(c, y) => y \in B \cap mouse
          BY <1>3, <4>2
        <4>4. Ahead(e, c) = Ahead(next[e], c)
          BY <1>3, <1>8, <2>1, <4>3
        <4>5. c \in V
          BY <1>3, <3>2
        <4>6. QED
          BY <1>1, <2>2, <4>1, <4>4, <4>5 DEF Right
      <3>3. CASE c \notin B
        <4>1. d.found = 0 /\ d.current = c
          BY <1>1, <2>1, <3>1, <3>3 DEF Right
        <4>2. c \notin V
          BY <1>3, <1>10, <2>4, <3>3
        <4>3. QED
          BY <1>1, <2>1, <2>2, <4>1, <4>2 DEF Right
      <3>4. QED
        BY <3>2, <3>3
    <2>5. QED
      BY <2>3, <2>4
  <1>11. QED
    BY <1>9, <1>10

(* Children and siblings of what is in the tree are in it.                 *)
LEMMA ShownOn ==
  ASSUME TypeInv, FamilyInv, NEW e \in Shown
  PROVE  first[e] \in Shown \cup {0} /\ next[e] \in Shown \cup {0} /\ e \in Elems
  <1>1. /\ e \in 1 .. nelems /\ \A a \in Around(e) : a \notin removed
        /\ Shown = {y \in 1 .. nelems : \A a \in Around(y) : a \notin removed}
    BY ShownIs
  <1>2. /\ e \in Around(e) /\ Around(parent[e]) \subseteq Around(e)
        /\ \A y \in 1 .. nelems : Around(y) = {y} \cup Around(parent[y])
    BY <1>1, AroundIs
  <1>3. nelems \in Nat /\ e \in Elems
    BY <1>1, Numbers DEF TypeInv
  <1>4. ASSUME first[e] # 0 PROVE first[e] \in Shown
    <2>1. first[e] \in 1 .. nelems /\ parent[first[e]] = e /\ first[e] \notin removed
      BY <1>1, <1>3, <1>4, BelowIs
    <2>2. Around(first[e]) = {first[e]} \cup Around(e)
      BY <1>2, <2>1
    <2>3. QED
      BY <1>1, <2>1, <2>2
  <1>5. ASSUME next[e] # 0 PROVE next[e] \in Shown
    <2>1. next[e] \in 1 .. nelems /\ parent[next[e]] = parent[e] /\ next[e] \notin removed
      BY <1>1, <1>2, <1>3, <1>5, BesideIs
    <2>2. Around(next[e]) = {next[e]} \cup Around(parent[e])
      BY <1>2, <2>1
    <2>3. QED
      BY <1>1, <1>2, <2>1, <2>2
  <1>6. QED
    BY <1>3, <1>4, <1>5

LEMMA FindRight ==
  ASSUME TypeInv, FamilyInv, NEW f, \A x, c \in Ptrs : f[<<x, c>>] = Finding(f, <<x, c>>),
         NEW e \in Shown \cup {0}, NEW c \in Ptrs
  PROVE  Right(e, c, f[<<e, c>>])
  <1>1. PICK R : Ranks(R)
    BY RanksExist
  <1>2. /\ \A x \in Ptrs : R[x] \in Nat
        /\ \A x \in Elems : R[first[x]] < R[x] /\ R[next[x]] < R[x]
    <2>1. MaxElems \in Nat /\ 0 .. MaxElems \subseteq Nat
      BY Numbers
    <2>2. \A x \in Ptrs : R[x] \in 0 .. MaxElems
      BY <1>1 DEF Ranks
    <2>3. \A x \in Elems : R[first[x]] < R[x] /\ R[next[x]] < R[x]
      BY <1>1 DEF Ranks
    <2>4. QED
      BY <2>1, <2>2, <2>3
  <1>3. 0 \in Ptrs /\ Shown \subseteq Ptrs /\ Shown \subseteq Elems
    BY Numbers DEF Shown, TypeInv
  <1> DEFINE Wrong(x) == ~ \A z \in Ptrs : Right(x, z, f[<<x, z>>])
             T == {R[x] : x \in {y \in Shown \cup {0} : Wrong(y)}}
  <1>4. T = {}
    <2> SUFFICES ASSUME T # {} PROVE FALSE
      OBVIOUS
    <2>1. PICK h \in T : \A j \in T : h <= j
      <3>1. T \subseteq Nat
        BY <1>2, <1>3
      <3> HIDE DEF T
      <3>2. QED
        BY <3>1, LeastNumber
    <2>2. PICK x \in Shown \cup {0} : Wrong(x) /\ R[x] = h
      BY <2>1
    <2>3. PICK z \in Ptrs : ~Right(x, z, f[<<x, z>>])
      BY <2>2
    <2>4. x \in Ptrs /\ f[<<x, z>>] = Finding(f, <<x, z>>)
      BY <1>3, <2>2
    <2>5. CASE x = 0
      <3>1. Finding(f, <<x, z>>) = [found |-> 0, current |-> z]
        BY <2>5 DEF Finding
      <3>2. All(x) = {} /\ Ahead(x, z) = {}
        BY <2>5 DEF All, Ahead
      <3>3. Right(x, z, [found |-> 0, current |-> z])
        BY <3>2 DEF Right, FirstOne
      <3>4. QED
        BY <2>3, <2>4, <3>1, <3>3
    <2>6. CASE x # 0
      <3>1. x \in Shown
        BY <2>2, <2>6
      <3>2. first[x] \in Shown \cup {0} /\ next[x] \in Shown \cup {0} /\ x \in Elems
        BY <3>1, ShownOn
      <3>3. R[first[x]] < h /\ R[next[x]] < h /\ first[x] \in Ptrs /\ next[x] \in Ptrs
        BY <1>2, <1>3, <2>2, <3>2
      <3>4. ASSUME NEW y \in Shown \cup {0}, R[y] < h PROVE \A w \in Ptrs : Right(y, w, f[<<y, w>>])
        <4>1. R[y] \notin T
          <5>1. R[y] \in Nat /\ h \in Nat
            BY <1>2, <1>3, <2>2
          <5>2. ~(h <= R[y])
            BY <3>4, <5>1
          <5> HIDE DEF T
          <5>3. QED
            BY <2>1, <5>2
        <4>2. ~Wrong(y)
          BY <4>1
        <4>3. QED
          BY <4>2
      <3>5. PICK b, d : b = f[<<first[x], z>>] /\ d = f[<<next[x], IF x = b.current THEN 0 ELSE b.current>>]
        OBVIOUS
      <3>6. Right(first[x], z, b)
        BY <3>2, <3>3, <3>4, <3>5
      <3>7. ASSUME b.found = 0 PROVE Right(next[x], IF x = b.current THEN 0 ELSE b.current, d)
        <4>1. b.current = 0 \/ b.current = z
          BY <3>6 DEF Right
        <4>2. PICK y : y = IF x = b.current THEN 0 ELSE b.current
          OBVIOUS
        <4>3. y \in Ptrs
          BY <1>3, <2>3, <4>1, <4>2
        <4>4. Right(next[x], y, f[<<next[x], y>>])
          BY <3>2, <3>3, <3>4, <4>3
        <4>5. QED
          BY <3>5, <4>2, <4>4
      <3>8. Finding(f, <<x, z>>) = Joined(x, b, d)
        BY <2>6, <3>5 DEF Finding, Joined
      <3>9. Right(x, z, Joined(x, b, d))
        BY <3>1, <3>6, <3>7, JoinedRight
      <3>10. QED
        BY <2>3, <2>4, <3>8, <3>9
    <2>7. QED
      BY <2>5, <2>6
  <1>5. R[e] \notin T
    BY <1>4
  <1>6. ~Wrong(e)
    BY <1>5
  <1>7. QED
    BY <1>6

(* From the view on, everything is looked at.                              *)
LEMMA AroundRoot ==
  ASSUME TypeInv, NEW x \in 1 .. nelems
  PROVE  \E a \in Around(x) : parent[a] = 0
  <1>1. ASSUME NEW y \in 1 .. nelems
        PROVE  parent[y] \in 0 .. y - 1 /\ parent[y] \in 0 .. nelems /\ Around(y) = {y} \cup Around(parent[y])
    BY AroundIs
  <1> DEFINE T == {y \in 1 .. nelems : ~ \E a \in Around(y) : parent[a] = 0}
  <1>2. T = {}
    <2> SUFFICES ASSUME T # {} PROVE FALSE
      OBVIOUS
    <2>1. PICK y \in T : \A j \in T : y <= j
      <3>1. T \subseteq Nat
        OBVIOUS
      <3> HIDE DEF T
      <3>2. QED
        BY <3>1, LeastNumber
    <2>2. y \in 1 .. nelems /\ \A a \in Around(y) : parent[a] # 0
      BY <2>1
    <2>3. parent[y] # 0
      BY <1>1, <2>2
    <2>4. nelems \in Nat
      BY DEF TypeInv
    <2>5. parent[y] \in 1 .. nelems /\ parent[y] < y
      BY <1>1, <2>2, <2>3, <2>4
    <2>6. \A a \in Around(parent[y]) : parent[a] # 0
      BY <1>1, <2>2
    <2>7. parent[y] \in T
      BY <2>5, <2>6
    <2>8. y <= parent[y]
      BY <2>1, <2>7
    <2>9. QED
      BY <2>2, <2>4, <2>5, <2>8
  <1>3. QED
    BY <1>2

LEMMA AllFromView ==
  ASSUME TypeInv, FamilyInv
  PROVE  FirstOf(0) \in Shown \cup {0} /\ Shown \subseteq All(FirstOf(0))
  <1>1. PICK r : r = FirstOf(0)
    OBVIOUS
  <1>2. nelems \in Nat /\ 0 \in 0 .. nelems
    BY DEF TypeInv
  <1>3. /\ r \in 0 .. nelems /\ (r # 0 => parent[r] = 0 /\ r \notin removed)
        /\ \A x \in 1 .. nelems : parent[x] = 0 /\ x \notin removed <=> r # 0 /\ (x = r \/ x \in Younger(r))
    BY <1>1, <1>2, FirstIs
  <1>4. Shown = {y \in 1 .. nelems : \A a \in Around(y) : a \notin removed}
    BY ShownIs
  <1>5. ASSUME r # 0 PROVE r \in Shown
    <2>1. r \in 1 .. nelems /\ parent[r] = 0 /\ r \notin removed
      BY <1>2, <1>3, <1>5
    <2>2. Around(r) = {r} \cup Around(0) /\ Around(0) = {}
      BY <2>1, AroundIs
    <2>3. QED
      BY <1>4, <2>1, <2>2
  <1>6. ASSUME NEW y \in Shown PROVE y \in All(r)
    <2>1. y \in 1 .. nelems /\ \A a \in Around(y) : a \notin removed
      BY <1>4
    <2>2. PICK a \in Around(y) : parent[a] = 0
      BY <2>1, AroundRoot
    <2>3. a \in 1 .. nelems /\ a \notin removed
      BY <2>1, AroundWithin
    <2>4. r # 0 /\ (a = r \/ a \in Younger(r))
      BY <1>3, <2>2, <2>3
    <2>5. QED
      BY <2>1, <2>4 DEF All
  <1>7. QED
    BY <1>1, <1>5, <1>6

LEMMA FocusFound ==
  ASSUME TypeInv, FamilyInv
  PROVE  FocusOrder
  <1>1. PICK f : /\ \A x, c \in Ptrs : f[<<x, c>>] = Finding(f, <<x, c>>)
                 /\ \A x, c \in Ptrs : FindNextEndNode(x, c) = f[<<x, c>>]
    BY FindIs
  <1>2. PICK r : r = FirstOf(0)
    OBVIOUS
  <1>3. r \in Shown \cup {0} /\ Shown \subseteq All(r)
    BY <1>2, AllFromView
  <1>4. Shown \subseteq Ptrs /\ 0 \in Ptrs /\ 0 .. nelems \subseteq Ptrs
    BY Numbers DEF Shown, TypeInv
  <1>5. r \in Ptrs
    BY <1>3, <1>4
  <1>6. PICK L : L = Shown \cap mouse
    OBVIOUS
  <1>7. ASSUME NEW x \in 0 .. nelems
        PROVE  FirstOne({e \in L : x = 0 \/ (x \in Shown /\ Before(x, e))}, FocusNext(x))
    <2>1. x \in Ptrs
      BY <1>4
    <2>2. PICK q : q = f[<<r, x>>]
      OBVIOUS
    <2>3. FocusNext(x) = q.found
      <3>1. FirstOf(0) = IF nelems = 0 THEN 0 ELSE 1
        BY DEF FirstOf
      <3>2. FocusNext(x) = FindNextEndNode(r, x).found
        BY <1>2, <3>1 DEF FocusNext
      <3>3. QED
        BY <1>1, <1>5, <2>1, <2>2, <3>2
    <2>4. Right(r, x, q)
      BY <1>1, <1>3, <2>1, <2>2, FindRight
    <2>5. All(r) \cap Shown = Shown
      BY <1>3
    <2>6. CASE x = 0 \/ x \in Shown
      <3>1. FirstOne(Ahead(r, x), q.found)
        BY <2>4, <2>5, <2>6 DEF Right
      <3>2. Ahead(r, x) = {e \in L : x = 0 \/ (x \in Shown /\ Before(x, e))}
        BY <1>6, <2>5, <2>6 DEF Ahead
      <3>3. QED
        BY <2>3, <3>1, <3>2
    <2>7. CASE ~(x = 0 \/ x \in Shown)
      <3>1. q.found = 0
        BY <2>4, <2>5, <2>7 DEF Right
      <3>2. {e \in L : x = 0 \/ (x \in Shown /\ Before(x, e))} = {}
        BY <2>7
      <3>3. QED
        BY <2>3, <3>1, <3>2 DEF FirstOne
    <2>8. QED
      BY <2>6, <2>7
  <1>8. PICK order : order = {p \in Shown \X L : Before(p[1], p[2])}
    OBVIOUS
  <1>9. \A x, e : <<x, e>> \in order <=> x \in Shown /\ e \in L /\ Before(x, e)
    BY <1>8
  <1> DEFINE Later(x) == {e \in L : x = 0 \/ <<x, e>> \in order}
  <1>10. ASSUME NEW x \in 0 .. nelems
         PROVE  /\ FocusNext(x) = 0 <=> Later(x) = {}
                /\ FocusNext(x) # 0 => /\ FocusNext(x) \in Later(x)
                                       /\ \A e \in Later(x) \ {FocusNext(x)} : <<FocusNext(x), e>> \in order
    <2>1. Later(x) = {e \in L : x = 0 \/ (x \in Shown /\ Before(x, e))}
      BY <1>9
    <2>2. PICK S, to : S = Later(x) /\ to = FocusNext(x)
      OBVIOUS
    <2>3. FirstOne(S, to)
      BY <1>7, <2>1, <2>2
    <2>4. S \subseteq L /\ L \subseteq Shown
      BY <1>6, <2>2
    <2>5. to # 0 => to \in S /\ \A e \in S \ {to} : <<to, e>> \in order
      BY <1>9, <2>3, <2>4 DEF FirstOne
    <2>6. to = 0 <=> S = {}
      BY <2>3 DEF FirstOne
    <2>7. QED
      BY <2>2, <2>5, <2>6
  <1>11. QED
    BY <1>6, <1>8, <1>10 DEF FocusOrder

(* Each press of the key moves the focus to the next element that listens  *)
(* to the mouse (xgg_find_nextendnode, xjse_xadget_focus_next), for any    *)
(* number of elements, when scripts insert and remove where the code is    *)
(* right about it.                                                         *)
THEOREM FocusOrderAlways ==
  ASSUME Env = {}
  PROVE  Spec => []FocusOrder
  <1>1. Init => TreeInv
    BY TreeInit
  <1>2. TreeInv /\ [Next]_vars => TreeInv'
    BY TreeStep
  <1>3. TreeInv => FocusOrder
    BY FocusFound DEF TreeInv, PathInv
  <1>4. QED
    BY <1>1, <1>2, <1>3, PTL DEF Spec
=============================================================================
