----------------------------- MODULE XDomProofs -----------------------------
(***************************************************************************)
(* Proofs about the nodes and the responses of XDom: for any objects,      *)
(* documents and sizes of the tables.                                      *)
(***************************************************************************)
EXTENDS XDom

-----------------------------------------------------------------------------
(* Invariants                                                              *)

(* XJSE_TREEELEM; an element was there before those that are in it.        *)
NodesInv ==
  /\ size \in 0 .. MaxNodes
  /\ parent \in [Nodes -> Ptrs] /\ first \in [Nodes -> Ptrs] /\ next \in [Nodes -> Ptrs]
  /\ up \in [Nodes -> Ptrs] /\ \A y \in Nodes : up[y] < y
  /\ dead \subseteq 1 .. size

(* XJSE_XDOMPRIV                                                           *)
TablesInv ==
  /\ nelems \in [Objs -> 0 .. MaxElems]
  /\ apelems \in [Objs -> [1 .. MaxElems -> Ptrs]]
  /\ stack \in [Objs -> [0 .. MaxLevel - 1 -> Ptrs]]
  /\ level \in [Objs -> Int]
  /\ \A o \in Objs : Ground(o) <= level[o] /\ level[o] < MaxLevel + Len(Fields)
  /\ nodelist \in [Objs -> {None} \cup Seq(Nodes)]
  /\ \A o \in Objs : nodelist[o] = None \/ Len(nodelist[o]) = nelems[o]

(* A document that is read goes into a list, on levels of its own.         *)
ReadInv ==
  /\ reading \in Objs \cup {None}
  /\ path \in Seq(0 .. size)
  /\ reading = None => path = <<>>
  /\ \A o \in Objs : reading = o => /\ nodelist[o] \in Seq(Nodes) /\ Len(nodelist[o]) = nelems[o]
                                   /\ Ground(o) + Len(path) <= level[o]

(* XJSE_XHRPRIV                                                            *)
AnswersInv ==
  /\ text \in [Xhrs -> {"none", "held", "freed"}]
  /\ streams \in [Xhrs -> 0 .. 2]

TypeInv == NodesInv /\ TablesInv /\ ReadInv /\ AnswersInv

-----------------------------------------------------------------------------
(* Objects and levels                                                      *)

LEMMA Fine == Len(Fields) = 5
  BY DEF Fields

LEMMA Grounds ==
  ASSUME NEW o \in Objs
  PROVE  Ground(o) \in {-1, 0} /\ o # None
  BY ObjsAssumption DEF Ground, Objs

LEMMA Numbers == /\ MaxNodes \in Nat /\ MaxElems \in Nat /\ MaxElems > 0
                 /\ MaxLevel \in Nat /\ MaxLevel > 0 /\ Nodes = 1 .. MaxNodes /\ Ptrs = 0 .. MaxNodes
  BY SizesAssumption DEF Nodes, Ptrs

LEMMA NodesStay ==
  ASSUME NodesInv, UNCHANGED <<size, parent, first, next, up>>, dead' \subseteq 1 .. size
  PROVE  NodesInv'
  BY DEF NodesInv

LEMMA TablesStay ==
  ASSUME TablesInv, UNCHANGED xdom
  PROVE  TablesInv'
  BY DEF TablesInv, xdom

LEMMA ReadStays ==
  ASSUME ReadInv, UNCHANGED <<size, reading, path, nodelist, nelems, level>>
  PROVE  ReadInv'
  BY DEF ReadInv

-----------------------------------------------------------------------------
(* Reading                                                                 *)

LEMMA ParseBegins ==
  ASSUME TypeInv, NEW o \in Objs, ParseXml(o)
  PROVE  TypeInv'
  <1>1. /\ reading' = o /\ reading = None
        /\ nelems' = [nelems EXCEPT ![o] = 0]
        /\ nodelist' = [nodelist EXCEPT ![o] = <<>>]
        /\ UNCHANGED <<tree, dead, apelems, level, stack, path, up, response>>
    BY DEF ParseXml, MayRead, ScriptRuns
  <1>2. NodesInv'
    BY <1>1, NodesStay DEF TypeInv, NodesInv, tree
  <1>3. TablesInv'
    <2>1. nelems' \in [Objs -> 0 .. MaxElems]
      BY <1>1, Numbers DEF TypeInv, TablesInv
    <2>2. <<>> \in Seq(Nodes) /\ Len(<<>>) = 0
      OBVIOUS
    <2>3. nodelist' \in [Objs -> {None} \cup Seq(Nodes)]
      BY <1>1, <2>2 DEF TypeInv, TablesInv
    <2>4. \A u \in Objs : nodelist'[u] = None \/ Len(nodelist'[u]) = nelems'[u]
      BY <1>1, <2>2 DEF TypeInv, TablesInv
    <2>5. \A u \in Objs : Ground(u) <= level'[u] /\ level'[u] < MaxLevel + Len(Fields)
      BY <1>1 DEF TypeInv, TablesInv
    <2>6. QED
      BY <1>1, <2>1, <2>3, <2>4, <2>5 DEF TypeInv, TablesInv
  <1>4. ReadInv'
    <2>1. path' = <<>> /\ size' = size
      BY <1>1 DEF TypeInv, ReadInv, tree
    <2>2. path' \in Seq(0 .. size') /\ Len(path') = 0
      BY <2>1
    <2>3. nodelist'[o] \in Seq(Nodes) /\ Len(nodelist'[o]) = nelems'[o]
      <3>1. nodelist'[o] = <<>> /\ nelems'[o] = 0
        BY <1>1 DEF TypeInv, TablesInv
      <3>2. QED
        BY <3>1
    <2>4. Ground(o) + Len(path') <= level'[o]
      <3>1. Ground(o) + 0 = Ground(o) /\ Ground(o) <= level[o]
        BY Grounds DEF TypeInv, TablesInv
      <3>2. QED
        BY <1>1, <2>2, <3>1
    <2>5. QED
      BY <1>1, <2>1, <2>2, <2>3, <2>4, Grounds DEF ReadInv
  <1>5. AnswersInv'
    BY <1>1 DEF TypeInv, AnswersInv, response
  <1>6. QED
    BY <1>2, <1>3, <1>4, <1>5 DEF TypeInv

(* An element begins or ends: its object has one level more or less, and   *)
(* a place of the stack, or something behind it, is written.               *)
LEMMA StackTyped ==
  ASSUME TablesInv, NEW o \in Objs, NEW l \in Int, NEW x \in Ptrs, StackSet(o, l, x)
  PROVE  stack' \in [Objs -> [0 .. MaxLevel - 1 -> Ptrs]]
  <1>1. CASE l < MaxLevel
    <2>1. stack' = [stack EXCEPT ![o][l] = x] /\ stack[o] \in [0 .. MaxLevel - 1 -> Ptrs]
      BY <1>1 DEF StackSet, TablesInv
    <2>2. [stack[o] EXCEPT ![l] = x] \in [0 .. MaxLevel - 1 -> Ptrs]
      BY <2>1
    <2>3. QED
      BY <2>1, <2>2 DEF TablesInv
  <1>2. CASE ~(l < MaxLevel)
    BY <1>2 DEF StackSet, TablesInv
  <1>3. QED
    BY <1>1, <1>2

LEMMA SeqWider ==
  ASSUME NEW S, NEW T, S \subseteq T, NEW s \in Seq(S)
  PROVE  s \in Seq(T)
  <1>1. Len(s) \in Nat /\ s \in [1 .. Len(s) -> S]
    BY LenProperties
  <1>2. s \in [1 .. Len(s) -> T]
    BY <1>1
  <1>3. QED
    BY <1>1, <1>2, SeqDef

LEMMA Longer ==
  ASSUME NEW S, NEW T, S \subseteq T, NEW s \in Seq(S), NEW x \in T
  PROVE  Append(s, x) \in Seq(T) /\ Len(Append(s, x)) = Len(s) + 1
  <1>1. s \in Seq(T)
    BY SeqWider
  <1>2. QED
    BY <1>1, AppendProperties

LEMMA Shorter ==
  ASSUME NEW S, NEW s \in Seq(S), s # <<>>
  PROVE  Front(s) \in Seq(S) /\ Len(Front(s)) = Len(s) - 1 /\ Len(s) \in Nat \ {0} /\ Last(s) \in S
  <1>1. Len(s) \in Nat \ {0}
    BY EmptySeq, LenProperties
  <1>2. Last(s) \in S
    BY <1>1 DEF Last
  <1>3. Front(s) = SubSeq(s, 1, Len(s) - 1) /\ \A i \in 1 .. Len(s) - 1 : s[i] \in S
    BY <1>1, LenProperties DEF Front
  <1>4. Front(s) \in Seq(S)
    BY <1>1, <1>3, SubSeqProperties
  <1>5. Len(Front(s)) = IF 1 <= Len(s) - 1 THEN Len(s) - 1 - 1 + 1 ELSE 0
    BY <1>1, <1>3, SubSeqProperties
  <1>6. Len(Front(s)) = Len(s) - 1
    <2>1. PICK k \in Nat \ {0} : k = Len(s)
      BY <1>1
    <2>2. (IF 1 <= k - 1 THEN k - 1 - 1 + 1 ELSE 0) = k - 1
      OBVIOUS
    <2>3. QED
      BY <1>5, <2>1, <2>2
  <1>7. QED
    BY <1>1, <1>2, <1>4, <1>6

(* In a document that is read.                                             *)
LEMMA InDocument ==
  ASSUME TypeInv, NEW o \in Objs, reading = o
  PROVE  /\ nodelist[o] \in Seq(Nodes) /\ Len(nodelist[o]) = nelems[o]
         /\ Len(path) \in Nat /\ level[o] \in Int /\ Ground(o) + Len(path) <= level[o]
         /\ path # <<>> => 0 <= level[o]
  <1>1. /\ nodelist[o] \in Seq(Nodes) /\ Len(nodelist[o]) = nelems[o]
        /\ Ground(o) + Len(path) <= level[o]
    BY DEF TypeInv, ReadInv
  <1>2. Len(path) \in Nat /\ (path # <<>> => Len(path) # 0) /\ level[o] \in Int
    <2>1. path \in Seq(0 .. size)
      BY DEF TypeInv, ReadInv
    <2>2. QED
      BY <2>1, EmptySeq, LenProperties DEF TypeInv, TablesInv
  <1>3. path # <<>> => 0 <= level[o]
    BY <1>1, <1>2, Grounds
  <1>4. QED
    BY <1>1, <1>2, <1>3

LEMMA LevelUp ==
  ASSUME TypeInv, NEW o \in Objs, Begins(o), level' = [level EXCEPT ![o] = @ + 1]
  PROVE  /\ level' \in [Objs -> Int] /\ level'[o] = level[o] + 1
         /\ \A u \in Objs : Ground(u) <= level'[u] /\ level'[u] < MaxLevel + Len(Fields)
         /\ Ground(o) + Len(path) + 1 <= level'[o]
  <1>1. reading = o /\ level[o] + 1 < MaxLevel + Len(Fields)
    <2>1. level[o] + 1 < IF "deep" \in Env THEN MaxLevel + Len(Fields) ELSE MaxLevel
      BY DEF Begins
    <2>2. PICK k, m : k = level[o] /\ m = Len(Fields)
      OBVIOUS
    <2>3. k \in Int /\ m = 5
      BY <2>2, Fine DEF TypeInv, TablesInv
    <2>4. k + 1 < MaxLevel + m
      BY <2>1, <2>2, <2>3, Numbers
    <2>5. QED
      BY <2>2, <2>4 DEF Begins
  <1>2. level \in [Objs -> Int] /\ \A u \in Objs : Ground(u) <= level[u] /\ level[u] < MaxLevel + Len(Fields)
    BY DEF TypeInv, TablesInv
  <1>3. Len(path) \in Nat /\ Ground(o) + Len(path) <= level[o] /\ Ground(o) \in Int
    BY <1>1, InDocument, Grounds
  <1>4. level' \in [Objs -> Int] /\ level'[o] = level[o] + 1
    BY <1>2
  <1>5. \A u \in Objs : u # o => level'[u] = level[u]
    BY <1>2
  <1>6. Ground(o) <= level'[o]
    BY <1>2, <1>3, <1>4
  <1>7. \A u \in Objs : Ground(u) <= level'[u] /\ level'[u] < MaxLevel + Len(Fields)
    BY <1>1, <1>2, <1>4, <1>5, <1>6
  <1>8. Ground(o) + Len(path) + 1 <= level'[o]
    BY <1>2, <1>3, <1>4
  <1>9. QED
    BY <1>4, <1>7, <1>8

(* The pointers of xjse_treeelem_family_set, for the newest node.          *)
LEMMA FamilyTyped ==
  ASSUME TypeInv, NEW o \in Objs, NEW x \in Nodes, FamilySet(o, x), level'[o] \in Int, level'[o] <= MaxLevel
  PROVE  parent' \in [Nodes -> Ptrs] /\ first' \in [Nodes -> Ptrs] /\ next' \in [Nodes -> Ptrs]
  <1>1. x \in Ptrs /\ parent \in [Nodes -> Ptrs] /\ first \in [Nodes -> Ptrs] /\ next \in [Nodes -> Ptrs]
    <2>1. x \in Ptrs
      BY Numbers
    <2>2. QED
      BY <2>1 DEF TypeInv, NodesInv
  <1>2. CASE level'[o] <= 0
    BY <1>1, <1>2 DEF FamilySet
  <1>3. CASE ~(level'[o] <= 0)
    <2>1. PICK p : p = stack[o][level'[o] - 1]
      OBVIOUS
    <2>2. p \in Ptrs
      <3>1. level'[o] - 1 \in 0 .. MaxLevel - 1
        <4>1. PICK k : k = level'[o]
          OBVIOUS
        <4>2. k \in Int /\ 0 < k /\ k <= MaxLevel
          BY <1>3, <4>1
        <4>3. QED
          BY <4>1, <4>2, Numbers
      <3>2. stack[o] \in [0 .. MaxLevel - 1 -> Ptrs]
        BY DEF TypeInv, TablesInv
      <3>3. QED
        BY <2>1, <3>1, <3>2
    <2>3. parent' = [parent EXCEPT ![x] = p]
      BY <1>3, <2>1 DEF FamilySet
    <2>4. first' = first \/ first' = [first EXCEPT ![p] = x]
      BY <1>3, <2>1 DEF FamilySet
    <2>5. next' = next \/ \E y : next' = [next EXCEPT ![y] = x]
      BY <1>3, <2>1 DEF FamilySet
    <2>6. QED
      BY <1>1, <2>2, <2>3, <2>4, <2>5
  <1>4. QED
    BY <1>2, <1>3

(* An element that gets a node.                                            *)
Refused(o) == Excess(o) \/ nelems[o] = MaxElems \/ PassesEnd(o)

LEMMA NodeMade ==
  ASSUME TypeInv, NEW o \in Objs, NEW n, StartElement(o, n), ~Refused(o)
  PROVE  /\ size + 1 \in Nodes /\ NewNode(o, n, size + 1)
         /\ FamilySet(o, size + 1) /\ StackSet(o, level'[o], size + 1)
         /\ nelems[o] + 1 <= MaxElems /\ level'[o] <= MaxLevel
  <1>1. /\ size < MaxNodes /\ NewNode(o, n, size + 1)
        /\ FamilySet(o, size + 1) /\ StackSet(o, level'[o], size + 1)
    BY DEF StartElement, Refused
  <1>2. size + 1 \in Nodes
    <2>1. size \in Int /\ 0 <= size
      BY Numbers DEF TypeInv, NodesInv
    <2>2. QED
      BY <1>1, <2>1, Numbers
  <1>3. ~(nelems[o] + 1 > MaxElems) /\ ~(level'[o] > MaxLevel)
    BY DEF Refused, Excess
  <1>4. nelems[o] + 1 \in Int /\ level'[o] \in Int
    <2>1. level' \in [Objs -> Int]
      BY LevelUp DEF StartElement
    <2>2. QED
      BY <2>1, Numbers DEF TypeInv, TablesInv
  <1>5. QED
    BY <1>1, <1>2, <1>3, <1>4, Numbers

LEMMA ElementBegins ==
  ASSUME TypeInv, NEW o \in Objs, NEW n, StartElement(o, n)
  PROVE  TypeInv'
  <1>1. /\ reading = o /\ Begins(o) /\ level' = [level EXCEPT ![o] = @ + 1]
        /\ UNCHANGED <<dead, reading, text, streams>>
    BY DEF StartElement, Begins
  <1>2. /\ level' \in [Objs -> Int] /\ level'[o] = level[o] + 1
        /\ \A u \in Objs : Ground(u) <= level'[u] /\ level'[u] < MaxLevel + Len(Fields)
        /\ Ground(o) + Len(path) + 1 <= level'[o]
    BY <1>1, LevelUp
  <1>3. /\ nodelist[o] \in Seq(Nodes) /\ Len(nodelist[o]) = nelems[o] /\ path \in Seq(0 .. size)
        /\ Len(path) \in Nat /\ Ground(o) \in Int /\ size \in Nat
    BY <1>1, InDocument, Grounds DEF TypeInv, ReadInv, NodesInv
  <1>4. AnswersInv'
    BY <1>1 DEF TypeInv, AnswersInv
  <1>5. CASE Refused(o)
    <2>1. UNCHANGED <<tree, nelems, apelems, stack, nodelist, up>> /\ path' \in {path, Append(path, 0)}
      BY <1>5 DEF StartElement, Refused
    <2>2. NodesInv'
      BY <1>1, <2>1, NodesStay DEF tree, TypeInv, NodesInv
    <2>3. TablesInv'
      BY <1>2, <2>1 DEF TypeInv, TablesInv
    <2>4. path' \in Seq(0 .. size') /\ Len(path') \in Len(path) .. Len(path) + 1
      <3>1. 0 \in 0 .. size /\ size' = size
        BY <1>3, <2>1 DEF tree
      <3>2. Append(path, 0) \in Seq(0 .. size)
        BY <1>3, <3>1, Longer
      <3>3. Len(Append(path, 0)) = Len(path) + 1
        BY <1>3, <3>1, Longer
      <3>4. QED
        BY <1>3, <2>1, <3>1, <3>2, <3>3, SMTT(30)
    <2>5. Ground(o) + Len(path') <= level'[o]
      BY <1>2, <1>3, <2>4
    <2>6. QED
      BY <1>1, <1>3, <1>4, <2>1, <2>2, <2>3, <2>4, <2>5, Grounds DEF TypeInv, ReadInv
  <1>6. CASE ~Refused(o)
    <2>1. PICK x \in Nodes : x = size + 1
      BY <1>6, NodeMade
    <2>2. NewNode(o, n, x) /\ FamilySet(o, x) /\ StackSet(o, level'[o], x)
      BY <1>6, <2>1, NodeMade
    <2>3. nelems[o] + 1 <= MaxElems /\ level'[o] <= MaxLevel
      BY <1>6, NodeMade
    <2>4. /\ size' = size + 1 /\ x \in Ptrs
          /\ nodelist' = [nodelist EXCEPT ![o] = Append(nodelist[o], x)]
          /\ nelems' = [nelems EXCEPT ![o] = nelems[o] + 1]
          /\ apelems' = [apelems EXCEPT ![o][nelems[o] + 1] = x]
          /\ up' = [up EXCEPT ![x] = IF path = <<>> THEN 0 ELSE Last(path)]
          /\ path' = Append(path, x)
      BY <2>1, <2>2, Numbers DEF NewNode
    <2>5. NodesInv'
      <3>1. PICK p : p = IF path = <<>> THEN 0 ELSE Last(path)
        OBVIOUS
      <3>2. p \in 0 .. size
        <4>1. CASE path = <<>>
          BY <1>3, <3>1, <4>1
        <4>2. CASE path # <<>>
          BY <1>3, <3>1, <4>2, Shorter
        <4>3. QED
          BY <4>1, <4>2
      <3>3. p \in Ptrs /\ p < x /\ size' \in 0 .. MaxNodes
        BY <1>3, <2>1, <2>4, <3>2, Numbers
      <3>4. up' = [up EXCEPT ![x] = p] /\ up \in [Nodes -> Ptrs] /\ \A y \in Nodes : up[y] < y
        BY <2>4, <3>1 DEF TypeInv, NodesInv
      <3>5. up' \in [Nodes -> Ptrs] /\ \A y \in Nodes : up'[y] < y
        BY <3>3, <3>4
      <3>6. parent' \in [Nodes -> Ptrs] /\ first' \in [Nodes -> Ptrs] /\ next' \in [Nodes -> Ptrs]
        BY <1>2, <2>2, <2>3, FamilyTyped
      <3>7. dead' \subseteq 1 .. size'
        <4>1. dead \subseteq 1 .. size /\ dead' = dead
          BY <1>1 DEF TypeInv, NodesInv
        <4>2. QED
          BY <1>3, <2>4, <4>1
      <3>8. QED
        BY <3>3, <3>5, <3>6, <3>7 DEF NodesInv
    <2>6. TablesInv'
      <3>1. nelems' \in [Objs -> 0 .. MaxElems]
        <4>1. nelems[o] + 1 \in 0 .. MaxElems
          BY <2>3, Numbers DEF TypeInv, TablesInv
        <4>2. QED
          BY <2>4, <4>1 DEF TypeInv, TablesInv
      <3>2. apelems' \in [Objs -> [1 .. MaxElems -> Ptrs]]
        <4>1. PICK f : f = [apelems[o] EXCEPT ![nelems[o] + 1] = x]
          OBVIOUS
        <4>2. f \in [1 .. MaxElems -> Ptrs]
          BY <2>4, <4>1 DEF TypeInv, TablesInv
        <4>3. apelems' = [apelems EXCEPT ![o] = f]
          BY <2>4, <4>1
        <4>4. QED
          BY <4>2, <4>3 DEF TypeInv, TablesInv
      <3>3. stack' \in [Objs -> [0 .. MaxLevel - 1 -> Ptrs]]
        <4>1. PICK l \in Int : l = level'[o]
          BY <1>2
        <4>2. QED
          BY <2>2, <2>4, <4>1, StackTyped DEF TypeInv
      <3>4. Append(nodelist[o], x) \in Seq(Nodes)
        BY <1>3, <2>1, Longer
      <3>5. Len(Append(nodelist[o], x)) = nelems[o] + 1
        BY <1>3, <2>1, Longer
      <3>6. nodelist' \in [Objs -> {None} \cup Seq(Nodes)]
        BY <2>4, <3>4 DEF TypeInv, TablesInv
      <3>7. \A u \in Objs : nodelist'[u] = None \/ Len(nodelist'[u]) = nelems'[u]
        BY <2>4, <3>5 DEF TypeInv, TablesInv
      <3>8. QED
        BY <1>2, <3>1, <3>2, <3>3, <3>6, <3>7 DEF TablesInv
    <2>7. ReadInv'
      <3>1. x \in 0 .. size' /\ 0 .. size \subseteq 0 .. size'
        BY <1>3, <2>1, <2>4
      <3>2. path' \in Seq(0 .. size')
        BY <1>3, <2>4, <3>1, Longer
      <3>3. Len(path') = Len(path) + 1
        BY <1>3, <2>4, <3>1, Longer
      <3>4. Ground(o) + Len(path') <= level'[o]
        BY <1>2, <1>3, <3>3
      <3>5. nodelist'[o] \in Seq(Nodes) /\ Len(nodelist'[o]) = nelems'[o]
        <4>1. Append(nodelist[o], x) \in Seq(Nodes)
          BY <1>3, <2>1, Longer
        <4>2. Len(Append(nodelist[o], x)) = nelems[o] + 1
          BY <1>3, <2>1, Longer
        <4>3. QED
          BY <2>4, <4>1, <4>2 DEF TypeInv, TablesInv
      <3>6. QED
        BY <1>1, <3>2, <3>4, <3>5, Grounds DEF ReadInv
    <2>8. QED
      BY <1>4, <2>5, <2>6, <2>7 DEF TypeInv
  <1>7. QED
    BY <1>5, <1>6

LEMMA ElementEnds ==
  ASSUME TypeInv, NEW o \in Objs, EndElement(o)
  PROVE  TypeInv' /\ Ground(o) <= level'[o] /\ 0 <= level[o]
  <1>1. /\ reading = o /\ path # <<>> /\ StackSet(o, level[o], 0)
        /\ level' = [level EXCEPT ![o] = @ - 1] /\ path' = Front(path)
        /\ UNCHANGED <<tree, dead, nelems, apelems, nodelist, reading, up, text, streams>>
    BY DEF EndElement
  <1>2. /\ nodelist[o] \in Seq(Nodes) /\ Len(nodelist[o]) = nelems[o]
        /\ level[o] \in Int /\ Ground(o) + Len(path) <= level[o] /\ 0 <= level[o]
    BY <1>1, InDocument
  <1>3. Ground(o) \in Int /\ path \in Seq(0 .. size)
    BY Grounds DEF TypeInv, ReadInv
  <1>4. Len(path) \in Nat \ {0}
    BY <1>1, <1>3, Shorter
  <1>5. path' \in Seq(0 .. size)
    BY <1>1, <1>3, Shorter
  <1>6. Len(path') = Len(path) - 1
    BY <1>1, <1>3, Shorter
  <1>7. /\ level \in [Objs -> Int]
        /\ \A u \in Objs : Ground(u) <= level[u] /\ level[u] < MaxLevel + Len(Fields)
    BY DEF TypeInv, TablesInv
  <1>8. level'[o] = level[o] - 1 /\ level' \in [Objs -> Int] /\ \A u \in Objs : u # o => level'[u] = level[u]
    BY <1>1, <1>7
  <1>9. Ground(o) + Len(path') <= level'[o]
    BY <1>2, <1>3, <1>4, <1>6, <1>8
  <1>10. Ground(o) <= level'[o] /\ level'[o] < MaxLevel + Len(Fields)
    <2>1. MaxLevel + Len(Fields) \in Int
      BY Fine, Numbers
    <2>2. level[o] - 1 < level[o] /\ level[o] < MaxLevel + Len(Fields)
      BY <1>2, <1>7
    <2>3. QED
      BY <1>2, <1>3, <1>4, <1>8, <2>1, <2>2
  <1>11. NodesInv'
    BY <1>1, NodesStay DEF tree, TypeInv, NodesInv
  <1>12. TablesInv'
    <2>1. 0 \in Ptrs
      BY Numbers
    <2>2. stack' \in [Objs -> [0 .. MaxLevel - 1 -> Ptrs]]
      <3>1. PICK l \in Int : l = level[o]
        BY <1>2
      <3>2. QED
        BY <1>1, <1>2, <2>1, <3>1, StackTyped DEF TypeInv
    <2>3. \A u \in Objs : Ground(u) <= level'[u] /\ level'[u] < MaxLevel + Len(Fields)
      BY <1>7, <1>8, <1>10
    <2>4. QED
      BY <1>1, <1>8, <2>2, <2>3 DEF TypeInv, TablesInv
  <1>13. ReadInv'
    <2>1. size' = size
      BY <1>1 DEF tree
    <2>2. QED
      BY <1>1, <1>2, <1>5, <1>9, <2>1, Grounds DEF ReadInv
  <1>14. AnswersInv'
    BY <1>1 DEF TypeInv, AnswersInv
  <1>15. QED
    BY <1>2, <1>10, <1>11, <1>12, <1>13, <1>14 DEF TypeInv

-----------------------------------------------------------------------------
(* Types                                                                   *)

(* Whatever else happens neither makes nodes nor reads.                    *)
Elsewhere ==
  /\ UNCHANGED <<tree, xdom, up>>
  /\ UNCHANGED <<reading, path>> \/ (reading' = None /\ path' = <<>>)
  /\ dead' \subseteq 1 .. size

LEMMA ElsewhereTyped ==
  ASSUME TypeInv, Elsewhere, AnswersInv'
  PROVE  TypeInv'
  <1>1. NodesInv'
    BY NodesStay DEF TypeInv, Elsewhere, tree
  <1>2. TablesInv'
    BY TablesStay DEF TypeInv, Elsewhere
  <1>3. ReadInv'
    <2>1. UNCHANGED <<size, nodelist, nelems, level>>
      BY DEF Elsewhere, tree, xdom
    <2>2. CASE UNCHANGED <<reading, path>>
      BY <2>1, <2>2, ReadStays DEF TypeInv
    <2>3. CASE reading' = None /\ path' = <<>>
      <3>1. <<>> \in Seq(0 .. size)
        OBVIOUS
      <3>2. QED
        BY <2>1, <2>3, <3>1, Grounds DEF ReadInv
    <2>4. QED
      BY <2>2, <2>3 DEF Elsewhere
  <1>4. QED
    BY <1>1, <1>2, <1>3 DEF TypeInv

LEMMA Below == \A x : Inside(x) \subseteq 1 .. size
  BY DEF Inside

LEMMA TypeInit == Init => TypeInv
  <1> SUFFICES ASSUME Init PROVE TypeInv
    OBVIOUS
  <1>1. 0 \in Ptrs /\ 0 \in 0 .. MaxNodes /\ 0 \in 0 .. MaxElems
    BY Numbers
  <1>2. NodesInv
    <2>1. \A y \in Nodes : 0 < y
      BY Numbers
    <2>2. QED
      BY <1>1, <2>1 DEF Init, NodesInv
  <1>3. TablesInv
    <2>1. \A o \in Objs : Ground(o) \in Int /\ Ground(o) <= Ground(o) /\ Ground(o) < MaxLevel + Len(Fields)
      BY Grounds, Fine, Numbers
    <2>2. QED
      BY <1>1, <2>1 DEF Init, TablesInv
  <1>4. ReadInv
    <2>1. <<>> \in Seq(0 .. size)
      OBVIOUS
    <2>2. QED
      BY <2>1, Grounds DEF Init, ReadInv
  <1>5. AnswersInv
    BY DEF Init, AnswersInv
  <1>6. QED
    BY <1>2, <1>3, <1>4, <1>5 DEF TypeInv

(* What a responseStream, a parser that has nothing to parse, a loop and   *)
(* the collector change.                                                   *)
LEMMA ElsewhereSteps ==
  ASSUME TypeInv,
         \/ \E o \in Xhrs : PutBack(o) \/ ResponseText(o) \/ ResponseStream(o) \/ FinalizeStream(o)
         \/ \E o \in Xhrs : ResponseXml(o) /\ ~ParseXml(o)
         \/ \E o \in Objs : ParseReturns(o)
         \/ \E x \in 1 .. size, n \in Names : LoopBegins(x, n)
         \/ \E o \in DomDocs, n \in Names : XdomLoopBegins(o, n)
         \/ LoopTurn \/ LoopEnds \/ Shrink
         \/ \E x \in Nodes : Collect(x)
         \/ ContextEnds
         \/ UNCHANGED vars
  PROVE  Elsewhere /\ AnswersInv'
  <1>0. dead \subseteq 1 .. size /\ AnswersInv
    BY DEF TypeInv, NodesInv
  <1>1. ASSUME NEW why, Stops(why) \/ UNCHANGED vars PROVE Elsewhere /\ AnswersInv'
    BY <1>0, <1>1 DEF Stops, vars, tree, xdom, response, Elsewhere, AnswersInv
  <1>2. CASE \E o \in Xhrs : PutBack(o)
    BY <1>0, <1>2 DEF PutBack, tree, xdom, Elsewhere, AnswersInv
  <1>3. CASE \E o \in Xhrs : ResponseText(o)
    BY <1>1, <1>3 DEF ResponseText
  <1>4. CASE \E o \in Xhrs : ResponseStream(o)
    <2>1. PICK o \in Xhrs : ResponseStream(o)
      BY <1>4
    <2>2. streams[o] + 1 \in 0 .. 2
      <3>1. PICK k \in 0 .. 2 : k = streams[o]
        BY <1>0 DEF AnswersInv
      <3>2. k < 2
        BY <2>1, <3>1 DEF ResponseStream
      <3>3. QED
        BY <3>1, <3>2
    <2>3. QED
      BY <1>0, <2>1, <2>2 DEF ResponseStream, tree, xdom, Elsewhere, AnswersInv
  <1>5. CASE \E o \in Xhrs : FinalizeStream(o)
    <2>1. PICK o \in Xhrs : FinalizeStream(o)
      BY <1>5
    <2>2. streams[o] - 1 \in 0 .. 2
      <3>1. PICK k \in 0 .. 2 : k = streams[o]
        BY <1>0 DEF AnswersInv
      <3>2. k > 0
        BY <2>1, <3>1 DEF FinalizeStream
      <3>3. QED
        BY <3>1, <3>2
    <2>3. CASE text[o] = "freed"
      BY <1>1, <2>1, <2>3 DEF FinalizeStream
    <2>4. CASE text[o] # "freed"
      BY <1>0, <2>1, <2>2, <2>4 DEF FinalizeStream, tree, xdom, Elsewhere, AnswersInv
    <2>5. QED
      BY <2>3, <2>4
  <1>6. CASE \E o \in Xhrs : ResponseXml(o) /\ ~ParseXml(o)
    BY <1>1, <1>6 DEF ResponseXml
  <1>7. CASE \E o \in Objs : ParseReturns(o)
    BY <1>0, <1>7 DEF ParseReturns, response, Elsewhere, AnswersInv
  <1>8. ASSUME NEW x, NEW n, LoopBegins(x, n) PROVE Elsewhere /\ AnswersInv'
    <2>1. CASE Inside(x) \cap dead # {}
      BY <1>1, <1>8, <2>1 DEF LoopBegins
    <2>2. CASE Inside(x) \cap dead = {}
      BY <1>0, <1>8, <2>2 DEF LoopBegins, response, Elsewhere, AnswersInv
    <2>3. QED
      BY <2>1, <2>2
  <1>9. CASE \E o \in DomDocs, n \in Names : XdomLoopBegins(o, n)
    BY <1>1, <1>8, <1>9 DEF XdomLoopBegins
  <1>10. CASE LoopTurn \/ LoopEnds \/ Shrink
    BY <1>0, <1>10 DEF LoopTurn, LoopEnds, Shrink, response, Elsewhere, AnswersInv
  <1>11. CASE \E x \in Nodes : Collect(x)
    <2>1. PICK x \in Nodes : Collect(x)
      BY <1>11
    <2>2. dead' \subseteq 1 .. size
      BY <1>0, <2>1, Below DEF Collect
    <2>3. QED
      BY <1>0, <2>1, <2>2 DEF Collect, response, Elsewhere, AnswersInv
  <1>12. CASE ContextEnds
    BY <1>0, <1>12 DEF ContextEnds, Elsewhere, AnswersInv
  <1>13. QED
    BY <1>1, <1>2, <1>3, <1>4, <1>5, <1>6, <1>7, <1>8, <1>9, <1>10, <1>11, <1>12

LEMMA TypeNext == TypeInv /\ [Next]_vars => TypeInv'
  <1> SUFFICES ASSUME TypeInv, [Next]_vars PROVE TypeInv'
    OBVIOUS
  <1>1. CASE \E o \in Objs : ParseXml(o)
    BY <1>1, ParseBegins
  <1>2. CASE \E o \in Objs, n \in Names : StartElement(o, n)
    BY <1>2, ElementBegins
  <1>3. CASE \E o \in Objs : EndElement(o)
    BY <1>3, ElementEnds
  <1>4. CASE \/ \E o \in Xhrs : PutBack(o) \/ ResponseText(o) \/ ResponseStream(o) \/ FinalizeStream(o)
             \/ \E o \in Xhrs : ResponseXml(o) /\ ~ParseXml(o)
             \/ \E o \in Objs : ParseReturns(o)
             \/ \E x \in 1 .. size, n \in Names : LoopBegins(x, n)
             \/ \E o \in DomDocs, n \in Names : XdomLoopBegins(o, n)
             \/ LoopTurn \/ LoopEnds \/ Shrink
             \/ \E x \in Nodes : Collect(x)
             \/ ContextEnds
             \/ UNCHANGED vars
    BY <1>4, ElsewhereSteps, ElsewhereTyped
  <1>5. QED
    BY <1>1, <1>2, <1>3, <1>4 DEF Next, LoadXml, Objs

(* XJSE_XDOMPRIV and XJSE_TREEELEM, for all documents and scripts: what is *)
(* counted in nelemcount is in the node list, and the level never falls    *)
(* below where it started, though elements that are refused count too.     *)
THEOREM TypeAlways == Spec => []TypeOK
  <1>1. TypeInv => TypeOK
    <2> SUFFICES ASSUME TypeInv PROVE TypeOK
      OBVIOUS
    <2>1. ASSUME NEW o \in Objs
          PROVE  /\ nelems[o] \in 0 .. MaxElems
                 /\ apelems[o] \in [1 .. MaxElems -> Ptrs]
                 /\ level[o] \in Ground(o) .. MaxLevel + Len(Fields) - 1
                 /\ stack[o] \in [0 .. MaxLevel - 1 -> Ptrs]
                 /\ nodelist[o] = None \/ Len(nodelist[o]) \in {nelems[o]}
      <3>1. level[o] \in Int /\ Ground(o) <= level[o] /\ level[o] < MaxLevel + Len(Fields) /\ Ground(o) \in Int
        BY Grounds DEF TypeInv, TablesInv
      <3>2. level[o] \in Ground(o) .. MaxLevel + Len(Fields) - 1
        BY <3>1, Fine, Numbers
      <3>3. QED
        BY <3>2 DEF TypeInv, TablesInv
    <2>2. QED
      BY <2>1 DEF TypeOK, TypeInv, NodesInv, ReadInv, AnswersInv
  <1>2. QED
    BY TypeInit, TypeNext, <1>1, PTL DEF Spec

-----------------------------------------------------------------------------
(* What is in an element                                                   *)

IsInside(f, x) == f = [y \in Ptrs |-> y # 0 /\ (up[y] = x \/ f[up[y]])]

(* Sets that have all that is in x.                                        *)
HasInside(T, x) == T \subseteq Nodes /\ \A y \in Nodes : up[y] = x \/ up[y] \in T => y \in T

LEMMA InsideExists ==
  ASSUME TypeInv, NEW x
  PROVE  \E f : IsInside(f, x)
  <1> DEFINE C == {y \in Nodes : \A T \in SUBSET Nodes : HasInside(T, x) => y \in T}
             D == {y \in Nodes : up[y] = x \/ up[y] \in C}
             f == [y \in Ptrs |-> y \in C]
  <1>1. HasInside(C, x)
    BY DEF HasInside
  <1>2. HasInside(D, x)
    BY <1>1 DEF HasInside
  <1>3. C \subseteq D
    BY <1>2
  <1>4. \A y \in Nodes : y \in C <=> (up[y] = x \/ up[y] \in C)
    <2> HIDE DEF C
    <2>1. QED
      BY <1>1, <1>3 DEF HasInside
  <1>5. 0 \notin Nodes /\ Nodes = Ptrs \ {0} /\ C \subseteq Nodes /\ \A y \in Nodes : up[y] \in Ptrs
    <2>1. 0 \notin Nodes /\ Nodes = Ptrs \ {0}
      BY Numbers
    <2>2. \A y \in Nodes : up[y] \in Ptrs
      BY DEF TypeInv, NodesInv
    <2>3. QED
      BY <2>1, <2>2
  <1>6. \A y \in Ptrs : (y \in C) = (y # 0 /\ (up[y] = x \/ f[up[y]]))
    <2> HIDE DEF C
    <2>1. ASSUME NEW y \in Nodes PROVE (y \in C) = (y # 0 /\ (up[y] = x \/ f[up[y]]))
      <3>1. f[up[y]] = (up[y] \in C)
        BY <1>5
      <3> HIDE DEF f
      <3>2. (y \in C) <=> (up[y] = x \/ f[up[y]])
        BY <1>4, <3>1
      <3>3. QED
        BY <1>5, <3>2
    <2>2. (0 \in C) = (0 # 0 /\ (up[0] = x \/ f[up[0]]))
      BY <1>5
    <2>3. QED
      BY <1>5, <2>1, <2>2
  <1>7. f = [y \in Ptrs |-> y # 0 /\ (up[y] = x \/ f[up[y]])]
    <2> HIDE DEF C
    <2>1. QED
      BY <1>6
  <1>8. QED
    BY <1>7 DEF IsInside

LEMMA InsideIs ==
  ASSUME TypeInv, NEW x
  PROVE  \E f : IsInside(f, x) /\ Inside(x) = {y \in 1 .. size : f[y]}
  <1> DEFINE in[y \in Ptrs] == y # 0 /\ (up[y] = x \/ in[up[y]])
             Q(g) == IsInside(g, x)
  <1>1. in = CHOOSE g : Q(g)
    BY DEF IsInside
  <1>2. Inside(x) = {y \in 1 .. size : in[y]}
    BY DEF Inside
  <1>3. PICK f : Q(f)
    BY InsideExists
  <1> HIDE DEF Q, in
  <1>4. Q(CHOOSE g : Q(g))
    BY <1>3, Zenon
  <1>5. QED
    BY <1>1, <1>2, <1>4 DEF Q

(* What is in x is an element of x, or of one that is in it.               *)
LEMMA InsideUp ==
  ASSUME TypeInv, NEW x, NEW y \in Inside(x)
  PROVE  y \in Nodes /\ y <= size /\ up[y] < y /\ (up[y] = x \/ up[y] \in Inside(x))
  <1>1. PICK f : IsInside(f, x) /\ Inside(x) = {z \in 1 .. size : f[z]}
    BY InsideIs
  <1>2. /\ \A z \in Ptrs : f[z] = (z # 0 /\ (up[z] = x \/ f[up[z]]))
        /\ y \in 1 .. size /\ f[y]
    BY <1>1 DEF IsInside
  <1>3. /\ size \in 0 .. MaxNodes /\ up \in [Nodes -> Ptrs] /\ \A z \in Nodes : up[z] < z
    BY DEF TypeInv, NodesInv
  <1>4. y \in Nodes /\ y \in Ptrs /\ y <= size /\ y \in Int
    BY <1>2, <1>3, Numbers
  <1>5. up[y] < y /\ up[y] \in Ptrs
    BY <1>3, <1>4
  <1>6. up[y] = x \/ f[up[y]]
    BY <1>2, <1>4
  <1>7. ASSUME f[up[y]] PROVE up[y] \in Inside(x)
    <2>1. up[y] # 0
      BY <1>2, <1>5, <1>7
    <2>2. up[y] \in 1 .. size
      BY <1>3, <1>4, <1>5, <2>1, Numbers
    <2>3. QED
      BY <1>1, <1>7, <2>2
  <1>8. QED
    BY <1>4, <1>5, <1>6, <1>7

(* What is in x is not dead when x is not, if what dies with an element is *)
(* all that is in it.                                                      *)
DeadInv == \A y \in dead : up[y] = 0 \/ up[y] \in dead

LEMMA AliveInside ==
  ASSUME TypeInv, DeadInv, NEW x, x # 0, x \notin dead
  PROVE  Inside(x) \cap dead = {}
  <1> DEFINE T == Inside(x) \cap dead
  <1> SUFFICES ASSUME T # {} PROVE FALSE
    OBVIOUS
  <1>1. T \subseteq Nat
    <2>1. \A y \in Inside(x) : y \in Nodes
      BY InsideUp
    <2>2. QED
      BY <2>1, Numbers
  <1>2. PICK m \in T : \A k \in T : m <= k
    <2> HIDE DEF T
    <2>1. QED
      BY <1>1, LeastNumber
  <1>3. m \in Inside(x) /\ m \in dead
    BY <1>2
  <1>4. m \in Nodes /\ up[m] < m /\ (up[m] = x \/ up[m] \in Inside(x))
    BY <1>3, InsideUp
  <1>5. up[m] = 0 \/ up[m] \in dead
    BY <1>3 DEF DeadInv
  <1>6. up[m] \in Inside(x) /\ up[m] # 0
    <2>1. up[m] # x \/ up[m] = 0
      BY <1>5
    <2>2. up[m] \in Inside(x)
      BY <1>4, <2>1
    <2>3. up[m] \in Nodes
      BY <2>2, InsideUp
    <2>4. QED
      BY <2>2, <2>3, Numbers
  <1>7. up[m] \in T
    BY <1>5, <1>6
  <1>8. m <= up[m] /\ m \in Int /\ up[m] \in Int
    BY <1>1, <1>2, <1>7
  <1>9. QED
    BY <1>4, <1>8

-----------------------------------------------------------------------------
(* Memory                                                                  *)

(* The document that is read begins in a table that is not full.           *)
SafeInv ==
  /\ fault = "none"
  /\ DeadInv
  /\ \A o \in Objs : level[o] < MaxLevel
  /\ \A o \in Objs : reading = o /\ apelems[o][MaxElems] # 0 => nelems[o] = MaxElems
  /\ \A o \in Xhrs : streams[o] \in 0 .. 1 /\ (text[o] = "freed" => ended /\ streams[o] = 0)

(* Documents are complete and not too deep, scripts wait for the response  *)
(* and read its stream once, and hold the trees they use.                  *)
Sound == Env \cap {"stale", "deep", "early", "twice", "collect"} = {}

LEMMA SafeInit == Init => SafeInv
  <1> SUFFICES ASSUME Init PROVE SafeInv
    OBVIOUS
  <1>1. \A o \in Objs : level[o] < MaxLevel
    <2>1. \A o \in Objs : Ground(o) < MaxLevel
      BY Grounds, Numbers
    <2>2. QED
      BY <2>1 DEF Init
  <1>2. \A o \in Objs : reading # o
    BY Grounds DEF Init
  <1>3. QED
    BY <1>1, <1>2 DEF Init, SafeInv, DeadInv

LEMMA SafeParse ==
  ASSUME Sound, TypeInv, SafeInv, NEW o \in Objs, ParseXml(o)
  PROVE  SafeInv'
  <1>1. apelems[o][MaxElems] = 0
    BY DEF ParseXml, MayRead, Sound
  <1>2. /\ reading' = o /\ nelems' = [nelems EXCEPT ![o] = 0]
        /\ UNCHANGED <<tree, dead, apelems, level, up, response, fault>>
    BY DEF ParseXml
  <1>3. QED
    BY <1>1, <1>2 DEF SafeInv, DeadInv, response

LEMMA SafeBegins ==
  ASSUME Sound, TypeInv, SafeInv, NEW o \in Objs, NEW n, StartElement(o, n)
  PROVE  SafeInv'
  <1>1. /\ reading = o /\ Begins(o) /\ level' = [level EXCEPT ![o] = @ + 1]
        /\ UNCHANGED <<dead, reading, text, streams, ended>>
    BY DEF StartElement, Begins
  <1>2. level[o] + 1 < MaxLevel /\ level'[o] = level[o] + 1 /\ level' \in [Objs -> Int]
    BY <1>1, LevelUp DEF Begins, Sound
  <1>3. \A u \in Objs : level'[u] < MaxLevel
    BY <1>1, <1>2 DEF SafeInv, TypeInv, TablesInv
  <1>4. nelems[o] \in 0 .. MaxElems /\ apelems[o] \in [1 .. MaxElems -> Ptrs]
    BY DEF TypeInv, TablesInv
  <1>5. CASE Excess(o)
    <2>1. UNCHANGED <<tree, nelems, apelems, up, fault>>
      BY <1>5 DEF StartElement
    <2>2. QED
      BY <1>1, <1>3, <2>1 DEF SafeInv, DeadInv
  <1>6. CASE ~Excess(o)
    <2>1. nelems[o] + 1 <= MaxElems
      BY <1>4, <1>6, Numbers DEF Excess
    <2>2. nelems[o] # MaxElems
      BY <1>4, <2>1, Numbers
    <2>3. apelems[o][MaxElems] = 0
      BY <1>1, <2>2 DEF SafeInv
    <2>4. MaxElems \in 1 .. MaxElems
      BY Numbers
    <2>5. ~PassesEnd(o)
      <3>1. MaxElems \notin Searched(o)
        BY <2>3, <2>4 DEF Searched
      <3>2. QED
        BY <2>4, <3>1 DEF PassesEnd
    <2>6. ~Refused(o)
      BY <1>6, <2>2, <2>5 DEF Refused
    <2>7. PICK x \in Nodes : x = size + 1
      BY <2>6, NodeMade
    <2>8. NewNode(o, n, x) /\ StackSet(o, level'[o], x)
      BY <2>6, <2>7, NodeMade
    <2>9. fault' = fault
      BY <1>2, <2>8 DEF StackSet
    <2>10. /\ nelems' = [nelems EXCEPT ![o] = nelems[o] + 1]
           /\ apelems' = [apelems EXCEPT ![o][nelems[o] + 1] = x]
           /\ \E p : up' = [up EXCEPT ![x] = p]
      BY <2>8 DEF NewNode
    <2>11. apelems'[o][MaxElems] # 0 => nelems'[o] = MaxElems
      <3>1. PICK f : f = [apelems[o] EXCEPT ![nelems[o] + 1] = x]
        OBVIOUS
      <3>2. apelems'[o] = f
        BY <2>10, <3>1 DEF TypeInv, TablesInv
      <3>3. MaxElems # nelems[o] + 1 => f[MaxElems] = apelems[o][MaxElems]
        BY <1>4, <2>4, <3>1
      <3>4. nelems'[o] = nelems[o] + 1
        BY <2>10 DEF TypeInv, TablesInv
      <3>5. QED
        BY <2>3, <3>2, <3>3, <3>4
    <2>12. DeadInv'
      <3>1. x \notin dead
        <4>1. dead \subseteq 1 .. size /\ size \in Nat
          BY Numbers DEF TypeInv, NodesInv
        <4>2. QED
          BY <2>7, <4>1
      <3>2. \A y \in dead : up'[y] = up[y]
        BY <2>10, <3>1 DEF TypeInv, NodesInv
      <3>3. QED
        BY <1>1, <3>2 DEF SafeInv, DeadInv
    <2>13. QED
      BY <1>1, <1>3, <2>9, <2>11, <2>12, Grounds DEF SafeInv
  <1>7. QED
    BY <1>5, <1>6

LEMMA SafeEnds ==
  ASSUME Sound, TypeInv, SafeInv, NEW o \in Objs, EndElement(o)
  PROVE  SafeInv'
  <1>1. /\ StackSet(o, level[o], 0) /\ level' = [level EXCEPT ![o] = @ - 1]
        /\ UNCHANGED <<dead, nelems, apelems, reading, up, text, streams, ended>>
    BY DEF EndElement
  <1>2. level \in [Objs -> Int] /\ \A u \in Objs : level[u] < MaxLevel
    BY DEF SafeInv, TypeInv, TablesInv
  <1>3. fault' = fault
    BY <1>1, <1>2 DEF StackSet
  <1>4. \A u \in Objs : level'[u] < MaxLevel
    BY <1>1, <1>2, Numbers
  <1>5. QED
    BY <1>1, <1>3, <1>4 DEF SafeInv, DeadInv

LEMMA SafeLoop ==
  ASSUME Sound, TypeInv, SafeInv, NEW x, x # 0, NEW n, LoopBegins(x, n)
  PROVE  UNCHANGED <<tree, dead, xdom, reading, up, response, fault>>
  <1>1. Inside(x) \cap dead = {}
    BY AliveInside DEF LoopBegins, SafeInv
  <1>2. QED
    BY <1>1 DEF LoopBegins

LEMMA SafeStays ==
  ASSUME SafeInv, UNCHANGED <<dead, xdom, up, response, fault>>, reading' \in {reading, None}
  PROVE  SafeInv'
  <1>1. UNCHANGED <<nelems, apelems, level, text, streams, ended>>
    BY DEF xdom, response
  <1>2. \A o \in Objs : reading' = o => reading = o
    BY Grounds
  <1>3. QED
    BY <1>1, <1>2 DEF SafeInv, DeadInv

LEMMA SafeCollect ==
  ASSUME Sound, TypeInv, SafeInv, NEW x \in Nodes, Collect(x)
  PROVE  SafeInv'
  <1>1. /\ up[x] = 0 /\ dead' = dead \cup {x} \cup Inside(x)
        /\ UNCHANGED <<xdom, reading, up, response, fault>>
    BY DEF Collect, Sound
  <1>2. ASSUME NEW y \in dead' PROVE up[y] = 0 \/ up[y] \in dead'
    <2>1. CASE y \in dead
      BY <1>1, <2>1 DEF SafeInv, DeadInv
    <2>2. CASE y = x
      BY <1>1, <2>2
    <2>3. CASE y \in Inside(x)
      BY <1>1, <2>3, InsideUp
    <2>4. QED
      BY <1>1, <1>2, <2>1, <2>2, <2>3
  <1>3. DeadInv'
    BY <1>1, <1>2 DEF DeadInv
  <1>4. QED
    BY <1>1, <1>3 DEF SafeInv, xdom, response

LEMMA SafeAnswers ==
  ASSUME Sound, TypeInv, SafeInv, NEW o \in Xhrs,
         PutBack(o) \/ ResponseText(o) \/ ResponseStream(o) \/ FinalizeStream(o)
  PROVE  SafeInv'
  <1>1. streams[o] \in 0 .. 1 /\ (text[o] = "freed" => ended /\ streams[o] = 0)
    BY DEF SafeInv
  <1>2. CASE PutBack(o)
    <2>1. text' = [text EXCEPT ![o] = "held"] /\ UNCHANGED <<dead, xdom, up, reading, streams, ended, fault>>
      BY <1>2 DEF PutBack
    <2>2. QED
      BY <2>1 DEF SafeInv, DeadInv, xdom, TypeInv, AnswersInv
  <1>3. CASE ResponseText(o)
    <2>1. UNCHANGED vars
      BY <1>1, <1>3 DEF ResponseText, ScriptRuns
    <2>2. QED
      BY <2>1, SafeStays DEF vars, xdom, response
  <1>4. CASE ResponseStream(o)
    <2>1. text[o] # "freed" /\ ~ended
      BY <1>1, <1>4 DEF ResponseStream, ScriptRuns
    <2>2. streams' = [streams EXCEPT ![o] = 1]
      <3>1. streams[o] < 1 /\ streams' = [streams EXCEPT ![o] = streams[o] + 1]
        BY <1>4 DEF ResponseStream, Sound
      <3>2. streams[o] + 1 = 1
        BY <1>1, <3>1
      <3>3. QED
        BY <3>1, <3>2
    <2>3. UNCHANGED <<dead, xdom, up, reading, text, ended, fault>>
      BY <1>4 DEF ResponseStream
    <2>4. QED
      BY <2>1, <2>2, <2>3 DEF SafeInv, DeadInv, xdom, TypeInv, AnswersInv
  <1>5. CASE FinalizeStream(o)
    <2>1. text[o] # "freed" /\ ended
      <3>1. streams[o] # 0
        <4>1. PICK k \in 0 .. 1 : k = streams[o]
          BY <1>1
        <4>2. k > 0
          BY <1>5, <4>1 DEF FinalizeStream
        <4>3. QED
          BY <4>1, <4>2
      <3>2. QED
        BY <1>1, <1>5, <3>1 DEF FinalizeStream, Sound
    <2>2. /\ text' = [text EXCEPT ![o] = "freed"] /\ streams' = [streams EXCEPT ![o] = streams[o] - 1]
          /\ UNCHANGED <<dead, xdom, up, reading, ended, fault>>
      BY <1>5, <2>1 DEF FinalizeStream
    <2>3. streams[o] - 1 = 0
      <3>1. streams[o] > 0
        BY <1>5 DEF FinalizeStream
      <3>2. QED
        BY <1>1, <3>1
    <2>4. QED
      BY <2>1, <2>2, <2>3 DEF SafeInv, DeadInv, xdom, TypeInv, AnswersInv
  <1>6. QED
    BY <1>2, <1>3, <1>4, <1>5

LEMMA SafeNext == Sound /\ TypeInv /\ SafeInv /\ [Next]_vars => SafeInv'
  <1> SUFFICES ASSUME Sound, TypeInv, SafeInv, [Next]_vars PROVE SafeInv'
    OBVIOUS
  <1>1. CASE \E o \in Xhrs : PutBack(o) \/ ResponseText(o) \/ ResponseStream(o) \/ FinalizeStream(o)
    BY <1>1, SafeAnswers
  <1>2. CASE \E o \in Xhrs : ResponseXml(o)
    <2>1. PICK o \in Xhrs : ResponseXml(o)
      BY <1>2
    <2>2. ReadyState(o) = 4
      BY <2>1 DEF ResponseXml, Sound
    <2>3. CASE text[o] = "held"
      <3>1. ParseXml(o)
        BY <2>1, <2>2, <2>3 DEF ResponseXml
      <3>2. QED
        BY <3>1, SafeParse DEF Objs
    <2>4. CASE text[o] # "held"
      <3>1. text[o] = "freed"
        BY <2>2, <2>4 DEF ReadyState, TypeInv, AnswersInv
      <3>2. ended /\ ~ended
        BY <2>1, <2>4, <3>1 DEF ResponseXml, ScriptRuns, SafeInv
      <3>3. QED
        BY <3>2
    <2>5. QED
      BY <2>3, <2>4
  <1>3. CASE \E o \in DomDocs : LoadXml(o)
    BY <1>3, SafeParse DEF LoadXml, Objs
  <1>4. CASE \E o \in Objs, n \in Names : StartElement(o, n)
    BY <1>4, SafeBegins
  <1>5. CASE \E o \in Objs : EndElement(o)
    BY <1>5, SafeEnds
  <1>6. CASE \E x \in 1 .. size, n \in Names : LoopBegins(x, n)
    <2>1. PICK x \in 1 .. size, n \in Names : LoopBegins(x, n)
      BY <1>6
    <2>2. x # 0
      BY Numbers DEF TypeInv, NodesInv
    <2>3. QED
      BY <2>1, <2>2, SafeLoop, SafeStays
  <1>7. CASE \E o \in DomDocs, n \in Names : XdomLoopBegins(o, n)
    <2>1. PICK o \in DomDocs, n \in Names : XdomLoopBegins(o, n)
      BY <1>7
    <2>2. nodelist[o] # <<>> /\ nodelist[o] # None /\ LoopBegins(nodelist[o][1], n)
      BY <2>1 DEF XdomLoopBegins, Sound
    <2>3. nodelist[o] \in Seq(Nodes)
      BY <2>2 DEF TypeInv, TablesInv, Objs
    <2>4. Len(nodelist[o]) \in Nat \ {0}
      BY <2>2, <2>3, Shorter
    <2>5. nodelist[o][1] # 0
      BY <2>3, <2>4, Numbers
    <2>6. QED
      BY <2>2, <2>5, SafeLoop, SafeStays
  <1>8. CASE \E x \in Nodes : Collect(x)
    BY <1>8, SafeCollect
  <1>9. CASE ContextEnds
    BY <1>9 DEF ContextEnds, SafeInv, DeadInv, xdom
  <1>10. CASE \/ \E o \in Objs : ParseReturns(o)
              \/ LoopTurn \/ LoopEnds \/ Shrink
              \/ UNCHANGED vars
    <2>1. UNCHANGED <<dead, xdom, up, response, fault>> /\ reading' \in {reading, None}
      BY <1>10 DEF ParseReturns, LoopTurn, LoopEnds, Shrink, vars
    <2>2. QED
      BY <2>1, SafeStays
  <1>11. QED
    BY <1>1, <1>2, <1>3, <1>4, <1>5, <1>6, <1>7, <1>8, <1>9, <1>10 DEF Next

(* xjse_xhr.c, xgg_dom.c and xgg.c, for any numbers of objects and nodes   *)
(* and any limits: when documents are complete and not too deep, responses *)
(* are asked for when they are there and their stream once, no buffer is   *)
(* used or freed after it has been freed, the table is never passed, and   *)
(* no loop meets a node that has been collected.                           *)
THEOREM NoFaultAlways ==
  ASSUME Sound
  PROVE  Spec => []NoFault
  <1>1. TypeInv /\ SafeInv /\ [Next]_vars => (TypeInv /\ SafeInv)'
    BY TypeNext, SafeNext
  <1>2. SafeInv => NoFault
    BY DEF SafeInv, NoFault
  <1>3. QED
    BY TypeInit, SafeInit, <1>1, <1>2, PTL DEF Spec

-----------------------------------------------------------------------------
(* The links of a document                                                 *)

(* The links are those of the document, and the numbers of nodes its       *)
(* order.                                                                  *)
FirstRight(p) ==
  IF first[p] = 0 THEN \A z \in Nodes : up[z] # p
  ELSE first[p] \in Nodes /\ up[first[p]] = p /\ \A z \in Nodes : up[z] = p => first[p] <= z

NextRight(y) ==
  IF next[y] = 0 THEN \A z \in Nodes : up[z] = up[y] => z <= y
  ELSE up[next[y]] = up[y] /\ \A z \in Nodes : up[z] = up[y] /\ y < z => next[y] <= z

LinksInv ==
  /\ parent = up
  /\ DOMAIN name = Nodes
  /\ \A y \in Nodes : y > size => up[y] = 0 /\ first[y] = 0 /\ next[y] = 0
  /\ \A y \in Nodes : next[y] # 0 => y < next[y] /\ next[y] <= size
  /\ \A p \in Nodes : FirstRight(p)
  /\ \A y \in Nodes : up[y] # 0 => NextRight(y)
  /\ \A y, z \in Nodes : up[y] < z /\ z < y => up[y] <= up[z]

-----------------------------------------------------------------------------
(* The order of the document                                               *)

(* A child is inside, and so is what is in something inside.               *)
LEMMA InsideDown ==
  ASSUME TypeInv, NEW x, NEW y \in 1 .. size, up[y] = x \/ up[y] \in Inside(x)
  PROVE  y \in Inside(x)
  <1>1. PICK f : IsInside(f, x) /\ Inside(x) = {z \in 1 .. size : f[z]}
    BY InsideIs
  <1>2. \A z \in Ptrs : f[z] = (z # 0 /\ (up[z] = x \/ f[up[z]]))
    BY <1>1 DEF IsInside
  <1>3. y \in Ptrs /\ y # 0
    BY Numbers DEF TypeInv, NodesInv
  <1>4. up[y] = x \/ f[up[y]]
    BY <1>1
  <1>5. QED
    BY <1>1, <1>2, <1>3, <1>4

LEMMA Made ==
  ASSUME TypeInv, LinksInv
  PROVE  /\ \A y \in Nodes : y \in Nat \ {0} /\ up[y] \in Nat /\ up[y] < y /\ up[y] \in Ptrs
         /\ \A y \in Nodes : up[y] # 0 => up[y] \in Nodes /\ y \in 1 .. size
         /\ Nodes \subseteq Nat /\ 0 \notin Nodes /\ size \in Nat /\ 1 .. size \subseteq Nodes
  <1>1. /\ size \in 0 .. MaxNodes /\ up \in [Nodes -> Ptrs] /\ \A y \in Nodes : up[y] < y
        /\ \A y \in Nodes : y > size => up[y] = 0
    BY DEF TypeInv, NodesInv, LinksInv
  <1>2. Nodes \subseteq Nat /\ 0 \notin Nodes /\ size \in Nat /\ 1 .. size \subseteq Nodes
    BY <1>1, Numbers
  <1>3. ASSUME NEW y \in Nodes
        PROVE  /\ y \in Nat \ {0} /\ up[y] \in Nat /\ up[y] < y /\ up[y] \in Ptrs
               /\ up[y] # 0 => up[y] \in Nodes /\ y \in 1 .. size
    <2>1. up[y] \in Ptrs /\ up[y] < y /\ (y > size => up[y] = 0)
      BY <1>1
    <2>2. y \in Nat \ {0} /\ up[y] \in Nat /\ y \in 1 .. MaxNodes
      BY <2>1, Numbers
    <2>3. up[y] # 0 => up[y] \in Nodes /\ y \in 1 .. size
      BY <1>2, <2>1, <2>2, Numbers
    <2>4. QED
      BY <2>1, <2>2, <2>3
  <1>4. QED
    BY <1>2, <1>3

(* What is inside comes later.                                             *)
LEMMA Later ==
  ASSUME TypeInv, LinksInv, NEW c \in Nodes
  PROVE  Inside(c) \subseteq 1 .. size /\ \A z \in Inside(c) : c < z /\ z \in Nodes /\ z \in Nat
  <1> DEFINE T == {z \in Inside(c) : ~(c < z)}
  <1>1. \A z \in Inside(c) : z \in Nodes /\ z \in Nat /\ z <= size /\ z \in 1 .. size
    BY InsideUp, Made
  <1>2. T = {}
    <2> SUFFICES ASSUME T # {} PROVE FALSE
      OBVIOUS
    <2>1. T \subseteq Nat
      BY <1>1
    <2>2. PICK m \in T : \A k \in T : m <= k
      <3> HIDE DEF T
      <3>1. QED
        BY <2>1, LeastNumber
    <2>3. up[m] < m /\ (up[m] = c \/ up[m] \in Inside(c)) /\ m \in Nat /\ c \in Nat /\ ~(c < m) /\ m \in Nodes
      BY <1>1, <2>2, InsideUp, Made
    <2>4. up[m] # c /\ up[m] \in Nat
      BY <2>3, Made
    <2>5. up[m] \in T
      BY <2>3, <2>4
    <2>6. QED
      BY <2>2, <2>3, <2>4, <2>5
  <1>3. QED
    BY <1>1, <1>2

(* What comes between an element and something in it, is in it.            *)
LEMMA Interval ==
  ASSUME TypeInv, LinksInv, NEW c \in Nodes, NEW z \in Inside(c), NEW w \in Nodes, c < w, w < z
  PROVE  w \in Inside(c)
  <1> DEFINE W == {v \in Nodes : c < v /\ v \notin Inside(c)}
  <1> SUFFICES ASSUME w \notin Inside(c) PROVE FALSE
    OBVIOUS
  <1>1. W \subseteq Nat /\ w \in W
    BY Made
  <1>2. PICK m \in W : \A k \in W : m <= k
    <2> HIDE DEF W
    <2>1. QED
      BY <1>1, LeastNumber
  <1> DEFINE Z == {v \in Inside(c) : m < v}
  <1>3. m \in Nodes /\ c < m /\ m \notin Inside(c) /\ m <= w /\ m \in Nat /\ c \in Nat /\ w \in Nat /\ z \in Nat
    BY <1>1, <1>2, Later, Made
  <1>4. z \in Z /\ Z \subseteq Nat
    <2>1. Z \subseteq Nat
      BY Later
    <2>2. QED
      BY <1>3, <2>1
  <1>5. PICK v \in Z : \A k \in Z : v <= k
    <2> HIDE DEF Z, W
    <2>1. QED
      BY <1>4, LeastNumber
  <1>6. v \in Inside(c) /\ v \in Nodes /\ v \in Nat /\ m < v /\ v <= size /\ (up[v] = c \/ up[v] \in Inside(c))
    BY <1>5, InsideUp, Made
  <1>7. up[v] \in Nat /\ up[v] < v /\ c <= up[v] /\ up[m] \in Nat /\ up[m] < m
    <2>1. up[v] \in Inside(c) => c < up[v]
      BY Later
    <2>2. QED
      BY <1>3, <1>6, <2>1, Made
  <1>8. up[v] <= m
    <2> SUFFICES ASSUME m < up[v] PROVE FALSE
      BY <1>3, <1>7
    <2>1. up[v] \in Z
      BY <1>3, <1>6
    <2>2. v <= up[v]
      <3> HIDE DEF Z, W
      <3>1. QED
        BY <1>5, <2>1
    <2>3. QED
      BY <1>6, <1>7, <2>2
  <1>9. up[v] # m
    BY <1>3, <1>6
  <1>10. up[v] <= up[m]
    BY <1>3, <1>6, <1>7, <1>8, <1>9 DEF LinksInv
  <1>11. m \in 1 .. size
    BY <1>3, <1>6, Made
  <1>12. up[m] # c /\ up[m] \notin Inside(c)
    BY <1>3, <1>11, InsideDown
  <1>13. up[m] \in W
    <2>1. c < up[m]
      BY <1>3, <1>7, <1>10, <1>12
    <2>2. up[m] \in Nodes
      BY <1>3, <1>7, <2>1, Made
    <2>3. QED
      BY <1>12, <2>1, <2>2
  <1>14. m <= up[m]
    <2> HIDE DEF W
    <2>1. QED
      BY <1>2, <1>13
  <1>15. QED
    BY <1>3, <1>7, <1>14

LEMMA InsideInside ==
  ASSUME TypeInv, LinksInv, NEW x \in Nodes, NEW y \in Inside(x)
  PROVE  Inside(y) \subseteq Inside(x)
  <1> DEFINE T == {z \in Inside(y) : z \notin Inside(x)}
  <1> SUFFICES ASSUME T # {} PROVE FALSE
    OBVIOUS
  <1>1. y \in Nodes
    BY Later
  <1>2. T \subseteq Nat
    BY <1>1, Later
  <1>3. PICK m \in T : \A k \in T : m <= k
    <2> HIDE DEF T
    <2>1. QED
      BY <1>2, LeastNumber
  <1>4. m \in Nodes /\ m <= size /\ up[m] < m /\ (up[m] = y \/ up[m] \in Inside(y)) /\ m \notin Inside(x)
    BY <1>3, InsideUp
  <1>5. m \in 1 .. size /\ up[m] \in Nat /\ m \in Nat
    BY <1>4, Made
  <1>6. up[m] # y /\ up[m] \notin Inside(x)
    BY <1>4, <1>5, InsideDown
  <1>7. up[m] \in T
    BY <1>4, <1>6
  <1>8. QED
    BY <1>3, <1>4, <1>5, <1>7

(* What an element is in with its younger siblings and what is in them:    *)
(* the walk of xgg_getelemsbytagname from y.                               *)
Beneath(y) == IF y = 0 THEN {} ELSE {z \in Inside(up[y]) : y <= z}

LEMMA InsideIsBelow ==
  ASSUME TypeInv, LinksInv, NEW x \in Nodes
  PROVE  Inside(x) = Beneath(first[x]) /\ (first[x] # 0 => first[x] \in Nodes /\ up[first[x]] = x)
  <1>1. FirstRight(x)
    BY DEF LinksInv
  <1>2. Inside(x) \subseteq Nat /\ \A z \in Inside(x) : z \in Nodes
    BY Later
  <1>3. CASE first[x] = 0
    <2>1. Inside(x) = {}
      <3> SUFFICES ASSUME Inside(x) # {} PROVE FALSE
        OBVIOUS
      <3>1. PICK m \in Inside(x) : \A k \in Inside(x) : m <= k
        BY <1>2, LeastNumber
      <3>2. m \in Nodes /\ up[m] < m /\ (up[m] = x \/ up[m] \in Inside(x))
        BY <3>1, InsideUp
      <3>3. up[m] # x
        BY <1>1, <1>3, <3>2 DEF FirstRight
      <3>4. m <= up[m] /\ m \in Nat /\ up[m] \in Nat
        BY <1>2, <3>1, <3>2, <3>3
      <3>5. QED
        BY <3>2, <3>4
    <2>2. QED
      BY <1>3, <2>1 DEF Beneath
  <1>4. CASE first[x] # 0
    <2>1. first[x] \in Nodes /\ up[first[x]] = x /\ \A z \in Nodes : up[z] = x => first[x] <= z
      BY <1>1, <1>4 DEF FirstRight
    <2> DEFINE T == {z \in Inside(x) : ~(first[x] <= z)}
    <2>2. T = {}
      <3> SUFFICES ASSUME T # {} PROVE FALSE
        OBVIOUS
      <3>1. T \subseteq Nat
        BY <1>2
      <3>2. PICK m \in T : \A k \in T : m <= k
        <4> HIDE DEF T
        <4>1. QED
          BY <3>1, LeastNumber
      <3>3. m \in Nodes /\ up[m] < m /\ (up[m] = x \/ up[m] \in Inside(x)) /\ ~(first[x] <= m)
        BY <3>2, InsideUp
      <3>4. m \in Nat /\ up[m] \in Nat /\ first[x] \in Nat
        BY <2>1, <3>3, Made
      <3>5. up[m] \in Inside(x)
        BY <2>1, <3>3
      <3>6. up[m] \in T
        BY <3>3, <3>4, <3>5
      <3>7. m <= up[m]
        <4> HIDE DEF T
        <4>1. QED
          BY <3>2, <3>6
      <3>8. QED
        BY <3>3, <3>4, <3>7
    <2>3. Beneath(first[x]) = {z \in Inside(x) : first[x] <= z}
      BY <1>4, <2>1 DEF Beneath
    <2>4. QED
      BY <2>1, <2>2, <2>3
  <1>5. QED
    BY <1>3, <1>4

(* An element, what is in it, and what comes after that.                   *)
LEMMA BelowIs ==
  ASSUME TypeInv, LinksInv, NEW y \in Nodes, up[y] # 0
  PROVE  /\ Beneath(y) = {y} \cup Inside(y) \cup Beneath(next[y])
         /\ \A z \in Inside(y) : y < z
         /\ next[y] # 0 => next[y] \in Nodes /\ up[next[y]] = up[y] /\ y < next[y]
         /\ \A w \in Beneath(next[y]) : y < w /\ \A z \in Inside(y) : z < w
  <1> DEFINE c == up[y]
             N == next[y]
  <1>1. c \in Nodes /\ y \in 1 .. size /\ y \in Nat /\ c \in Nat /\ c < y /\ y \in Inside(c)
    <2>1. c \in Nodes /\ y \in 1 .. size /\ y \in Nat /\ c < y
      BY Made
    <2>2. y \in Inside(c)
      BY <2>1, InsideDown
    <2>3. QED
      BY <2>1, <2>2, Made
  <1>2. NextRight(y)
    BY DEF LinksInv
  <1>3. N # 0 => N \in Nodes /\ N \in Nat /\ N \in 1 .. size /\ up[N] = c /\ y < N
    <2> SUFFICES ASSUME N # 0 PROVE N \in Nodes /\ N \in Nat /\ N \in 1 .. size /\ up[N] = c /\ y < N
      OBVIOUS
    <2>1. y < N /\ N <= size /\ up[N] = c
      BY <1>2 DEF LinksInv, NextRight
    <2>2. N \in Ptrs
      BY DEF TypeInv, NodesInv
    <2>3. N \in 1 .. size /\ N \in Nodes
      BY <1>1, <2>1, <2>2, Made, Numbers
    <2>4. QED
      BY <2>1, <2>3, Made
  <1>4. Inside(y) \subseteq Inside(c) /\ Inside(c) \subseteq Nat /\ (\A z \in Inside(y) : y < z)
    BY <1>1, InsideInside, Later
  <1>5. Beneath(y) = {z \in Inside(c) : y <= z}
    BY <1>1, Made DEF Beneath
  <1>6. Beneath(N) = IF N = 0 THEN {} ELSE {z \in Inside(c) : N <= z}
    BY <1>3 DEF Beneath
  <1> HIDE DEF c, N
  <1>7. \A z \in Inside(y) : N # 0 => z < N
    <2> SUFFICES ASSUME NEW z \in Inside(y), N # 0, ~(z < N) PROVE FALSE
      OBVIOUS
    <2>1. z \in Nat /\ N <= z
      BY <1>3, <1>4
    <2>2. N \in Inside(y)
      BY <1>3, <2>1, Interval
    <2>3. up[N] = y \/ up[N] \in Inside(y)
      BY <2>2, InsideUp
    <2>4. QED
      BY <1>1, <1>3, <1>4, <2>3
  <1> DEFINE T == {z \in Inside(c) : y < z /\ z \notin Inside(y) /\ (N = 0 \/ z < N)}
  <1>8. T = {}
    <2> SUFFICES ASSUME T # {} PROVE FALSE
      OBVIOUS
    <2>1. T \subseteq Nat
      BY <1>4
    <2>2. PICK m \in T : \A k \in T : m <= k
      <3> HIDE DEF T
      <3>1. QED
        BY <2>1, LeastNumber
    <2>3. m \in Inside(c) /\ y < m /\ m \notin Inside(y) /\ (N = 0 \/ m < N)
      BY <2>2
    <2>4. m \in Nodes /\ m <= size /\ up[m] < m /\ (up[m] = c \/ up[m] \in Inside(c))
      BY <2>3, InsideUp
    <2>5. m \in Nat /\ m \in 1 .. size /\ up[m] \in Nat
      BY <2>4, Made
    <2>6. up[m] # c
      BY <1>2, <1>3, <2>3, <2>4, <2>5 DEF NextRight, c, N
    <2>7. up[m] # y /\ up[m] \notin Inside(y)
      BY <2>3, <2>5, InsideDown
    <2>8. c < up[m] /\ up[m] \in Inside(c)
      BY <1>1, <2>4, <2>6, Later
    <2>9. ~(up[m] < y)
      <3> SUFFICES ASSUME up[m] < y PROVE FALSE
        OBVIOUS
      <3>1. up[m] <= up[y]
        BY <2>3, <2>4 DEF LinksInv
      <3>2. QED
        BY <1>1, <2>5, <2>8, <3>1 DEF c
    <2>10. y < up[m] /\ (N = 0 \/ up[m] < N)
      BY <1>1, <1>3, <2>3, <2>4, <2>5, <2>7, <2>9
    <2>11. up[m] \in T
      BY <2>7, <2>8, <2>10
    <2>12. m <= up[m]
      <3> HIDE DEF T
      <3>1. QED
        BY <2>2, <2>11
    <2>13. QED
      BY <2>4, <2>5, <2>12
  <1>9. \A z : z \in Beneath(y) <=> z \in {y} \cup Inside(y) \cup Beneath(N)
    <2>1. ASSUME NEW z \in Beneath(y) PROVE z \in {y} \cup Inside(y) \cup Beneath(N)
      <3>1. z \in Inside(c) /\ y <= z /\ z \in Nat
        BY <1>4, <1>5
      <3>2. z = y \/ z \in Inside(y) \/ ~(N = 0 \/ z < N)
        BY <1>1, <1>8, <3>1
      <3>3. ~(N = 0 \/ z < N) => z \in Beneath(N)
        BY <1>3, <1>6, <3>1
      <3>4. QED
        BY <3>2, <3>3
    <2>2. y \in Beneath(y)
      BY <1>1, <1>5
    <2>3. ASSUME NEW z \in Inside(y) PROVE z \in Beneath(y)
      <3>1. z \in Inside(c) /\ y < z /\ z \in Nat
        BY <1>4
      <3>2. QED
        BY <1>1, <1>5, <3>1
    <2>4. ASSUME NEW z \in Beneath(N) PROVE z \in Beneath(y)
      <3>1. N # 0 /\ z \in Inside(c) /\ N <= z /\ z \in Nat
        BY <1>4, <1>6
      <3>2. y <= z
        BY <1>1, <1>3, <3>1
      <3>3. QED
        BY <1>5, <3>1, <3>2
    <2>5. QED
      BY <2>1, <2>2, <2>3, <2>4
  <1>10. ASSUME NEW w \in Beneath(N) PROVE y < w /\ \A z \in Inside(y) : z < w
    <2>1. N # 0 /\ w \in Inside(c) /\ N <= w /\ w \in Nat
      BY <1>4, <1>6
    <2>2. y < w
      BY <1>1, <1>3, <2>1
    <2>3. ASSUME NEW z \in Inside(y) PROVE z < w
      <3>1. z < N /\ z \in Nat
        BY <1>4, <1>7, <2>1
      <3>2. QED
        BY <1>3, <2>1, <3>1
    <2>4. QED
      BY <2>2, <2>3
  <1>11. Beneath(y) = {y} \cup Inside(y) \cup Beneath(N)
    BY <1>9
  <1>12. QED
    BY <1>3, <1>4, <1>10, <1>11 DEF N, c

-----------------------------------------------------------------------------
(* Lists of nodes                                                          *)

(* s has the nodes of S, once each, in the order of the document.          *)
Lists(s, S) ==
  /\ s \in Seq(Nodes)
  /\ \A i, j \in 1 .. Len(s) : i < j => s[i] < s[j]
  /\ \A z : z \in S <=> \E i \in 1 .. Len(s) : s[i] = z

LEMMA ListsNone == Lists(<<>>, {})
  BY DEF Lists

LEMMA ListsOne ==
  ASSUME NEW y \in Nodes
  PROVE  Lists(<<y>>, {y})
  BY DEF Lists

LEMMA ListsBoth ==
  ASSUME NEW s, NEW S, NEW t, NEW T, Lists(s, S), Lists(t, T), \A a \in S, b \in T : a < b
  PROVE  Lists(s \o t, S \cup T)
  <1> DEFINE r == s \o t
             m == Len(s)
             n == Len(t)
  <1>1. /\ s \in Seq(Nodes) /\ t \in Seq(Nodes) /\ m \in Nat /\ n \in Nat
        /\ \A i \in 1 .. m : s[i] \in S /\ s[i] \in Nodes
        /\ \A i \in 1 .. n : t[i] \in T /\ t[i] \in Nodes
    BY LenProperties, ElementOfSeq DEF Lists
  <1>2. r \in Seq(Nodes) /\ Len(r) = m + n
    BY <1>1, ConcatProperties
  <1>3. \A i \in 1 .. m + n : r[i] = IF i <= m THEN s[i] ELSE t[i - m]
    BY <1>1, ConcatProperties
  <1>4. /\ \A i, j \in 1 .. m : i < j => s[i] < s[j]
        /\ \A i, j \in 1 .. n : i < j => t[i] < t[j]
        /\ \A z : z \in S <=> \E i \in 1 .. m : s[i] = z
        /\ \A z : z \in T <=> \E i \in 1 .. n : t[i] = z
    BY DEF Lists
  <1> HIDE DEF m, n, r
  <1>5. ASSUME NEW i \in 1 .. m + n, NEW j \in 1 .. m + n, i < j PROVE r[i] < r[j]
    <2>1. CASE j <= m
      <3>1. i \in 1 .. m /\ j \in 1 .. m /\ i <= m
        BY <1>1, <1>5, <2>1
      <3>2. r[i] = s[i] /\ r[j] = s[j]
        BY <1>3, <2>1, <3>1
      <3>3. QED
        BY <1>4, <1>5, <3>1, <3>2
    <2>2. CASE i <= m /\ ~(j <= m)
      <3>1. i \in 1 .. m /\ j - m \in 1 .. n
        BY <1>1, <1>5, <2>2
      <3>2. r[i] = s[i] /\ r[j] = t[j - m]
        BY <1>3, <2>2
      <3>3. s[i] \in S /\ t[j - m] \in T
        BY <1>1, <3>1
      <3>4. QED
        BY <3>2, <3>3
    <2>3. CASE ~(i <= m)
      <3>1. i - m \in 1 .. n /\ j - m \in 1 .. n /\ i - m < j - m /\ ~(j <= m)
        BY <1>1, <1>5, <2>3
      <3>2. r[i] = t[i - m] /\ r[j] = t[j - m]
        BY <1>3, <2>3, <3>1
      <3>3. QED
        BY <1>4, <3>1, <3>2
    <2>4. QED
      BY <1>1, <2>1, <2>2, <2>3
  <1>6. ASSUME NEW z \in S \cup T PROVE \E i \in 1 .. m + n : r[i] = z
    <2>1. CASE z \in S
      <3>1. PICK i \in 1 .. m : s[i] = z
        BY <1>4, <2>1
      <3>2. i \in 1 .. m + n /\ i <= m
        BY <1>1, <3>1
      <3>3. QED
        BY <1>3, <3>1, <3>2
    <2>2. CASE z \in T
      <3>1. PICK i \in 1 .. n : t[i] = z
        BY <1>4, <2>2
      <3>2. i + m \in 1 .. m + n /\ ~(i + m <= m) /\ (i + m) - m = i
        BY <1>1, <3>1
      <3>3. r[i + m] = z
        BY <1>3, <3>1, <3>2
      <3>4. QED
        BY <3>2, <3>3
    <2>3. QED
      BY <2>1, <2>2
  <1>7. ASSUME NEW i \in 1 .. m + n PROVE r[i] \in S \cup T
    <2>1. CASE i <= m
      <3>1. i \in 1 .. m /\ r[i] = s[i]
        BY <1>1, <1>3, <2>1
      <3>2. QED
        BY <1>1, <3>1
    <2>2. CASE ~(i <= m)
      <3>1. i - m \in 1 .. n /\ r[i] = t[i - m]
        BY <1>1, <1>3, <2>2
      <3>2. QED
        BY <1>1, <3>1
    <2>3. QED
      BY <2>1, <2>2
  <1>8. Lists(r, S \cup T)
    <2>1. \A z : z \in S \cup T <=> \E i \in 1 .. Len(r) : r[i] = z
      BY <1>2, <1>6, <1>7
    <2>2. \A i, j \in 1 .. Len(r) : i < j => r[i] < r[j]
      BY <1>2, <1>5
    <2>3. QED
      BY <1>2, <2>1, <2>2 DEF Lists
  <1>9. QED
    BY <1>8 DEF r

LEMMA ListLength ==
  ASSUME NEW s, NEW S, Lists(s, S)
  PROVE  Len(s) \in Nat /\ Cardinality(S) = Len(s)
  <1>1. s \in [1 .. Len(s) -> Nodes] /\ Len(s) \in Nat
    BY LenProperties DEF Lists
  <1> DEFINE n == Len(s)
  <1>2. \A i, j \in 1 .. n : s[i] = s[j] => i = j
    <2> SUFFICES ASSUME NEW i \in 1 .. n, NEW j \in 1 .. n, s[i] = s[j], i # j PROVE FALSE
      OBVIOUS
    <2>1. s[i] \in Nat /\ s[j] \in Nat
      BY <1>1, Numbers
    <2>2. i < j \/ j < i
      BY <1>1
    <2>3. s[i] < s[j] \/ s[j] < s[i]
      BY <2>2 DEF Lists
    <2>4. QED
      BY <2>1, <2>3
  <1>3. s \in Bijection(1 .. n, S)
    <2>1. s \in [1 .. n -> S] /\ \A z \in S : \E i \in 1 .. n : s[i] = z
      BY <1>1 DEF Lists
    <2> HIDE DEF n
    <2>2. QED
      BY <1>2, <2>1 DEF Bijection, Injection, Surjection, IsInjective
  <1>4. ExistsBijection(1 .. n, S)
    BY <1>3 DEF ExistsBijection
  <1>5. QED
    BY <1>1, <1>4, FS_CountingElements

-----------------------------------------------------------------------------
(* The walk of xgg_getelemsbytagname                                       *)

Own(y, n) == IF name[y] = n THEN <<y>> ELSE <<>>

VisitFrom(f, n, y) == IF y = 0 THEN <<>> ELSE Own(y, n) \o f[first[y]] \o f[next[y]]

IsVisit(f, n) == f = [y \in Ptrs |-> VisitFrom(f, n, y)]

LEMMA Forward ==
  ASSUME TypeInv, LinksInv, NEW y \in Nodes
  PROVE  /\ first[y] \in Ptrs /\ first[y] \in Nat /\ (first[y] # 0 => y < first[y])
         /\ next[y] \in Ptrs /\ next[y] \in Nat /\ (next[y] # 0 => y < next[y])
         /\ y \in Nat /\ y # 0 /\ y \in Ptrs
  <1>1. first[y] \in Ptrs /\ next[y] \in Ptrs
    BY DEF TypeInv, NodesInv
  <1>2. first[y] \in Nat /\ next[y] \in Nat /\ y \in Nat /\ y # 0 /\ y \in Ptrs
    BY <1>1, Numbers
  <1>3. next[y] # 0 => y < next[y]
    BY DEF LinksInv
  <1>4. ASSUME first[y] # 0 PROVE y < first[y]
    <2>1. first[y] \in Nodes /\ up[first[y]] = y
      BY <1>4, InsideIsBelow
    <2>2. QED
      BY <2>1, Made
  <1>5. QED
    BY <1>1, <1>2, <1>3, <1>4

(* The recursion ends, as it goes to later nodes.                          *)
LEMMA VisitExists ==
  ASSUME TypeInv, LinksInv, NEW n
  PROVE  \E f : IsVisit(f, n)
  <1> DEFINE Upto(g, m) == /\ g = [y \in Ptrs |-> g[y]]
                           /\ \A y \in Ptrs : y = 0 \/ m < y => g[y] = VisitFrom(g, n, y)
             G == {m \in 0 .. MaxNodes : \E g : Upto(g, m)}
  <1>1. G \subseteq Nat /\ MaxNodes \in G
    <2>1. G \subseteq Nat /\ MaxNodes \in 0 .. MaxNodes
      BY Numbers
    <2> DEFINE g == [y \in Ptrs |-> <<>>]
    <2>2. \A y \in Ptrs : y = 0 \/ MaxNodes < y => g[y] = VisitFrom(g, n, y)
      BY Numbers DEF VisitFrom
    <2>3. Upto(g, MaxNodes)
      BY <2>2
    <2>4. QED
      BY <2>1, <2>3
  <1>2. PICK m \in G : \A k \in G : m <= k
    <2> HIDE DEF G
    <2>1. QED
      BY <1>1, LeastNumber
  <1>3. PICK g : Upto(g, m)
    BY <1>2
  <1>4. m = 0
    <2> SUFFICES ASSUME m # 0 PROVE FALSE
      OBVIOUS
    <2> DEFINE h == [y \in Ptrs |-> IF y = m THEN VisitFrom(g, n, m) ELSE g[y]]
    <2>1. m \in Nodes /\ m \in Nat /\ m - 1 \in 0 .. MaxNodes /\ ~(m <= m - 1)
      BY <1>2, Numbers
    <2>2. ASSUME NEW y \in Nodes, y = m \/ m < y PROVE VisitFrom(h, n, y) = VisitFrom(g, n, y)
      <3>1. first[y] \in Ptrs /\ next[y] \in Ptrs /\ first[y] # m /\ next[y] # m
        BY <2>1, <2>2, Forward
      <3>2. h[first[y]] = g[first[y]] /\ h[next[y]] = g[next[y]]
        BY <3>1
      <3> HIDE DEF h
      <3>3. QED
        BY <3>2 DEF VisitFrom
    <2>3. ASSUME NEW y \in Ptrs, y = 0 \/ m - 1 < y PROVE h[y] = VisitFrom(h, n, y)
      <3>1. CASE y = 0
        <4>1. h[y] = g[y] /\ g[y] = VisitFrom(g, n, y)
          BY <1>3, <2>1, <3>1
        <4>2. QED
          BY <3>1, <4>1 DEF VisitFrom
      <3>2. CASE y # 0
        <4>1. y \in Nodes /\ (y = m \/ m < y)
          BY <2>1, <2>3, <3>2, Numbers
        <4>2. VisitFrom(h, n, y) = VisitFrom(g, n, y)
          BY <2>2, <4>1
        <4>3. h[y] = VisitFrom(g, n, y)
          <5>1. CASE y = m
            BY <5>1
          <5>2. CASE y # m
            BY <1>3, <4>1, <5>2
          <5>3. QED
            BY <5>1, <5>2
        <4>4. QED
          BY <4>2, <4>3
      <3>3. QED
        BY <3>1, <3>2
    <2>4. h = [y \in Ptrs |-> h[y]]
      OBVIOUS
    <2> HIDE DEF h
    <2>5. Upto(h, m - 1)
      BY <2>3, <2>4
    <2>6. m - 1 \in G
      BY <2>1, <2>5
    <2>7. m <= m - 1
      <3> HIDE DEF G, Upto
      <3>1. QED
        BY <1>2, <2>6
    <2>8. QED
      BY <2>1, <2>7
  <1>5. \A y \in Ptrs : g[y] = VisitFrom(g, n, y)
    <2>1. \A y \in Ptrs : y = 0 \/ m < y
      BY <1>4, Numbers
    <2>2. QED
      BY <1>3, <2>1
  <1>6. g = [y \in Ptrs |-> VisitFrom(g, n, y)]
    BY <1>3, <1>5
  <1>7. QED
    BY <1>6 DEF IsVisit

LEMMA VisitIs ==
  ASSUME TypeInv, LinksInv, NEW x, NEW n
  PROVE  \E f : IsVisit(f, n) /\ GetElementsByTagName(x, n) = f[first[x]]
  <1> DEFINE from[y \in Ptrs] ==
               IF y = 0 THEN <<>>
               ELSE (IF name[y] = n THEN <<y>> ELSE <<>>) \o from[first[y]] \o from[next[y]]
             Q(g) == IsVisit(g, n)
  <1>1. from = CHOOSE g : Q(g)
    BY DEF IsVisit, VisitFrom, Own
  <1>2. GetElementsByTagName(x, n) = from[first[x]]
    BY DEF GetElementsByTagName
  <1>3. PICK f : Q(f)
    BY VisitExists
  <1> HIDE DEF Q, from
  <1>4. Q(CHOOSE g : Q(g))
    BY <1>3, Zenon
  <1>5. QED
    BY <1>1, <1>2, <1>4 DEF Q

OfName(S, n) == {z \in S : name[z] = n}

LEMMA Walked ==
  ASSUME TypeInv, LinksInv, NEW n, NEW f, IsVisit(f, n), NEW y \in Ptrs, y = 0 \/ up[y] # 0
  PROVE  Lists(f[y], OfName(Beneath(y), n))
  <1> DEFINE Right(w) == w \in Ptrs /\ (w = 0 \/ (w \in Nodes /\ up[w] # 0)) => Lists(f[w], OfName(Beneath(w), n))
             T == {k \in 0 .. MaxNodes : ~Right(MaxNodes - k)}
  <1>1. \A w \in Ptrs : f[w] = VisitFrom(f, n, w)
    BY DEF IsVisit
  <1>2. Right(0)
    <2>1. f[0] = <<>>
      BY <1>1, Numbers DEF VisitFrom
    <2>2. OfName(Beneath(0), n) = {}
      BY DEF OfName, Beneath
    <2>3. QED
      BY <2>1, <2>2, ListsNone
  <1>3. ASSUME NEW w \in Nodes, up[w] # 0, \A v \in Ptrs : w < v => Right(v)
        PROVE  Lists(f[w], OfName(Beneath(w), n))
    <2> DEFINE A == OfName(Beneath(first[w]), n)
               B == OfName(Beneath(next[w]), n)
               C == OfName({w}, n)
    <2>1. /\ first[w] \in Ptrs /\ (first[w] # 0 => w < first[w])
          /\ next[w] \in Ptrs /\ (next[w] # 0 => w < next[w])
          /\ w \in Nat /\ w # 0 /\ w \in Ptrs
      BY Forward
    <2>2. Inside(w) = Beneath(first[w]) /\ (first[w] # 0 => first[w] \in Nodes /\ up[first[w]] = w)
      BY InsideIsBelow
    <2>3. Lists(f[first[w]], A)
      <3>1. Right(first[w])
        BY <1>2, <1>3, <2>1
      <3>2. QED
        BY <2>1, <2>2, <3>1
    <2>4. /\ Beneath(w) = {w} \cup Inside(w) \cup Beneath(next[w])
          /\ \A z \in Inside(w) : w < z
          /\ next[w] # 0 => next[w] \in Nodes /\ up[next[w]] = up[w]
          /\ \A v \in Beneath(next[w]) : w < v /\ \A z \in Inside(w) : z < v
      BY <1>3, BelowIs
    <2>5. Lists(f[next[w]], B)
      <3>1. Right(next[w])
        BY <1>2, <1>3, <2>1
      <3>2. QED
        BY <1>3, <2>1, <2>4, <3>1
    <2>6. Lists(Own(w, n), C)
      <3>1. CASE name[w] = n
        <4>1. Own(w, n) = <<w>> /\ C = {w}
          BY <3>1 DEF Own, OfName
        <4>2. QED
          BY <4>1, ListsOne
      <3>2. CASE name[w] # n
        <4>1. Own(w, n) = <<>> /\ C = {}
          BY <3>2 DEF Own, OfName
        <4>2. QED
          BY <4>1, ListsNone
      <3>3. QED
        BY <3>1, <3>2
    <2>7. /\ \A a \in C, b \in A : a < b
          /\ \A a \in C \cup A, b \in B : a < b
      BY <2>2, <2>4 DEF OfName
    <2>8. f[w] = (Own(w, n) \o f[first[w]]) \o f[next[w]]
      BY <1>1, <2>1 DEF VisitFrom
    <2>9. OfName(Beneath(w), n) = (C \cup A) \cup B
      BY <2>2, <2>4 DEF OfName
    <2> HIDE DEF A, B, C
    <2>10. Lists(Own(w, n) \o f[first[w]], C \cup A)
      BY <2>3, <2>6, <2>7, ListsBoth
    <2>11. Lists((Own(w, n) \o f[first[w]]) \o f[next[w]], (C \cup A) \cup B)
      BY <2>5, <2>7, <2>10, ListsBoth
    <2>12. QED
      BY <2>8, <2>9, <2>11
  <1>4. T = {}
    <2> SUFFICES ASSUME T # {} PROVE FALSE
      OBVIOUS
    <2>1. T \subseteq Nat
      OBVIOUS
    <2>2. PICK k \in T : \A j \in T : k <= j
      <3> HIDE DEF T
      <3>1. QED
        BY <2>1, LeastNumber
    <2>3. PICK w : w = MaxNodes - k
      OBVIOUS
    <2>4. ~Right(w) /\ k \in 0 .. MaxNodes
      BY <2>2, <2>3
    <2>5. w \in Nodes /\ up[w] # 0
      BY <1>2, <2>4
    <2>6. ASSUME NEW v \in Ptrs, w < v PROVE Right(v)
      <3>1. MaxNodes - v \in 0 .. MaxNodes /\ ~(k <= MaxNodes - v) /\ MaxNodes - (MaxNodes - v) = v
        BY <2>3, <2>4, <2>6, Numbers
      <3>2. MaxNodes - v \notin T
        <4> HIDE DEF T
        <4>1. QED
          BY <2>2, <3>1
      <3> HIDE DEF Right
      <3>3. QED
        BY <3>1, <3>2
    <2>7. QED
      BY <1>3, <2>4, <2>5, <2>6
  <1>5. Right(y)
    <2>1. MaxNodes - y \in 0 .. MaxNodes /\ MaxNodes - (MaxNodes - y) = y
      BY Numbers
    <2>2. MaxNodes - y \notin T
      BY <1>4
    <2> HIDE DEF Right
    <2>3. QED
      BY <2>1, <2>2
  <1>6. y = 0 \/ y \in Nodes
    BY Numbers
  <1>7. QED
    BY <1>5, <1>6

(* xgg_getelemsbytagname finds the elements of that name inside x, in the  *)
(* order of the document.                                                  *)
LEMMA Found ==
  ASSUME TypeInv, LinksInv, NEW x \in Nodes, NEW n
  PROVE  Lists(GetElementsByTagName(x, n), Named(x, n))
  <1>1. PICK f : IsVisit(f, n) /\ GetElementsByTagName(x, n) = f[first[x]]
    BY VisitIs
  <1>2. Inside(x) = Beneath(first[x]) /\ (first[x] # 0 => first[x] \in Nodes /\ up[first[x]] = x)
    BY InsideIsBelow
  <1>3. first[x] \in Ptrs /\ x # 0
    BY Forward
  <1>4. Lists(f[first[x]], OfName(Beneath(first[x]), n))
    BY <1>1, <1>2, <1>3, Walked
  <1>5. OfName(Beneath(first[x]), n) = Named(x, n)
    BY <1>2 DEF OfName, Named
  <1>6. QED
    BY <1>1, <1>4, <1>5

-----------------------------------------------------------------------------
(* The document that is open                                               *)

LEMMA FrontIs ==
  ASSUME NEW S, NEW l \in Seq(S)
  PROVE  \A i \in 1 .. Len(l) - 1 : Front(l)[i] = l[i]
  <1> SUFFICES ASSUME NEW i \in 1 .. Len(l) - 1 PROVE Front(l)[i] = l[i]
    OBVIOUS
  <1>1. Len(l) \in Nat
    BY LenProperties
  <1>2. PICK m : m = Len(l) - 1
    OBVIOUS
  <1>3. 1 \in Int /\ m \in Int /\ \A k \in 1 .. m : l[k] \in S
    <2>1. \A k \in 1 .. m : k \in 1 .. Len(l)
      BY <1>1, <1>2
    <2>2. \A k \in 1 .. m : l[k] \in S
      BY <2>1, ElementOfSeq
    <2>3. QED
      BY <1>1, <1>2, <2>2
  <1>4. \A k \in 1 .. m - 1 + 1 : SubSeq(l, 1, m)[k] = l[1 + k - 1]
    BY <1>3, SubSeqProperties
  <1>5. i \in 1 .. m - 1 + 1 /\ 1 + i - 1 = i
    BY <1>1, <1>2
  <1>6. Front(l) = SubSeq(l, 1, m)
    BY <1>2 DEF Front
  <1>7. QED
    BY <1>4, <1>5, <1>6

(* Entries, stacks and lists have nodes that have been made.               *)
StacksInv ==
  \A o \in Objs :
    /\ \A i \in 1 .. MaxElems : apelems[o][i] <= size
    /\ o \in DomDocs => stack[o][0] = 0
    /\ level[o] < MaxLevel
    /\ nodelist[o] # None \/ reading = o => \A i \in 1 .. Len(nodelist[o]) : nodelist[o][i] <= size

(* The document that is read has the newest nodes, in the order of the     *)
(* table, and all that has come since the tag of an open element is in it. *)
Opened(o) ==
  LET old == size - nelems[o] IN
    /\ 0 <= old
    /\ \A i \in 1 .. nelems[o] : apelems[o][i] = old + i
    /\ level[o] = Ground(o) + Len(path)
    /\ \A k \in 1 .. Len(path) :
         /\ path[k] # 0 => stack[o][Ground(o) + k] = path[k]
         /\ path[k] = 0 => nelems[o] = MaxElems
         /\ path[k] # 0 => old < path[k]
         /\ path[k] # 0 => \A z \in Nodes : path[k] < z /\ z <= size => path[k] <= up[z]
         /\ \A j \in 1 .. k : path[k] # 0 => path[j] # 0 /\ path[j] <= path[k]
OpenInv == Runs => \A o \in Objs : reading = o => Opened(o)

(* Documents are complete and not too deep.                                *)
Orderly == Env \cap {"stale", "deep"} = {}

-----------------------------------------------------------------------------
(* A new node                                                              *)

(* The element the new node is in.                                         *)
Around == IF path = <<>> THEN 0 ELSE Last(path)

(* What xjse_treeelem_family_set makes of the links, for the new node x    *)
(* in p: y is its elder sibling, or 0.                                     *)
Linked(x, p, y) ==
  /\ x = size + 1 /\ size' = x
  /\ up' = [up EXCEPT ![x] = p] /\ parent' = up'
  /\ first' = IF p # 0 /\ first[p] = 0 THEN [first EXCEPT ![p] = x] ELSE first
  /\ next' = IF y = 0 THEN next ELSE [next EXCEPT ![y] = x]
  /\ y # 0 => y \in Nodes /\ y <= size /\ up[y] = p /\ next[y] = 0
  /\ p # 0 /\ (\E z \in Nodes : up[z] = p) => y # 0

LEMMA AroundIs ==
  ASSUME TypeInv, LinksInv, NEW o \in Objs, reading = o, Opened(o), nelems[o] < MaxElems
  PROVE  /\ Around \in 0 .. size
         /\ path # <<>> => /\ Around = path[Len(path)] /\ Len(path) \in Nat \ {0} /\ Around # 0
         /\ Around # 0 => /\ Around \in Nodes /\ path # <<>> /\ size - nelems[o] < Around
                          /\ \A z \in Nodes : Around < z /\ z <= size => Around <= up[z]
                          /\ \A j \in 1 .. Len(path) : path[j] # 0 /\ path[j] <= Around
  <1>1. path \in Seq(0 .. size) /\ size \in Nat /\ 1 .. size \subseteq Nodes
    BY Made DEF TypeInv, ReadInv
  <1>2. CASE path = <<>>
    BY <1>1, <1>2 DEF Around
  <1>3. CASE path # <<>>
    <2> DEFINE k == Len(path)
    <2>1. k \in Nat \ {0} /\ Last(path) \in 0 .. size
      BY <1>1, <1>3, Shorter
    <2>2. Around = path[k] /\ k \in 1 .. Len(path)
      BY <1>3, <2>1 DEF Around, Last
    <2>3. Around \in 0 .. size
      BY <1>3, <2>1 DEF Around
    <2>4. nelems[o] # MaxElems
      BY Numbers DEF TypeInv, TablesInv
    <2>5. path[k] # 0
      BY <2>2, <2>4 DEF Opened
    <2>6. /\ size - nelems[o] < path[k]
          /\ \A z \in Nodes : path[k] < z /\ z <= size => path[k] <= up[z]
          /\ \A j \in 1 .. k : path[j] # 0 /\ path[j] <= path[k]
      BY <2>2, <2>5 DEF Opened
    <2>7. Around \in Nodes
      BY <1>1, <2>2, <2>3, <2>5
    <2>8. QED
      BY <1>3, <2>1, <2>2, <2>3, <2>5, <2>6, <2>7
  <1>4. QED
    BY <1>2, <1>3

(* The last child of an element.                                           *)
LEMMA LastChild ==
  ASSUME TypeInv, LinksInv, NEW p \in Nodes, NEW w \in Nodes, up[w] = p
  PROVE  \E y \in Nodes : up[y] = p /\ next[y] = 0
  <1> DEFINE T == {k \in 0 .. MaxNodes : MaxNodes - k \in Nodes /\ up[MaxNodes - k] = p}
  <1>1. MaxNodes - w \in 0 .. MaxNodes /\ MaxNodes - (MaxNodes - w) = w
    BY Numbers
  <1>2. T # {} /\ T \subseteq Nat
    BY <1>1
  <1>3. PICK k \in T : \A j \in T : k <= j
    <2> HIDE DEF T
    <2>1. QED
      BY <1>2, LeastNumber
  <1>4. PICK y : y = MaxNodes - k
    OBVIOUS
  <1>5. y \in Nodes /\ up[y] = p /\ k \in 0 .. MaxNodes
    BY <1>3, <1>4
  <1>6. ASSUME next[y] # 0 PROVE FALSE
    <2>1. p # 0
      BY Made
    <2>2. NextRight(y)
      BY <1>5, <2>1 DEF LinksInv
    <2>3. up[next[y]] = p /\ next[y] \in Nodes /\ y < next[y]
      BY <1>5, <1>6, <2>1, <2>2, BelowIs
    <2>4. MaxNodes - next[y] \in 0 .. MaxNodes /\ MaxNodes - (MaxNodes - next[y]) = next[y]
      BY <2>3, Numbers
    <2>5. MaxNodes - next[y] \in T
      BY <2>3, <2>4
    <2>6. k <= MaxNodes - next[y]
      <3> HIDE DEF T
      <3>1. QED
        BY <1>3, <2>5
    <2>7. QED
      BY <1>4, <1>5, <2>3, <2>6, Numbers
  <1>7. QED
    BY <1>5, <1>6

LEMMA StackTop ==
  ASSUME TypeInv, LinksInv, StacksInv, NEW o \in Objs, reading = o, Opened(o), nelems[o] < MaxElems,
         NEW l, l = level[o] + 1
  PROVE  IF l <= 0 THEN Around = 0 ELSE stack[o][l - 1] = Around
  <1> DEFINE k == Len(path)
  <1>1. level[o] = Ground(o) + k /\ k \in Nat /\ Ground(o) \in {-1, 0}
    BY InDocument, Grounds DEF Opened
  <1>2. path = <<>> => Around = 0 /\ k = 0
    BY DEF Around
  <1>3. path # <<>> => Around = path[k] /\ k \in 1 .. Len(path) /\ Around # 0
    BY AroundIs
  <1>4. CASE path = <<>>
    <2>1. l - 1 = Ground(o)
      BY <1>1, <1>2, <1>4
    <2>2. CASE l <= 0
      BY <1>2, <1>4, <2>2
    <2>3. CASE ~(l <= 0)
      <3>1. Ground(o) = 0 /\ l - 1 = 0
        BY <1>1, <2>1, <2>3
      <3>2. o \in DomDocs
        BY <3>1 DEF Ground, Objs
      <3>3. stack[o][0] = 0
        BY <3>2 DEF StacksInv
      <3>4. QED
        BY <1>2, <1>4, <2>3, <3>1, <3>3
    <2>4. QED
      BY <2>2, <2>3
  <1>5. CASE path # <<>>
    <2>1. k # 0 /\ l - 1 = Ground(o) + k /\ ~(l <= 0)
      BY <1>1, <1>3, <1>5
    <2>2. stack[o][Ground(o) + k] = path[k]
      BY <1>3, <1>5 DEF Opened
    <2>3. QED
      BY <1>3, <1>5, <2>1, <2>2
  <1>6. QED
    BY <1>4, <1>5

LEMMA NewLinks ==
  ASSUME TypeInv, LinksInv, StacksInv, NEW o \in Objs, reading = o, Opened(o), NEW n, StartElement(o, n), ~Refused(o)
  PROVE  \E y : Linked(size + 1, Around, y)
  <1> DEFINE x == size + 1
             p == Around
             l == level'[o]
             last == LastSibling(o, p)
  <1>1. x \in Nodes /\ NewNode(o, n, x) /\ FamilySet(o, x) /\ nelems[o] + 1 <= MaxElems
    BY NodeMade
  <1>2. nelems[o] < MaxElems /\ nelems[o] \in Nat /\ size \in Nat
    <2>1. nelems[o] \in Nat /\ size \in Nat
      BY Numbers DEF TypeInv, TablesInv, NodesInv
    <2>2. QED
      BY <1>1, <2>1, Numbers
  <1>3. size' = x /\ up' = [up EXCEPT ![x] = p]
    BY <1>1 DEF NewNode, Around
  <1>4. l = level[o] + 1
    BY LevelUp DEF StartElement
  <1>5. IF l <= 0 THEN p = 0 ELSE stack[o][l - 1] = p
    BY <1>2, <1>4, StackTop
  <1>6. up \in [Nodes -> Ptrs] /\ up[x] = 0 /\ parent = up
    BY <1>1, <1>2 DEF TypeInv, NodesInv, LinksInv
  <1>7. CASE l <= 0
    <2>1. p = 0 /\ UNCHANGED <<parent, first, next>>
      BY <1>1, <1>5, <1>7 DEF FamilySet
    <2>2. [up EXCEPT ![x] = 0] = up
      BY <1>6
    <2>3. parent' = up'
      BY <1>3, <1>6, <2>1, <2>2
    <2>4. Linked(x, p, 0)
      BY <1>3, <2>1, <2>3 DEF Linked
    <2>5. QED
      BY <2>4
  <1>8. CASE ~(l <= 0)
    <2>1. stack[o][l - 1] = p
      BY <1>5, <1>8
    <2>2. /\ parent' = [parent EXCEPT ![x] = p]
          /\ first' = IF p # 0 /\ first[p] = 0 THEN [first EXCEPT ![p] = x] ELSE first
          /\ next' = IF last = {} THEN next ELSE [next EXCEPT ![apelems[o][Min(last)]] = x]
      BY <1>1, <1>8, <2>1 DEF FamilySet
    <2>3. parent' = up'
      BY <1>3, <1>6, <2>2
    <2>4. apelems[o] \in [1 .. MaxElems -> Ptrs] /\ \A i \in 1 .. MaxElems : apelems[o][i] <= size
      BY DEF TypeInv, TablesInv, StacksInv
    <2>5. CASE last = {}
      <3>1. ASSUME p # 0, NEW z \in Nodes, up[z] = p PROVE FALSE
        <4> DEFINE old == size - nelems[o]
        <4>1. p \in Nodes /\ old < p
          BY <1>2, <3>1, AroundIs
        <4>2. PICK y \in Nodes : up[y] = p /\ next[y] = 0
          BY <3>1, <4>1, LastChild
        <4>3. y \in 1 .. size /\ p < y /\ p \in Nat /\ y \in Nat
          BY <3>1, <4>1, <4>2, Made
        <4>4. 0 <= old /\ \A i \in 1 .. nelems[o] : apelems[o][i] = old + i
          BY DEF Opened
        <4>5. old \in Nat /\ y - old \in 1 .. nelems[o] /\ old + (y - old) = y
          BY <1>2, <4>1, <4>3, <4>4
        <4> HIDE DEF old
        <4>6. apelems[o][y - old] = y
          BY <4>4, <4>5
        <4>7. y - old \in 1 .. MaxElems
          BY <1>2, <4>5, Numbers
        <4>8. ASSUME NEW j \in 1 .. y - old PROVE apelems[o][j] # 0
          <5>1. j \in 1 .. nelems[o]
            BY <1>2, <4>3, <4>5
          <5>2. apelems[o][j] = old + j
            BY <4>4, <5>1
          <5>3. QED
            BY <4>5, <5>1, <5>2
        <4>9. y - old \in last
          BY <1>6, <4>2, <4>6, <4>7, <4>8 DEF LastSibling, Searched
        <4>10. QED
          BY <2>5, <4>9
      <3>2. Linked(x, p, 0)
        <4> HIDE DEF p, last
        <4>1. QED
          BY <1>3, <2>2, <2>3, <2>5, <3>1 DEF Linked
      <3>3. QED
        BY <3>2
    <2>6. CASE last # {}
      <3>1. last \subseteq Nat
        BY DEF LastSibling, Searched
      <3>2. PICK m \in last : \A k \in last : m <= k
        <4> HIDE DEF last
        <4>1. QED
          BY <2>6, <3>1, LeastNumber
      <3> DEFINE y == apelems[o][Min(last)]
      <3>3. Min(last) \in last
        <4> HIDE DEF last
        <4>1. QED
          BY <3>2 DEF Min
      <3>4. Min(last) \in 1 .. MaxElems /\ y # 0 /\ up[y] = p /\ next[y] = 0
        <4>1. \A i \in last : i \in 1 .. MaxElems /\ apelems[o][i] # 0 /\ up[apelems[o][i]] = p /\ next[apelems[o][i]] = 0
          BY <1>6 DEF LastSibling, Searched
        <4> HIDE DEF last
        <4>2. QED
          BY <3>3, <4>1
      <3>5. y \in Nodes /\ y <= size
        <4>1. y \in Ptrs /\ y <= size
          BY <2>4, <3>4
        <4>2. QED
          BY <3>4, <4>1, Numbers
      <3>6. next' = [next EXCEPT ![y] = x]
        BY <2>2, <2>6
      <3> HIDE DEF y, last, p
      <3>7. Linked(x, p, y)
        BY <1>3, <2>2, <2>3, <3>4, <3>5, <3>6 DEF Linked
      <3>8. QED
        BY <3>7 DEF p
    <2>7. QED
      BY <2>5, <2>6
  <1>9. QED
    BY <1>7, <1>8

LEMMA LinksGrow ==
  ASSUME TypeInv, LinksInv, NEW o \in Objs, reading = o, Opened(o), nelems[o] < MaxElems, size < MaxNodes,
         NEW x, NEW p, p = Around, NEW y, Linked(x, p, y), NEW n, name' = [name EXCEPT ![x] = n]
  PROVE  LinksInv'
  <1>1. /\ x = size + 1 /\ size' = x /\ up' = [up EXCEPT ![x] = p] /\ parent' = up'
        /\ first' = IF p # 0 /\ first[p] = 0 THEN [first EXCEPT ![p] = x] ELSE first
        /\ next' = IF y = 0 THEN next ELSE [next EXCEPT ![y] = x]
        /\ y # 0 => y \in Nodes /\ y <= size /\ up[y] = p /\ next[y] = 0
        /\ p # 0 /\ (\E z \in Nodes : up[z] = p) => y # 0
    BY DEF Linked
  <1>2. /\ size \in Nat /\ x \in Nodes /\ x \in Nat /\ size < x
        /\ \A w \in Nodes : w # x => w <= size \/ x < w
    <2>1. size \in Nat /\ Nodes \subseteq Nat
      BY Made
    <2>2. x \in Nodes /\ x \in Nat /\ size < x
      BY <1>1, <2>1, Numbers
    <2>3. ASSUME NEW w \in Nodes, w # x PROVE w <= size \/ x < w
      BY <1>1, <2>1, <2>3
    <2>4. QED
      BY <2>1, <2>2, <2>3
  <1>3. /\ up \in [Nodes -> Ptrs] /\ first \in [Nodes -> Ptrs] /\ next \in [Nodes -> Ptrs]
        /\ up[x] = 0 /\ first[x] = 0 /\ next[x] = 0
        /\ \A w \in Nodes : size < w => up[w] = 0 /\ first[w] = 0 /\ next[w] = 0
    BY <1>2, Made DEF TypeInv, NodesInv, LinksInv
  <1>4. /\ p \in 0 .. size /\ p # x
        /\ p # 0 => p \in Nodes /\ \A z \in Nodes : p < z /\ z <= size => p <= up[z]
    <2>1. p \in 0 .. size
      BY AroundIs
    <2>2. p # 0 => p \in Nodes /\ \A z \in Nodes : p < z /\ z <= size => p <= up[z]
      BY AroundIs
    <2>3. p # x
      BY <1>2, <2>1
    <2>4. QED
      BY <2>1, <2>2, <2>3
  <1>5. /\ up'[x] = p /\ \A w \in Nodes : w # x => up'[w] = up[w]
        /\ y # x /\ next'[x] = 0
        /\ y # 0 => next'[y] = x
        /\ \A w \in Nodes : w # y => next'[w] = next[w]
        /\ \A w \in Nodes : w # p \/ first[p] # 0 => first'[w] = first[w]
        /\ p # 0 /\ first[p] = 0 => first'[p] = x
    <2>1. y # x
      BY <1>1, <1>2
    <2>2. up'[x] = p /\ \A w \in Nodes : w # x => up'[w] = up[w]
      BY <1>1, <1>2, <1>3
    <2>3. /\ y # 0 => next'[y] = x
          /\ \A w \in Nodes : w # y => next'[w] = next[w]
      BY <1>1, <1>2, <1>3
    <2>4. /\ \A w \in Nodes : w # p \/ first[p] # 0 => first'[w] = first[w]
          /\ p # 0 /\ first[p] = 0 => first'[p] = x
      BY <1>1, <1>3, <1>4
    <2>5. next'[x] = 0
      BY <1>2, <1>3, <2>1, <2>3
    <2>6. QED
      BY <2>1, <2>2, <2>3, <2>4, <2>5
  <1>6. \A w \in Nodes : /\ up[w] # 0 => w <= size /\ w # x /\ up[w] \in Nodes
                         /\ w \in Nat /\ up[w] \in Nat /\ up[w] < w
    <2>1. \A w \in Nodes : /\ up[w] # 0 => w \in 1 .. size /\ up[w] \in Nodes
                           /\ w \in Nat /\ up[w] \in Nat /\ up[w] < w
      BY Made
    <2>2. QED
      BY <1>2, <2>1
  <1>7. DOMAIN name' = Nodes
    BY DEF LinksInv
  <1>8. ASSUME NEW w \in Nodes, w > size'
        PROVE  up'[w] = 0 /\ first'[w] = 0 /\ next'[w] = 0
    <2>1. w # x /\ size < w /\ w # p /\ w # y
      BY <1>1, <1>2, <1>4, <1>6, <1>8
    <2>2. QED
      BY <1>3, <1>5, <2>1
  <1>9. ASSUME NEW w \in Nodes, next'[w] # 0
        PROVE  w < next'[w] /\ next'[w] <= size'
    <2>1. CASE w = y
      <3>1. w # 0 /\ w \in Nat
        BY <1>6, Numbers
      <3>2. QED
        BY <1>1, <1>2, <1>5, <2>1, <3>1
    <2>2. CASE w # y
      <3>1. next'[w] = next[w]
        BY <1>5, <2>2
      <3>2. w < next[w] /\ next[w] <= size /\ next[w] \in Nat
        BY <1>9, <3>1, Forward DEF LinksInv
      <3>3. QED
        BY <1>1, <1>2, <3>1, <3>2
    <2>3. QED
      BY <2>1, <2>2
  <1>10. ASSUME NEW q \in Nodes PROVE FirstRight(q)'
    <2>1. FirstRight(q)
      BY DEF LinksInv
    <2>2. q # 0
      BY Made
    <2>3. CASE q = p /\ first[q] = 0
      <3>1. \A z \in Nodes : up[z] # p
        BY <2>1, <2>3 DEF FirstRight
      <3>2. first'[q] = x /\ up'[x] = q
        BY <1>5, <2>2, <2>3
      <3>3. \A z \in Nodes : up'[z] = q => z = x
        BY <1>5, <2>3, <3>1
      <3>4. x # 0 /\ x <= x
        BY <1>2
      <3>5. QED
        BY <1>2, <3>2, <3>3, <3>4 DEF FirstRight
    <2>4. CASE q # p \/ first[q] # 0
      <3>1. first'[q] = first[q]
        BY <1>5, <2>4
      <3>2. CASE first[q] = 0
        <4>1. \A z \in Nodes : up[z] # q
          BY <2>1, <3>2 DEF FirstRight
        <4>2. \A z \in Nodes : up'[z] # q
          BY <1>5, <2>4, <3>2, <4>1
        <4>3. QED
          BY <3>1, <3>2, <4>2 DEF FirstRight
      <3>3. CASE first[q] # 0
        <4>1. first[q] \in Nodes /\ up[first[q]] = q /\ \A z \in Nodes : up[z] = q => first[q] <= z
          BY <2>1, <3>3 DEF FirstRight
        <4>2. first[q] <= size /\ first[q] # x /\ first[q] \in Nat
          BY <1>6, <2>2, <4>1
        <4>3. up'[first[q]] = q
          BY <1>5, <4>1, <4>2
        <4>4. ASSUME NEW z \in Nodes, up'[z] = q PROVE first[q] <= z
          <5>1. CASE z = x
            BY <1>2, <4>2, <5>1
          <5>2. CASE z # x
            BY <1>5, <4>1, <4>4, <5>2
          <5>3. QED
            BY <5>1, <5>2
        <4>5. QED
          BY <3>1, <3>3, <4>1, <4>3, <4>4 DEF FirstRight
      <3>4. QED
        BY <3>2, <3>3
    <2>5. QED
      BY <2>3, <2>4
  <1>11. ASSUME NEW w \in Nodes, up'[w] # 0 PROVE NextRight(w)'
    <2>1. CASE w = x
      <3>1. next'[w] = 0 /\ up'[w] = p /\ p # 0
        BY <1>5, <1>11, <2>1
      <3>2. ASSUME NEW z \in Nodes, up'[z] = p PROVE z <= w
        <4>1. CASE z = x
          BY <1>2, <2>1, <4>1
        <4>2. CASE z # x
          BY <1>2, <1>5, <1>6, <2>1, <3>1, <3>2, <4>2
        <4>3. QED
          BY <4>1, <4>2
      <3>3. QED
        BY <3>1, <3>2 DEF NextRight
    <2>2. CASE w = y
      <3>1. next'[w] = x /\ up[w] = p /\ up'[w] = p /\ w # x /\ p # 0 /\ next[w] = 0 /\ x # 0
        BY <1>1, <1>2, <1>5, <1>11, <2>2, Made
      <3>2. NextRight(w)
        BY <3>1 DEF LinksInv
      <3>3. \A z \in Nodes : up[z] = p => z <= w
        BY <3>1, <3>2 DEF NextRight
      <3>4. ASSUME NEW z \in Nodes, up'[z] = p, w < z PROVE x <= z
        <4>1. CASE z = x
          BY <1>2, <4>1
        <4>2. CASE z # x
          <5>1. up[z] = p
            BY <1>5, <3>4, <4>2
          <5>2. z <= w /\ z \in Nat /\ w \in Nat
            BY <1>6, <3>3, <5>1
          <5>3. QED
            BY <3>4, <5>2
        <4>3. QED
          BY <4>1, <4>2
      <3>5. QED
        BY <1>5, <3>1, <3>4 DEF NextRight
    <2>3. CASE w # x /\ w # y
      <3>1. up'[w] = up[w] /\ next'[w] = next[w] /\ up[w] # 0
        BY <1>5, <1>11, <2>3
      <3>2. NextRight(w) /\ w <= size /\ w \in Nat
        BY <1>6, <3>1 DEF LinksInv
      <3>3. CASE next[w] = 0
        <4>1. \A z \in Nodes : up[z] = up[w] => z <= w
          BY <3>2, <3>3 DEF NextRight
        <4>2. up[w] # p
          <5> SUFFICES ASSUME up[w] = p PROVE FALSE
            OBVIOUS
          <5>1. y \in Nodes /\ up[y] = p /\ next[y] = 0
            BY <1>1, <3>1
          <5>2. NextRight(y)
            BY <3>1, <5>1 DEF LinksInv
          <5>3. w <= y
            BY <5>1, <5>2 DEF NextRight
          <5>4. y <= w /\ y \in Nat
            BY <1>6, <4>1, <5>1
          <5>5. QED
            BY <2>3, <3>2, <5>3, <5>4
        <4>3. ASSUME NEW z \in Nodes, up'[z] = up[w] PROVE z <= w
          <5>1. z # x
            BY <1>5, <4>2, <4>3
          <5>2. QED
            BY <1>5, <4>1, <4>3, <5>1
        <4>4. QED
          BY <3>1, <3>3, <4>3 DEF NextRight
      <3>4. CASE next[w] # 0
        <4>1. up[next[w]] = up[w] /\ \A z \in Nodes : up[z] = up[w] /\ w < z => next[w] <= z
          BY <3>2, <3>4 DEF NextRight
        <4>2. next[w] \in Nodes /\ next[w] <= size /\ next[w] # x /\ next[w] \in Nat
          <5>1. next[w] \in Nodes
            BY <3>1, <3>4, BelowIs
          <5>2. QED
            BY <1>6, <3>1, <4>1, <5>1
        <4>3. up'[next[w]] = up[w]
          BY <1>5, <4>1, <4>2
        <4>4. ASSUME NEW z \in Nodes, up'[z] = up[w], w < z PROVE next[w] <= z
          <5>1. CASE z = x
            BY <1>2, <4>2, <5>1
          <5>2. CASE z # x
            BY <1>5, <4>1, <4>4, <5>2
          <5>3. QED
            BY <5>1, <5>2
        <4>5. QED
          BY <3>1, <3>4, <4>3, <4>4 DEF NextRight
      <3>5. QED
        BY <3>3, <3>4
    <2>4. QED
      BY <2>1, <2>2, <2>3
  <1>12. ASSUME NEW v \in Nodes, NEW z \in Nodes, up'[v] < z, z < v PROVE up'[v] <= up'[z]
    <2>1. CASE v = x
      <3>1. p < z /\ z < x /\ z # x /\ z <= size /\ up'[v] = p /\ up'[z] = up[z]
        BY <1>1, <1>2, <1>5, <1>6, <1>12, <2>1
      <3>2. CASE p = 0
        BY <1>6, <3>1, <3>2
      <3>3. CASE p # 0
        BY <1>4, <3>1, <3>3
      <3>4. QED
        BY <3>2, <3>3
    <2>2. CASE v # x /\ z = x
      <3>1. up[v] = 0 /\ up'[v] = up[v]
        BY <1>1, <1>2, <1>3, <1>5, <1>6, <1>12, <2>2
      <3>2. QED
        BY <1>4, <1>5, <2>2, <3>1
    <2>3. CASE v # x /\ z # x
      <3>1. up'[v] = up[v] /\ up'[z] = up[z]
        BY <1>5, <2>3
      <3>2. QED
        BY <1>12, <3>1 DEF LinksInv
    <2>4. QED
      BY <2>1, <2>2, <2>3
  <1>13. QED
    BY <1>1, <1>7, <1>8, <1>9, <1>10, <1>11, <1>12 DEF LinksInv

-----------------------------------------------------------------------------
(* Reading keeps the order                                                 *)

LEMMA StacksInit == Init => StacksInv
  <1> SUFFICES ASSUME Init PROVE StacksInv
    OBVIOUS
  <1>1. ASSUME NEW o \in Objs
        PROVE  /\ \A i \in 1 .. MaxElems : apelems[o][i] <= size
               /\ o \in DomDocs => stack[o][0] = 0
               /\ level[o] < MaxLevel
               /\ nodelist[o] = None /\ reading # o
    <2>1. 0 \in 0 .. MaxLevel - 1 /\ Ground(o) < MaxLevel
      BY Grounds, Numbers
    <2>2. QED
      BY <2>1, Grounds DEF Init
  <1>2. QED
    BY <1>1 DEF StacksInv

(* A node is made.                                                         *)
LEMMA MadeTables ==
  ASSUME Orderly, TypeInv, LinksInv, StacksInv, NEW o \in Objs, NEW n, StartElement(o, n), ~Refused(o)
  PROVE  /\ reading = o /\ reading' = o /\ size \in Nat /\ size' = size + 1 /\ size < MaxNodes
         /\ nelems[o] \in Nat /\ nelems[o] < MaxElems /\ nelems' = [nelems EXCEPT ![o] = nelems[o] + 1]
         /\ apelems' = [apelems EXCEPT ![o] = [apelems[o] EXCEPT ![nelems[o] + 1] = size + 1]]
         /\ level'[o] = level[o] + 1 /\ level'[o] < MaxLevel /\ level[o] \in Int /\ -1 <= level[o]
         /\ level' = [level EXCEPT ![o] = level[o] + 1]
         /\ stack' = [stack EXCEPT ![o] = [stack[o] EXCEPT ![level[o] + 1] = size + 1]]
         /\ nodelist[o] \in Seq(Nodes) /\ nodelist' = [nodelist EXCEPT ![o] = Append(nodelist[o], size + 1)]
         /\ path' = Append(path, size + 1)
         /\ name' = [name EXCEPT ![size + 1] = n]
  <1>1. reading = o /\ reading' = o /\ Begins(o) /\ level' = [level EXCEPT ![o] = @ + 1]
    BY DEF StartElement, Begins
  <1>2. /\ size + 1 \in Nodes /\ NewNode(o, n, size + 1) /\ StackSet(o, level'[o], size + 1)
        /\ nelems[o] + 1 <= MaxElems
    BY NodeMade
  <1>3. /\ size \in Nat /\ nelems[o] \in Nat /\ size < MaxNodes /\ nelems[o] < MaxElems
    <2>1. size \in Nat /\ nelems[o] \in Nat
      BY Numbers DEF TypeInv, NodesInv, TablesInv
    <2>2. QED
      BY <1>2, <2>1, Numbers
  <1>4. level'[o] = level[o] + 1 /\ level'[o] < MaxLevel
    BY <1>1, LevelUp DEF Begins, Orderly
  <1>5. level[o] \in Int /\ -1 <= level[o] /\ level' = [level EXCEPT ![o] = level[o] + 1]
    <2>1. level[o] \in Int /\ Ground(o) <= level[o] /\ Ground(o) \in {-1, 0}
      BY Grounds DEF TypeInv, TablesInv
    <2>2. -1 <= level[o]
      BY <2>1
    <2>3. QED
      BY <1>1, <2>1, <2>2
  <1>6. stack' = [stack EXCEPT ![o] = [stack[o] EXCEPT ![level[o] + 1] = size + 1]]
    BY <1>2, <1>4 DEF StackSet
  <1>7. nodelist[o] \in Seq(Nodes)
    BY <1>1, InDocument
  <1>8. /\ size' = size + 1 /\ nelems' = [nelems EXCEPT ![o] = nelems[o] + 1]
        /\ apelems' = [apelems EXCEPT ![o] = [apelems[o] EXCEPT ![nelems[o] + 1] = size + 1]]
        /\ nodelist' = [nodelist EXCEPT ![o] = Append(nodelist[o], size + 1)]
        /\ path' = Append(path, size + 1) /\ name' = [name EXCEPT ![size + 1] = n]
    BY <1>2 DEF NewNode
  <1>9. QED
    BY <1>1, <1>3, <1>4, <1>5, <1>6, <1>7, <1>8

LEMMA StacksGrow ==
  ASSUME Orderly, TypeInv, LinksInv, StacksInv, NEW o \in Objs, NEW n, StartElement(o, n), ~Refused(o)
  PROVE  StacksInv'
  <1>1. /\ size \in Nat /\ size' = size + 1
        /\ nelems[o] \in Nat /\ nelems[o] < MaxElems
        /\ apelems' = [apelems EXCEPT ![o] = [apelems[o] EXCEPT ![nelems[o] + 1] = size + 1]]
        /\ level'[o] < MaxLevel /\ level[o] \in Int /\ -1 <= level[o]
        /\ level' = [level EXCEPT ![o] = level[o] + 1]
        /\ stack' = [stack EXCEPT ![o] = [stack[o] EXCEPT ![level[o] + 1] = size + 1]]
        /\ nodelist[o] \in Seq(Nodes) /\ nodelist' = [nodelist EXCEPT ![o] = Append(nodelist[o], size + 1)]
    BY MadeTables
  <1>2. /\ apelems \in [Objs -> [1 .. MaxElems -> Ptrs]] /\ stack \in [Objs -> [0 .. MaxLevel - 1 -> Ptrs]]
        /\ level \in [Objs -> Int] /\ nodelist \in [Objs -> {None} \cup Seq(Nodes)]
        /\ \A u \in Objs : Ground(u) <= level[u]
    BY DEF TypeInv, TablesInv
  <1>3. ASSUME NEW u \in Objs, NEW i \in 1 .. MaxElems PROVE apelems'[u][i] <= size'
    <2>1. apelems[u][i] <= size /\ apelems[u][i] \in Nat
      BY <1>2, Numbers, SMTT(30) DEF StacksInv
    <2>2. apelems'[u][i] = apelems[u][i] \/ apelems'[u][i] = size + 1
      BY <1>1, <1>2
    <2>3. QED
      BY <1>1, <2>1, <2>2
  <1>4. ASSUME NEW u \in DomDocs PROVE stack'[u][0] = 0
    <2>1. u \in Objs /\ stack[u][0] = 0
      BY DEF StacksInv, Objs
    <2>2. CASE u = o
      <3>1. Ground(u) = 0
        BY ObjsAssumption DEF Ground
      <3>2. level[o] + 1 # 0
        BY <1>1, <1>2, <2>2, <3>1
      <3>3. 0 \in 0 .. MaxLevel - 1
        BY Numbers
      <3>4. stack'[u] = [stack[o] EXCEPT ![level[o] + 1] = size + 1]
        BY <1>1, <1>2, <2>2
      <3>5. QED
        BY <1>2, <2>1, <2>2, <3>2, <3>3, <3>4
    <2>3. CASE u # o
      BY <1>1, <1>2, <2>1, <2>3
    <2>4. QED
      BY <2>2, <2>3
  <1>5. ASSUME NEW u \in Objs PROVE level'[u] < MaxLevel
    BY <1>1, <1>2 DEF StacksInv
  <1>6. ASSUME NEW u \in Objs, nodelist'[u] # None \/ reading' = u, NEW i \in 1 .. Len(nodelist'[u])
        PROVE  nodelist'[u][i] <= size'
    <2>1. CASE u = o
      <3>1. nodelist'[u] = Append(nodelist[o], size + 1) /\ reading = o
        BY <1>1, <1>2, <2>1, MadeTables
      <3>2. \A j \in 1 .. Len(nodelist[o]) : nodelist[o][j] <= size /\ nodelist[o][j] \in Nat
        <4>1. \A j \in 1 .. Len(nodelist[o]) : nodelist[o][j] \in Nodes
          BY <1>1, ElementOfSeq
        <4>2. QED
          BY <3>1, <4>1, Made DEF StacksInv
      <3>3. Len(nodelist[o]) \in Nat /\ size + 1 \in Nat
        BY <1>1, LenProperties
      <3>4. i \in 1 .. Len(nodelist[o]) + 1 /\ nodelist'[u][i] = IF i <= Len(nodelist[o]) THEN nodelist[o][i] ELSE size + 1
        BY <1>1, <3>1, <3>3, <1>6
      <3>5. QED
        BY <1>1, <3>2, <3>3, <3>4
    <2>2. CASE u # o
      <3>1. nodelist'[u] = nodelist[u] /\ reading' # u
        BY <1>1, <1>2, <2>2, MadeTables
      <3>2. nodelist[u] \in Seq(Nodes) /\ nodelist[u] # None
        BY <1>2, <1>6, <3>1
      <3>3. nodelist[u][i] <= size /\ nodelist[u][i] \in Nat
        <4>1. nodelist[u][i] \in Nodes
          BY <1>6, <3>1, <3>2, ElementOfSeq
        <4>2. QED
          BY <1>6, <3>1, <3>2, <4>1, Made DEF StacksInv
      <3>4. QED
        BY <1>1, <3>1, <3>3
    <2>3. QED
      BY <2>1, <2>2
  <1>7. QED
    BY <1>3, <1>4, <1>5, <1>6 DEF StacksInv

LEMMA OpenGrow ==
  ASSUME Orderly, TypeInv, LinksInv, StacksInv, NEW o \in Objs, Opened(o), NEW n, StartElement(o, n), ~Refused(o)
  PROVE  Opened(o)'
  <1> DEFINE x == size + 1
             old == size - nelems[o]
             k0 == Len(path)
  <1>1. /\ reading = o /\ size \in Nat /\ size' = x
        /\ nelems[o] \in Nat /\ nelems[o] < MaxElems /\ nelems' = [nelems EXCEPT ![o] = nelems[o] + 1]
        /\ apelems' = [apelems EXCEPT ![o] = [apelems[o] EXCEPT ![nelems[o] + 1] = x]]
        /\ level'[o] = level[o] + 1 /\ level'[o] < MaxLevel /\ level[o] \in Int /\ -1 <= level[o]
        /\ stack' = [stack EXCEPT ![o] = [stack[o] EXCEPT ![level[o] + 1] = x]]
        /\ path' = Append(path, x)
    BY MadeTables
  <1>2. /\ apelems[o] \in [1 .. MaxElems -> Ptrs] /\ stack[o] \in [0 .. MaxLevel - 1 -> Ptrs]
        /\ nelems'[o] = nelems[o] + 1
        /\ apelems'[o] = [apelems[o] EXCEPT ![nelems[o] + 1] = x]
        /\ stack'[o] = [stack[o] EXCEPT ![level[o] + 1] = x]
    BY <1>1 DEF TypeInv, TablesInv
  <1>3. /\ 0 <= old /\ \A i \in 1 .. nelems[o] : apelems[o][i] = old + i
        /\ level[o] = Ground(o) + k0
    BY DEF Opened
  <1>4. path \in Seq(0 .. size) /\ k0 \in Nat /\ Ground(o) \in {-1, 0}
    BY <1>1, InDocument, Grounds DEF TypeInv, ReadInv
  <1>5. /\ Len(path') = k0 + 1 /\ path'[k0 + 1] = x
        /\ \A k \in 1 .. k0 : path'[k] = path[k] /\ path[k] \in 0 .. size
    <2>1. \A k \in 1 .. k0 : path[k] \in 0 .. size
      BY <1>4, ElementOfSeq
    <2>2. QED
      BY <1>1, <1>4, <2>1
  <1>6. /\ Around \in 0 .. size
        /\ path # <<>> => Around # 0
        /\ Around # 0 => \A j \in 1 .. k0 : path[j] # 0 /\ path[j] <= Around
    BY <1>1, AroundIs
  <1>7. x \in Nodes /\ up' = [up EXCEPT ![x] = Around] /\ up \in [Nodes -> Ptrs]
    <2>1. x \in Nodes /\ NewNode(o, n, x)
      BY NodeMade
    <2>2. QED
      BY <2>1 DEF NewNode, Around, TypeInv, NodesInv
  <1>8. size' - nelems'[o] = old
    BY <1>1, <1>2
  <1>9. \A k \in 1 .. k0 : /\ path[k] # 0 /\ path[k] <= Around /\ old < path[k] /\ path[k] <= size
                          /\ stack[o][Ground(o) + k] = path[k]
                          /\ \A z \in Nodes : path[k] < z /\ z <= size => path[k] <= up[z]
    <2> SUFFICES ASSUME NEW k \in 1 .. k0
                 PROVE  /\ path[k] # 0 /\ path[k] <= Around /\ old < path[k] /\ path[k] <= size
                        /\ stack[o][Ground(o) + k] = path[k]
                        /\ \A z \in Nodes : path[k] < z /\ z <= size => path[k] <= up[z]
      OBVIOUS
    <2>1. path # <<>>
      BY <1>4, EmptySeq
    <2>2. path[k] # 0 /\ path[k] <= Around
      BY <1>6, <2>1
    <2>3. path[k] <= size
      BY <1>1, <1>5
    <2>4. QED
      BY <2>2, <2>3 DEF Opened
  <1>14. \A k \in 1 .. k0 : \A j \in 1 .. k : path[j] <= path[k]
    <2>1. ASSUME NEW k \in 1 .. k0, NEW j \in 1 .. k PROVE path[j] <= path[k]
      <3>1. path[k] # 0
        BY <1>9
      <3>2. QED
        BY <3>1 DEF Opened
    <2>2. QED
      BY <2>1
  <1> HIDE DEF x, old, k0
  <1>10. ASSUME NEW i \in 1 .. nelems'[o] PROVE apelems'[o][i] = old + i
    <2>1. i \in 1 .. MaxElems /\ i \in Nat /\ i <= nelems[o] + 1
      BY <1>1, <1>2, Numbers, SMTT(30)
    <2>2. CASE i = nelems[o] + 1
      <3>1. apelems'[o][i] = x
        BY <1>2, <2>1, <2>2
      <3>2. old + i = x
        BY <1>1, <2>2 DEF old, x
      <3>3. QED
        BY <3>1, <3>2
    <2>3. CASE i # nelems[o] + 1
      <3>1. i \in 1 .. nelems[o]
        BY <1>1, <2>1, <2>3
      <3>2. apelems'[o][i] = apelems[o][i]
        BY <1>2, <2>1, <2>3
      <3>3. QED
        BY <1>3, <3>1, <3>2
    <2>4. QED
      BY <2>2, <2>3
  <1>11. level'[o] = Ground(o) + Len(path')
    BY <1>1, <1>3, <1>4, <1>5
  <1>12. ASSUME NEW k \in 1 .. Len(path')
         PROVE  /\ path'[k] # 0 => stack'[o][Ground(o) + k] = path'[k]
                /\ path'[k] # 0 /\ old < path'[k]
                /\ \A z \in Nodes : path'[k] < z /\ z <= size' => path'[k] <= up'[z]
                /\ \A j \in 1 .. k : path'[j] # 0 /\ path'[j] <= path'[k]
    <2>1. CASE k \in 1 .. k0
      <3>1. path'[k] = path[k] /\ path[k] \in Nat
        BY <1>1, <1>5, <2>1
      <3>2. stack'[o][Ground(o) + k] = path[k]
        <4>1. Ground(o) + k # level[o] + 1 /\ Ground(o) + k \in 0 .. MaxLevel - 1
          <5>1. Ground(o) + k # level[o] + 1
            BY <1>3, <1>4, <2>1
          <5>2. Ground(o) + k <= level[o] /\ 0 <= Ground(o) + k /\ Ground(o) + k \in Int
            BY <1>3, <1>4, <2>1
          <5>3. QED
            BY <1>1, <5>1, <5>2, Numbers
        <4>2. stack'[o][Ground(o) + k] = stack[o][Ground(o) + k]
          BY <1>2, <4>1
        <4>3. QED
          BY <1>9, <2>1, <4>2
      <3>3. ASSUME NEW z \in Nodes, path[k] < z, z <= size' PROVE path[k] <= up'[z]
        <4>1. CASE z = x
          BY <1>7, <1>9, <2>1, <4>1
        <4>2. CASE z # x
          <5>1. z <= size /\ up'[z] = up[z]
            BY <1>1, <1>7, <3>3, <4>2, Made DEF x
          <5>2. QED
            BY <1>9, <2>1, <3>3, <5>1
        <4>3. QED
          BY <4>1, <4>2
      <3>4. ASSUME NEW j \in 1 .. k PROVE path'[j] # 0 /\ path'[j] <= path'[k]
        <4>1. j \in 1 .. k0
          BY <1>4, <2>1
        <4>2. path[j] # 0
          BY <1>9, <4>1
        <4>5. path[j] <= path[k]
          BY <1>14, <2>1
        <4>3. path'[j] = path[j]
          BY <1>5, <4>1
        <4>4. QED
          BY <3>1, <4>2, <4>3, <4>5
      <3>5. QED
        BY <1>9, <2>1, <3>1, <3>2, <3>3, <3>4
    <2>2. CASE k = k0 + 1
      <3>1. path'[k] = x /\ x # 0 /\ x \in Nat
        BY <1>1, <1>5, <2>2 DEF x
      <3>2. stack'[o][Ground(o) + k] = x
        <4>1. Ground(o) + k = level[o] + 1 /\ level[o] + 1 \in 0 .. MaxLevel - 1
          <5>1. Ground(o) + k = level[o] + 1
            BY <1>3, <1>4, <2>2
          <5>2. level[o] + 1 \in 0 .. MaxLevel - 1
            BY <1>1, Numbers
          <5>3. QED
            BY <5>1, <5>2
        <4>2. QED
          BY <1>2, <4>1
      <3>3. old < x
        BY <1>1 DEF old, x
      <3>4. \A z \in Nodes : ~(x < z /\ z <= size')
        BY <1>1, <3>1, Made
      <3>5. ASSUME NEW j \in 1 .. k PROVE path'[j] # 0 /\ path'[j] <= x
        <4>1. CASE j = k0 + 1
          BY <1>5, <3>1, <4>1
        <4>2. CASE j # k0 + 1
          <5>1. j \in 1 .. k0
            BY <1>4, <2>2, <4>2
          <5>2. path'[j] # 0 /\ path'[j] <= size /\ path'[j] \in Nat
            BY <1>1, <1>5, <1>9, <5>1
          <5>3. QED
            BY <1>1, <5>2 DEF x
        <4>3. QED
          BY <4>1, <4>2
      <3>6. QED
        BY <3>1, <3>2, <3>3, <3>4, <3>5
    <2>3. QED
      BY <1>4, <1>5, <2>1, <2>2
  <1>13. QED
    BY <1>3, <1>8, <1>10, <1>11, <1>12 DEF Opened

(* An element ends.                                                        *)
LEMMA OpenEnds ==
  ASSUME TypeInv, LinksInv, StacksInv, NEW o \in Objs, Opened(o), EndElement(o)
  PROVE  Opened(o)' /\ StacksInv'
  <1> DEFINE k0 == Len(path)
             l == level[o]
  <1>1. /\ reading = o /\ reading' = o /\ path # <<>> /\ path' = Front(path) /\ StackSet(o, l, 0)
        /\ level' = [level EXCEPT ![o] = l - 1]
        /\ UNCHANGED <<size, up, nelems, apelems, nodelist>>
    BY DEF EndElement, tree
  <1>2. /\ path \in Seq(0 .. size) /\ k0 \in Nat /\ k0 # 0 /\ l \in Int /\ l = Ground(o) + k0 /\ Ground(o) \in {-1, 0}
        /\ l < MaxLevel
    BY <1>1, InDocument, Grounds, Shorter DEF TypeInv, ReadInv, Opened, StacksInv
  <1>3. stack' = [stack EXCEPT ![o] = [stack[o] EXCEPT ![l] = 0]]
    BY <1>1, <1>2 DEF StackSet
  <1>4. stack \in [Objs -> [0 .. MaxLevel - 1 -> Ptrs]] /\ level \in [Objs -> Int]
    BY DEF TypeInv, TablesInv
  <1>5. Len(path') = k0 - 1 /\ \A k \in 1 .. k0 - 1 : path'[k] = path[k]
    <2>1. Len(path') = k0 - 1
      BY <1>1, <1>2, Shorter
    <2>2. \A k \in 1 .. k0 - 1 : path'[k] = path[k]
      BY <1>1, <1>2, FrontIs
    <2>3. QED
      BY <2>1, <2>2
  <1> HIDE DEF k0, l
  <1>6. ASSUME NEW k \in 1 .. Len(path')
        PROVE  k \in 1 .. Len(path) /\ path'[k] = path[k] /\ stack'[o][Ground(o) + k] = stack[o][Ground(o) + k]
    <2>1. k \in 1 .. Len(path) /\ path'[k] = path[k]
      BY <1>2, <1>5 DEF k0
    <2>2. Ground(o) + k # l /\ Ground(o) + k \in 0 .. MaxLevel - 1
      <3>1. Ground(o) + k < l /\ 0 <= Ground(o) + k /\ Ground(o) + k \in Int
        BY <1>2, <1>5
      <3>2. QED
        BY <1>2, <3>1, Numbers
    <2>3. QED
      BY <1>3, <1>4, <2>1, <2>2
  <1>7. level'[o] = Ground(o) + Len(path')
    BY <1>1, <1>2, <1>4, <1>5
  <1>8. Opened(o)'
    <2>1. /\ 0 <= size - nelems[o] /\ \A i \in 1 .. nelems[o] : apelems[o][i] = size - nelems[o] + i
          /\ \A k \in 1 .. Len(path) :
               /\ path[k] # 0 => stack[o][Ground(o) + k] = path[k]
               /\ path[k] = 0 => nelems[o] = MaxElems
               /\ path[k] # 0 => size - nelems[o] < path[k]
               /\ path[k] # 0 => \A z \in Nodes : path[k] < z /\ z <= size => path[k] <= up[z]
               /\ \A j \in 1 .. k : path[k] # 0 => path[j] # 0 /\ path[j] <= path[k]
      BY DEF Opened
    <2>2. ASSUME NEW k \in 1 .. Len(path'), NEW j \in 1 .. k PROVE j \in 1 .. Len(path')
      BY <1>2, <1>5
    <2>3. \A k \in 1 .. Len(path') :
            /\ path'[k] # 0 => stack'[o][Ground(o) + k] = path'[k]
            /\ path'[k] = 0 => nelems[o] = MaxElems
            /\ path'[k] # 0 => size - nelems[o] < path'[k]
            /\ path'[k] # 0 => \A z \in Nodes : path'[k] < z /\ z <= size => path'[k] <= up[z]
            /\ \A j \in 1 .. k : path'[k] # 0 => path'[j] # 0 /\ path'[j] <= path'[k]
      BY <1>6, <2>1, <2>2
    <2>4. QED
      BY <1>1, <1>7, <2>1, <2>3 DEF Opened
  <1>9. StacksInv'
    <2>1. ASSUME NEW u \in DomDocs PROVE stack'[u][0] = 0
      <3>1. u \in Objs /\ stack[u][0] = 0 /\ 0 \in 0 .. MaxLevel - 1
        BY Numbers DEF StacksInv, Objs
      <3>2. QED
        BY <1>3, <1>4, <3>1
    <2>2. ASSUME NEW u \in Objs PROVE level'[u] < MaxLevel
      <3>1. level[u] < MaxLevel /\ level[u] \in Int
        BY <1>4 DEF StacksInv
      <3>2. QED
        BY <1>1, <1>2, <1>4, <3>1, Numbers
    <2>3. QED
      BY <1>1, <2>1, <2>2 DEF StacksInv
  <1>10. QED
    BY <1>8, <1>9

LEMMA LinksStay ==
  ASSUME LinksInv, UNCHANGED <<tree, up>>
  PROVE  LinksInv'
  BY DEF LinksInv, FirstRight, NextRight, tree

(* An element is refused; without "deep", as the table is full.            *)
LEMMA OpenRefused ==
  ASSUME Orderly, TypeInv, LinksInv, StacksInv, NEW o \in Objs, Opened(o), NEW n, StartElement(o, n), Refused(o)
  PROVE  LinksInv' /\ StacksInv' /\ (Runs' => Opened(o)')
  <1>1. /\ reading = o /\ reading' = o /\ Begins(o) /\ level' = [level EXCEPT ![o] = @ + 1]
        /\ UNCHANGED <<tree, nelems, apelems, stack, nodelist, up>>
        /\ IF Excess(o) THEN path' = Append(path, 0) ELSE fault' = "past the end of apelems"
    BY DEF StartElement, Refused, Begins
  <1>2. level'[o] = level[o] + 1 /\ level'[o] < MaxLevel /\ level[o] \in Int
    <2>1. level'[o] = level[o] + 1
      BY <1>1, LevelUp
    <2>2. level[o] + 1 < MaxLevel
      BY <1>1 DEF Begins, Orderly
    <2>3. level[o] \in Int
      BY DEF TypeInv, TablesInv
    <2>4. QED
      BY <2>1, <2>2, <2>3
  <1>3. LinksInv'
    BY <1>1, LinksStay
  <1>4. StacksInv'
    <2>1. \A u \in Objs : level'[u] < MaxLevel
      BY <1>1, <1>2 DEF StacksInv, TypeInv, TablesInv
    <2>2. QED
      BY <1>1, <2>1 DEF StacksInv, tree
  <1>5. ASSUME Runs' PROVE Opened(o)'
    <2> DEFINE k0 == Len(path)
    <2>1. Excess(o) /\ path' = Append(path, 0)
      BY <1>1, <1>5 DEF Runs
    <2>2. nelems[o] = MaxElems
      <3>1. nelems[o] \in 0 .. MaxElems
        BY DEF TypeInv, TablesInv
      <3>2. ~(level'[o] > MaxLevel)
        BY <1>2, Numbers
      <3>3. nelems[o] + 1 > MaxElems
        BY <2>1, <3>2 DEF Excess
      <3>4. QED
        BY <3>1, <3>3, Numbers
    <2>3. path \in Seq(0 .. size) /\ k0 \in Nat
      BY <1>1, InDocument DEF TypeInv, ReadInv
    <2>4. Len(path') = k0 + 1 /\ path'[k0 + 1] = 0 /\ \A k \in 1 .. k0 : path'[k] = path[k]
      BY <2>1, <2>3
    <2>5. /\ 0 <= size - nelems[o] /\ \A i \in 1 .. nelems[o] : apelems[o][i] = size - nelems[o] + i
          /\ level[o] = Ground(o) + k0 /\ Ground(o) \in {-1, 0}
          /\ \A k \in 1 .. k0 :
               /\ path[k] # 0 => stack[o][Ground(o) + k] = path[k]
               /\ path[k] # 0 => size - nelems[o] < path[k]
               /\ path[k] # 0 => \A z \in Nodes : path[k] < z /\ z <= size => path[k] <= up[z]
               /\ \A j \in 1 .. k : path[k] # 0 => path[j] # 0 /\ path[j] <= path[k]
      BY Grounds DEF Opened
    <2>6. level'[o] = Ground(o) + Len(path')
      BY <1>2, <2>3, <2>4, <2>5
    <2> HIDE DEF k0
    <2>7. ASSUME NEW k \in 1 .. Len(path'), path'[k] # 0
          PROVE  k \in 1 .. k0 /\ path'[k] = path[k] /\ \A j \in 1 .. k : path'[j] = path[j]
      <3>1. k \in 1 .. k0
        BY <2>3, <2>4, <2>7
      <3>2. \A j \in 1 .. k : j \in 1 .. k0
        BY <2>3, <3>1
      <3>3. QED
        BY <2>4, <3>1, <3>2
    <2>8. \A k \in 1 .. Len(path') :
            /\ path'[k] # 0 => stack[o][Ground(o) + k] = path'[k]
            /\ path'[k] = 0 => nelems[o] = MaxElems
            /\ path'[k] # 0 => size - nelems[o] < path'[k]
            /\ path'[k] # 0 => \A z \in Nodes : path'[k] < z /\ z <= size => path'[k] <= up[z]
            /\ \A j \in 1 .. k : path'[k] # 0 => path'[j] # 0 /\ path'[j] <= path'[k]
      <3> SUFFICES ASSUME NEW k \in 1 .. Len(path'), path'[k] # 0
                   PROVE  /\ stack[o][Ground(o) + k] = path'[k]
                          /\ size - nelems[o] < path'[k]
                          /\ \A z \in Nodes : path'[k] < z /\ z <= size => path'[k] <= up[z]
                          /\ \A j \in 1 .. k : path'[j] # 0 /\ path'[j] <= path'[k]
        BY <2>2
      <3>1. k \in 1 .. k0 /\ path'[k] = path[k] /\ \A j \in 1 .. k : path'[j] = path[j]
        BY <2>7
      <3>2. QED
        BY <2>5, <3>1
    <2>9. UNCHANGED <<size, up, nelems, apelems, stack>>
      BY <1>1 DEF tree
    <2>10. QED
      BY <2>5, <2>6, <2>8, <2>9 DEF Opened
  <1>6. QED
    BY <1>3, <1>4, <1>5

LEMMA OpenParse ==
  ASSUME Orderly, TypeInv, LinksInv, StacksInv, NEW o \in Objs, ParseXml(o)
  PROVE  LinksInv' /\ StacksInv' /\ Opened(o)' /\ reading' = o
  <1>1. /\ reading = None /\ reading' = o /\ level[o] = Ground(o)
        /\ nelems' = [nelems EXCEPT ![o] = 0] /\ nodelist' = [nodelist EXCEPT ![o] = <<>>]
        /\ UNCHANGED <<tree, apelems, level, stack, path, up>>
    BY DEF ParseXml, MayRead, ScriptRuns, Orderly
  <1>2. path = <<>> /\ size \in Nat /\ nelems'[o] = 0 /\ nodelist'[o] = <<>>
    BY <1>1, Numbers DEF TypeInv, ReadInv, TablesInv, NodesInv
  <1>3. LinksInv'
    BY <1>1, LinksStay
  <1>4. StacksInv'
    <2>1. ASSUME NEW u \in Objs, nodelist'[u] # None \/ reading' = u, NEW i \in 1 .. Len(nodelist'[u])
          PROVE  nodelist'[u][i] <= size
      <3>1. CASE u = o
        <4>1. 1 .. Len(nodelist'[u]) = {}
          BY <1>2, <3>1
        <4>2. QED
          BY <4>1
      <3>2. CASE u # o
        <4>1. nodelist'[u] = nodelist[u]
          BY <1>1, <3>2 DEF TypeInv, TablesInv
        <4>2. QED
          BY <1>1, <2>1, <3>2, <4>1 DEF StacksInv
      <3>3. QED
        BY <3>1, <3>2
    <2>2. size' = size
      BY <1>1 DEF tree
    <2>3. QED
      BY <1>1, <2>1, <2>2 DEF StacksInv
  <1>5. Opened(o)'
    <2>1. size' = size /\ Len(path') = 0 /\ 1 .. Len(path') = {} /\ 1 .. nelems'[o] = {}
      BY <1>1, <1>2 DEF tree
    <2>2. 0 <= size' - nelems'[o]
      BY <1>2, <2>1
    <2>3. level'[o] = Ground(o) + Len(path')
      BY <1>1, <2>1, Grounds
    <2>4. QED
      BY <2>1, <2>2, <2>3 DEF Opened
  <1>6. QED
    BY <1>1, <1>3, <1>4, <1>5

(* The documents that are open, and their links.                           *)
OrderInv == LinksInv /\ StacksInv /\ OpenInv

LEMMA OrderInit == Init => OrderInv
  <1> SUFFICES ASSUME Init PROVE OrderInv
    OBVIOUS
  <1>1. LinksInv
    <2>1. \A y \in Nodes : up[y] = 0 /\ parent[y] = 0 /\ first[y] = 0 /\ next[y] = 0 /\ y # 0
      BY Numbers DEF Init
    <2>2. \A p \in Nodes : FirstRight(p)
      <3>1. ASSUME NEW p \in Nodes PROVE FirstRight(p)
        BY <2>1 DEF FirstRight
      <3>2. QED
        BY <3>1
    <2>3. \A y, z \in Nodes : up[y] <= up[z]
      BY <2>1
    <2>4. parent = up /\ DOMAIN name = Nodes
      BY DEF Init
    <2>5. QED
      BY <2>1, <2>2, <2>3, <2>4 DEF LinksInv
  <1>2. StacksInv
    <2>1. ASSUME NEW o \in Objs PROVE Ground(o) < MaxLevel /\ reading # o /\ nodelist[o] = None
      <3>1. Ground(o) \in {-1, 0} /\ o # None
        BY Grounds
      <3>2. Ground(o) < MaxLevel
        BY <3>1, Numbers
      <3>3. QED
        BY <3>1, <3>2 DEF Init
    <2>2. 0 \in 0 .. MaxLevel - 1 /\ 0 <= 0
      BY Numbers
    <2>3. QED
      BY <2>1, <2>2 DEF Init, StacksInv, Objs
  <1>3. OpenInv
    <2>1. \A o \in Objs : reading # o
      BY Grounds DEF Init
    <2>2. QED
      BY <2>1 DEF OpenInv
  <1>4. QED
    BY <1>1, <1>2, <1>3 DEF OrderInv

LEMMA Running == [Next]_vars => (Runs' => Runs)
  <1> SUFFICES ASSUME [Next]_vars, Runs' PROVE Runs
    OBVIOUS
  <1>1. CASE UNCHANGED vars
    BY <1>1 DEF vars, Runs
  <1>2. CASE Next
    BY <1>2 DEF Next, PutBack, ResponseText, ResponseStream, FinalizeStream, ResponseXml, LoadXml, ParseXml, MayRead,
       StartElement, Begins, EndElement, ParseReturns, LoopBegins, XdomLoopBegins, LoopTurn, LoopEnds, Shrink,
       Collect, ContextEnds, Idle, ScriptRuns
  <1>3. QED
    BY <1>1, <1>2

LEMMA OrderNext == Orderly /\ TypeInv /\ OrderInv /\ [Next]_vars => OrderInv'
  <1> SUFFICES ASSUME Orderly, TypeInv, OrderInv, [Next]_vars PROVE OrderInv'
    OBVIOUS
  <1>1. LinksInv /\ StacksInv
    BY DEF OrderInv
  <1>2. ASSUME NEW o \in Objs, reading' = o, LinksInv' /\ StacksInv' /\ (Runs' => Opened(o)') PROVE OrderInv'
    <2>1. OpenInv'
      BY <1>2 DEF OpenInv
    <2>2. QED
      BY <1>2, <2>1 DEF OrderInv
  <1>3. CASE \E o \in Objs : ParseXml(o)
    <2>1. PICK o \in Objs : ParseXml(o)
      BY <1>3
    <2>2. LinksInv' /\ StacksInv' /\ Opened(o)' /\ reading' = o
      BY <1>1, <2>1, OpenParse
    <2>3. QED
      BY <1>2, <2>2
  <1>4. CASE \E o \in Objs, n \in Names : StartElement(o, n)
    <2>1. PICK o \in Objs, n \in Names : StartElement(o, n)
      BY <1>4
    <2>2. reading = o /\ reading' = o /\ Runs
      BY <2>1 DEF StartElement, Begins
    <2>3. Opened(o)
      BY <2>2 DEF OrderInv, OpenInv
    <2>4. CASE Refused(o)
      <3>1. LinksInv' /\ StacksInv' /\ (Runs' => Opened(o)')
        BY <1>1, <2>1, <2>3, <2>4, OpenRefused
      <3>2. QED
        BY <1>2, <2>2, <3>1
    <2>5. CASE ~Refused(o)
      <3>1. PICK y : Linked(size + 1, Around, y)
        BY <1>1, <2>1, <2>2, <2>3, <2>5, NewLinks
      <3>2. nelems[o] < MaxElems /\ size < MaxNodes /\ name' = [name EXCEPT ![size + 1] = n]
        BY <1>1, <2>1, <2>5, MadeTables
      <3>3. PICK x : x = size + 1
        OBVIOUS
      <3>4. PICK p : p = Around
        OBVIOUS
      <3>5. LinksInv'
        BY <1>1, <2>2, <2>3, <3>1, <3>2, <3>3, <3>4, LinksGrow
      <3>6. StacksInv'
        BY <1>1, <2>1, <2>5, StacksGrow
      <3>7. Opened(o)'
        BY <1>1, <2>1, <2>3, <2>5, OpenGrow
      <3>8. QED
        BY <1>2, <2>2, <3>5, <3>6, <3>7
    <2>6. QED
      BY <2>4, <2>5
  <1>5. CASE \E o \in Objs : EndElement(o)
    <2>1. PICK o \in Objs : EndElement(o)
      BY <1>5
    <2>2. reading = o /\ reading' = o /\ Runs /\ UNCHANGED <<tree, up>>
      BY <2>1 DEF EndElement
    <2>3. Opened(o)
      BY <2>2 DEF OrderInv, OpenInv
    <2>4. Opened(o)' /\ StacksInv'
      BY <1>1, <2>1, <2>3, OpenEnds
    <2>5. LinksInv'
      BY <1>1, <2>2, LinksStay
    <2>6. QED
      BY <1>2, <2>2, <2>4, <2>5
  <1>6. CASE \/ \E o \in Xhrs : PutBack(o) \/ ResponseText(o) \/ ResponseStream(o) \/ FinalizeStream(o)
             \/ \E o \in Xhrs : ResponseXml(o) /\ ~ParseXml(o)
             \/ \E o \in Objs : ParseReturns(o)
             \/ \E x \in 1 .. size, n \in Names : LoopBegins(x, n)
             \/ \E o \in DomDocs, n \in Names : XdomLoopBegins(o, n)
             \/ LoopTurn \/ LoopEnds \/ Shrink
             \/ \E x \in Nodes : Collect(x)
             \/ ContextEnds
             \/ UNCHANGED vars
    <2>1. Elsewhere
      BY <1>6, ElsewhereSteps
    <2>2. LinksInv'
      BY <1>1, <2>1, LinksStay DEF Elsewhere
    <2>3. UNCHANGED <<size, up, nelems, apelems, level, stack, nodelist>> /\ reading' \in {reading, None}
          /\ (reading' # None => path' = path)
      BY <2>1 DEF Elsewhere, tree, xdom
    <2>4. \A o \in Objs : reading' = o => reading = o /\ path' = path
      BY <2>3, Grounds
    <2>5. StacksInv'
      BY <1>1, <2>3, <2>4 DEF StacksInv
    <2>6. OpenInv'
      <3>1. ASSUME Runs', NEW o \in Objs, reading' = o PROVE Opened(o)'
        <4>1. Opened(o) /\ path' = path
          BY <2>4, <3>1, Running DEF OrderInv, OpenInv
        <4>2. QED
          BY <2>3, <4>1 DEF Opened
      <3>2. QED
        BY <3>1 DEF OpenInv
    <2>7. QED
      BY <2>2, <2>5, <2>6 DEF OrderInv
  <1>7. QED
    BY <1>3, <1>4, <1>5, <1>6 DEF Next, LoadXml, Objs

-----------------------------------------------------------------------------
(* The loop                                                                *)

(* What is inside an element, by what its nodes are in.                    *)
InsideRules ==
  \A x \in Nodes : \A y : y \in Inside(x) <=> y \in 1 .. size /\ (up[y] = x \/ up[y] \in Inside(x))

LEMMA InsideRule == TypeInv => InsideRules
  <1> SUFFICES ASSUME TypeInv, NEW x \in Nodes, NEW y
               PROVE  y \in Inside(x) <=> y \in 1 .. size /\ (up[y] = x \/ up[y] \in Inside(x))
    BY DEF InsideRules
  <1>1. Inside(x) \subseteq 1 .. size
    BY Below
  <1>2. ASSUME y \in Inside(x) PROVE y \in 1 .. size /\ (up[y] = x \/ up[y] \in Inside(x))
    BY <1>1, <1>2, InsideUp
  <1>3. ASSUME y \in 1 .. size, up[y] = x \/ up[y] \in Inside(x) PROVE y \in Inside(x)
    BY <1>3, InsideDown
  <1>4. QED
    BY <1>2, <1>3

(* New nodes do not get into an element that is not open.                  *)
LEMMA InsideKept ==
  ASSUME TypeInv, LinksInv, InsideRules', NEW r \in Nodes, size' \in Nat, size <= size',
         \A y \in 1 .. size : up'[y] = up[y],
         \A y \in 1 .. size' : y > size => up'[y] \in 0 .. size /\ up'[y] # r /\ up'[y] \notin Inside(r)
  PROVE  Inside(r)' = Inside(r)
  <1>1. PICK I : I = Inside(r)
    OBVIOUS
  <1>2. PICK J : J = Inside(r)'
    OBVIOUS
  <1>3. \A y : y \in I <=> y \in 1 .. size /\ (up[y] = r \/ up[y] \in I)
    BY <1>1, InsideRule DEF InsideRules
  <1>4. \A y : y \in J <=> y \in 1 .. size' /\ (up'[y] = r \/ up'[y] \in J)
    BY <1>2 DEF InsideRules
  <1>5. \A y \in 1 .. size : up[y] \in Nat /\ up[y] < y
    BY Made
  <1>6. size \in Nat
    BY Made
  <1> DEFINE D == {y \in 1 .. size' : ~(y \in I <=> y \in J)}
  <1>7. D = {}
    <2> SUFFICES ASSUME D # {} PROVE FALSE
      OBVIOUS
    <2>1. D \subseteq Nat
      OBVIOUS
    <2>2. PICK m \in D : \A k \in D : m <= k
      <3> HIDE DEF D
      <3>1. QED
        BY <2>1, LeastNumber
    <2>3. m \in 1 .. size' /\ ~(m \in I <=> m \in J)
      OBVIOUS
    <2>4. \A k \in 1 .. size' : k < m => (k \in I <=> k \in J)
      <3>1. \A k \in 1 .. size' : k < m => k \notin D
        <4>1. ASSUME NEW k \in 1 .. size', k < m, k \in D PROVE FALSE
          <5>1. m <= k
            <6> HIDE DEF D
            <6>1. QED
              BY <2>2, <4>1
          <5>2. QED
            BY <2>3, <4>1, <5>1
        <4>2. QED
          BY <4>1
      <3>2. QED
        BY <3>1
    <2> HIDE DEF D
    <2>5. 0 \notin I /\ 0 \notin J
      BY <1>3, <1>4
    <2>6. CASE m > size
      <3>1. m \notin I
        BY <1>3, <1>6, <2>3, <2>6
      <3>2. up'[m] \in 0 .. size /\ up'[m] # r /\ up'[m] \notin I
        BY <1>1, <2>3, <2>6
      <3>3. up'[m] \notin J
        <4>1. PICK u : u = up'[m]
          OBVIOUS
        <4>2. CASE u = 0
          BY <2>5, <4>1, <4>2
        <4>3. CASE u # 0
          <5>1. u \in 1 .. size' /\ u < m
            BY <1>6, <2>3, <2>6, <3>2, <4>1, <4>3
          <5>2. QED
            BY <2>4, <3>2, <4>1, <5>1
        <4>4. QED
          BY <4>2, <4>3
      <3>4. QED
        BY <1>4, <2>3, <3>1, <3>2, <3>3
    <2>7. CASE ~(m > size)
      <3>1. m \in 1 .. size /\ up'[m] = up[m]
        BY <1>6, <2>3, <2>7
      <3>2. PICK u : u = up[m]
        OBVIOUS
      <3>3. u \in I <=> u \in J
        <4>1. CASE u = 0
          BY <2>5, <4>1
        <4>2. CASE u # 0
          <5>1. u \in 1 .. size' /\ u < m
            BY <1>5, <1>6, <2>3, <3>1, <3>2, <4>2
          <5>2. QED
            BY <2>4, <5>1
        <4>3. QED
          BY <4>1, <4>2
      <3>4. QED
        BY <1>3, <1>4, <2>3, <3>1, <3>2, <3>3
    <2>8. QED
      BY <2>6, <2>7
  <1>8. I \subseteq 1 .. size' /\ J \subseteq 1 .. size'
    <2>1. 1 .. size \subseteq 1 .. size'
      BY <1>6
    <2>2. QED
      BY <1>3, <1>4, <2>1
  <1>9. I = J
    <2>1. \A y \in 1 .. size' : y \in I <=> y \in J
      BY <1>7
    <2> HIDE DEF D
    <2>2. QED
      BY <1>8, <2>1
  <1>10. QED
    BY <1>1, <1>2, <1>9

(* An element that is not open, and its elements of a name.                *)
Stands(r, n, all) ==
  /\ r \in 1 .. size
  /\ \A k \in 1 .. Len(path) : path[k] # r /\ path[k] \notin Inside(r)
  /\ Lists(all, Named(r, n))

(* How far the loop has come: l is left of the collection, s was seen and  *)
(* c have been taken out.                                                  *)
Seen(l, s, c, all) ==
  /\ l \in Seq(Nodes) /\ s \in Seq(Nodes) /\ c \in Nat
  /\ Len(s) <= Len(l) /\ Len(l) + c = Len(all)
  /\ \A i \in 1 .. Len(l) : l[i] = all[i]
  /\ \A i \in 1 .. Len(s) : s[i] = all[i]

Turning(r, n, l, s, c, all) ==
  /\ loop = [root |-> r, tag |-> n, list |-> l, ncurrent |-> Len(s), seen |-> s, cut |-> c]
  /\ Stands(r, n, all)
  /\ Seen(l, s, c, all)

LoopInv == loop # None => \E r, n, l, s, c, all : Turning(r, n, l, s, c, all)

LEMMA StandsStill ==
  ASSUME TypeInv, LinksInv, InsideRules', NEW r, NEW n, NEW all, Stands(r, n, all),
         size' \in Nat, size <= size',
         \A y \in 1 .. size : up'[y] = up[y] /\ name'[y] = name[y],
         \A y \in 1 .. size' : y > size => up'[y] \in 0 .. size /\ up'[y] # r /\ up'[y] \notin Inside(r),
         \A k \in 1 .. Len(path') : path'[k] = 0 \/ path'[k] > size \/ \E i \in 1 .. Len(path) : path'[k] = path[i]
  PROVE  Stands(r, n, all)'
  <1>1. r \in 1 .. size /\ r \in Nodes /\ size \in Nat
    BY Made DEF Stands
  <1>2. Inside(r)' = Inside(r)
    BY <1>1, InsideKept
  <1>3. Inside(r) \subseteq 1 .. size
    BY Below
  <1>4. Named(r, n)' = Named(r, n)
    BY <1>2, <1>3 DEF Named
  <1>5. ASSUME NEW k \in 1 .. Len(path') PROVE path'[k] # r /\ path'[k] \notin Inside(r)
    <2>1. CASE path'[k] = 0 \/ path'[k] > size
      BY <1>1, <1>3, <2>1
    <2>2. CASE \E i \in 1 .. Len(path) : path'[k] = path[i]
      BY <2>2 DEF Stands
    <2>3. QED
      BY <2>1, <2>2
  <1>6. r \in 1 .. size'
    BY <1>1
  <1>7. Lists(all, Named(r, n)')
    BY <1>4 DEF Stands
  <1>8. QED
    BY <1>2, <1>5, <1>6, <1>7 DEF Stands, Lists

(* The loop begins: as no document is open, no element is.                 *)
LEMMA TurningBegins ==
  ASSUME TypeInv, LinksInv, NEW x, NEW n, x \in 1 .. size, LoopBegins(x, n), loop' # None
  PROVE  \E all : /\ loop' = [root |-> x, tag |-> n, list |-> all, ncurrent |-> Len(<<>>), seen |-> <<>>, cut |-> 0]
                  /\ Stands(x, n, all) /\ Seen(all, <<>>, 0, all)
  <1>1. reading = None /\ loop = None /\ x \in Nodes
    BY Made DEF LoopBegins, Idle, ScriptRuns
  <1>2. PICK all : all = GetElementsByTagName(x, n)
    OBVIOUS
  <1>3. loop' = [root |-> x, tag |-> n, list |-> all, ncurrent |-> 0, seen |-> <<>>, cut |-> 0]
    BY <1>1, <1>2 DEF LoopBegins, Stops
  <1>4. Lists(all, Named(x, n))
    BY <1>1, <1>2, Found
  <1>5. path = <<>>
    BY <1>1 DEF TypeInv, ReadInv
  <1>6. Stands(x, n, all)
    <2>1. 1 .. Len(path) = {}
      BY <1>5
    <2>2. QED
      BY <1>4, <2>1 DEF Stands
  <1>7. Seen(all, <<>>, 0, all)
    <2>1. all \in Seq(Nodes) /\ Len(all) \in Nat
      BY <1>4, LenProperties DEF Lists
    <2>2. Len(<<>>) = 0 /\ <<>> \in Seq(Nodes) /\ 1 .. 0 = {}
      OBVIOUS
    <2>3. QED
      BY <2>1, <2>2 DEF Seen
  <1>8. Len(<<>>) = 0
    OBVIOUS
  <1>9. QED
    BY <1>3, <1>6, <1>7, <1>8

LEMMA TurningTurns ==
  ASSUME TypeInv, NEW r, NEW n, NEW l, NEW s, NEW c, NEW all, Turning(r, n, l, s, c, all), LoopTurn
  PROVE  /\ loop' = [root |-> r, tag |-> n, list |-> l, ncurrent |-> Len(Append(s, Item)),
                     seen |-> Append(s, Item), cut |-> c]
         /\ Seen(l, Append(s, Item), c, all)
  <1>1. /\ loop = [root |-> r, tag |-> n, list |-> l, ncurrent |-> Len(s), seen |-> s, cut |-> c]
        /\ l \in Seq(Nodes) /\ s \in Seq(Nodes) /\ c \in Nat
        /\ Len(s) <= Len(l) /\ Len(l) + c = Len(all)
        /\ \A i \in 1 .. Len(l) : l[i] = all[i]
        /\ \A i \in 1 .. Len(s) : s[i] = all[i]
    BY DEF Turning, Seen
  <1>2. loop.list = l /\ loop.ncurrent = Len(s) /\ Len(s) \in Nat /\ Len(l) \in Nat
    BY <1>1, LenProperties
  <1>3. Len(s) < Len(l)
    BY <1>1, <1>2 DEF LoopTurn, AtEnd
  <1>4. Item = l[Len(s) + 1]
    BY <1>2, <1>3 DEF Item
  <1>5. PICK y : y = l[Len(s) + 1]
    OBVIOUS
  <1>6. y \in Nodes /\ y = all[Len(s) + 1]
    <2>1. Len(s) + 1 \in 1 .. Len(l)
      BY <1>2, <1>3
    <2>2. QED
      BY <1>1, <1>5, <2>1, ElementOfSeq
  <1>7. /\ Append(s, y) \in Seq(Nodes) /\ Len(Append(s, y)) = Len(s) + 1
        /\ \A i \in 1 .. Len(s) + 1 : Append(s, y)[i] = all[i]
    <2>1. Append(s, y) \in Seq(Nodes)
      BY <1>1, <1>6
    <2>2. Len(Append(s, y)) = Len(s) + 1
      BY <1>1, <1>6
    <2>3. ASSUME NEW i \in 1 .. Len(s) + 1 PROVE Append(s, y)[i] = all[i]
      <3>1. CASE i = Len(s) + 1
        BY <1>1, <1>6, <3>1
      <3>2. CASE i # Len(s) + 1
        <4>1. i \in 1 .. Len(s)
          BY <1>2, <3>2
        <4>2. Append(s, y)[i] = s[i]
          BY <1>1, <1>6, <4>1
        <4>3. QED
          BY <1>1, <4>1, <4>2
      <3>3. QED
        BY <3>1, <3>2
    <2>4. QED
      BY <2>1, <2>2, <2>3
  <1>8. Seen(l, Append(s, y), c, all)
    <2>1. Len(s) + 1 <= Len(l)
      BY <1>2, <1>3
    <2>2. QED
      BY <1>1, <1>7, <2>1 DEF Seen
  <1>9. loop' = [root |-> r, tag |-> n, list |-> l, ncurrent |-> Len(s) + 1, seen |-> Append(s, y), cut |-> c]
    <2>1. loop' = [loop EXCEPT !.seen = Append(@, Item), !.ncurrent = @ + 1]
      BY DEF LoopTurn
    <2>2. loop' = [loop EXCEPT !.seen = Append(s, y), !.ncurrent = Len(s) + 1]
      BY <1>1, <1>4, <1>5, <2>1
    <2>3. QED
      BY <1>1, <2>2
  <1>10. QED
    BY <1>4, <1>5, <1>7, <1>8, <1>9

LEMMA TurningShrinks ==
  ASSUME TypeInv, "shrink" \notin Env, NEW r, NEW n, NEW l, NEW s, NEW c, NEW all, Turning(r, n, l, s, c, all), Shrink
  PROVE  /\ loop' = [root |-> r, tag |-> n, list |-> Front(l), ncurrent |-> Len(s), seen |-> s, cut |-> c + 1]
         /\ Seen(Front(l), s, c + 1, all)
  <1>1. /\ loop = [root |-> r, tag |-> n, list |-> l, ncurrent |-> Len(s), seen |-> s, cut |-> c]
        /\ l \in Seq(Nodes) /\ s \in Seq(Nodes) /\ c \in Nat
        /\ Len(s) <= Len(l) /\ Len(l) + c = Len(all)
        /\ \A i \in 1 .. Len(l) : l[i] = all[i]
        /\ \A i \in 1 .. Len(s) : s[i] = all[i]
    BY DEF Turning, Seen
  <1>2. loop.list = l /\ loop.ncurrent = Len(s) /\ Len(s) \in Nat /\ Len(l) \in Nat
    BY <1>1, LenProperties
  <1>3. l # <<>> /\ Len(s) < Len(l)
    BY <1>1, <1>2 DEF Shrink, AtEnd
  <1>4. Front(l) \in Seq(Nodes) /\ Len(Front(l)) = Len(l) - 1
    BY <1>1, <1>3, Shorter
  <1>5. \A i \in 1 .. Len(l) - 1 : Front(l)[i] = l[i]
    BY <1>1, FrontIs
  <1>6. Seen(Front(l), s, c + 1, all)
    <2>1. Len(s) <= Len(Front(l)) /\ Len(Front(l)) + (c + 1) = Len(all) /\ c + 1 \in Nat
      <3>1. PICK i, j, k : i = Len(s) /\ j = Len(l) /\ k = Len(all)
        OBVIOUS
      <3>2. i \in Nat /\ j \in Nat /\ c \in Nat /\ i < j /\ j + c = k
        BY <1>1, <1>2, <1>3, <3>1
      <3>3. i <= j - 1 /\ j - 1 + (c + 1) = k /\ c + 1 \in Nat
        BY <3>2
      <3>4. QED
        BY <1>4, <3>1, <3>3
    <2>2. ASSUME NEW i \in 1 .. Len(Front(l)) PROVE Front(l)[i] = all[i]
      <3>1. i \in 1 .. Len(l) - 1 /\ i \in 1 .. Len(l)
        BY <1>2, <1>4
      <3>2. QED
        BY <1>1, <1>5, <3>1
    <2>3. QED
      BY <1>1, <1>4, <2>1, <2>2 DEF Seen
  <1>7. loop' = [root |-> r, tag |-> n, list |-> Front(l), ncurrent |-> Len(s), seen |-> s, cut |-> c + 1]
    <2>1. loop' = [loop EXCEPT !.list = Front(l), !.cut = c + 1]
      BY <1>1 DEF Shrink
    <2>2. QED
      BY <1>1, <2>1
  <1>8. QED
    BY <1>6, <1>7

LEMMA StandsNext ==
  ASSUME Orderly, TypeInv, OrderInv, InsideRules', [Next]_vars, NEW r, NEW n, NEW all, Stands(r, n, all)
  PROVE  Stands(r, n, all)'
  <1>1. LinksInv /\ StacksInv /\ size \in Nat /\ path \in Seq(0 .. size) /\ Len(path) \in Nat
    <2>1. LinksInv /\ StacksInv /\ path \in Seq(0 .. size)
      BY DEF OrderInv, TypeInv, ReadInv
    <2>2. QED
      BY <2>1, Made, LenProperties
  <1>2. ASSUME UNCHANGED <<tree, up>>,
               \A k \in 1 .. Len(path') : path'[k] = 0 \/ \E i \in 1 .. Len(path) : path'[k] = path[i]
        PROVE  Stands(r, n, all)'
    <2>1. UNCHANGED <<size, up, name>>
      BY <1>2 DEF tree
    <2>2. \A y \in 1 .. size' : ~(y > size)
      BY <1>1, <2>1
    <2>3. QED
      BY <1>1, <1>2, <2>1, <2>2, StandsStill
  <1>3. CASE \E o \in Objs : ParseXml(o)
    BY <1>2, <1>3 DEF ParseXml
  <1>4. CASE \E o \in Objs, m \in Names : StartElement(o, m)
    <2>1. PICK o \in Objs, m \in Names : StartElement(o, m)
      BY <1>4
    <2>2. CASE Refused(o)
      <3>1. UNCHANGED <<tree, up>> /\ (path' = path \/ path' = Append(path, 0))
        BY <2>1, <2>2 DEF StartElement, Refused
      <3>2. ASSUME path' = Append(path, 0), NEW k \in 1 .. Len(path')
            PROVE  path'[k] = 0 \/ \E i \in 1 .. Len(path) : path'[k] = path[i]
        <4>1. Len(path') = Len(path) + 1 /\ path'[Len(path) + 1] = 0 /\ \A i \in 1 .. Len(path) : path'[i] = path[i]
          BY <1>1, <3>2
        <4>2. CASE k = Len(path) + 1
          BY <4>1, <4>2
        <4>3. CASE k # Len(path) + 1
          <5>1. k \in 1 .. Len(path)
            BY <1>1, <3>2, <4>1, <4>3
          <5>2. QED
            BY <4>1, <5>1
        <4>4. QED
          BY <4>2, <4>3
      <3>3. QED
        BY <1>2, <3>1, <3>2
    <2>3. CASE ~Refused(o)
      <3>1. /\ reading = o /\ size' = size + 1 /\ size < MaxNodes /\ nelems[o] < MaxElems
            /\ path' = Append(path, size + 1) /\ name' = [name EXCEPT ![size + 1] = m]
        BY <1>1, <2>1, <2>3, MadeTables
      <3>2. up' = [up EXCEPT ![size + 1] = Around]
        <4>1. NewNode(o, m, size + 1)
          BY <2>1, <2>3, NodeMade
        <4>2. QED
          BY <4>1 DEF NewNode, Around
      <3>3. Opened(o)
        <4>1. Runs
          BY <2>1 DEF StartElement, Begins
        <4>2. QED
          BY <3>1, <4>1 DEF OrderInv, OpenInv
      <3>4. /\ Around \in 0 .. size
            /\ path # <<>> => Around = path[Len(path)] /\ Len(path) \in Nat \ {0}
        BY <1>1, <3>1, <3>3, AroundIs
      <3>5. Inside(r) \subseteq 1 .. size /\ r \in 1 .. size
        BY Below DEF Stands
      <3>6. Around # r /\ Around \notin Inside(r)
        <4>1. CASE path = <<>>
          <5>1. Around = 0
            BY <4>1 DEF Around
          <5>2. QED
            BY <1>1, <3>5, <5>1
        <4>2. CASE path # <<>>
          BY <3>4, <4>2 DEF Stands
        <4>3. QED
          BY <4>1, <4>2
      <3>7. \A y \in 1 .. size : up'[y] = up[y] /\ name'[y] = name[y]
        <4>1. \A y \in 1 .. size : y # size + 1 /\ y \in Nodes
          BY <1>1, Made
        <4>2. DOMAIN name = Nodes /\ up \in [Nodes -> Ptrs]
          BY <1>1 DEF LinksInv, TypeInv, NodesInv
        <4>3. QED
          BY <3>1, <3>2, <4>1, <4>2
      <3>8. ASSUME NEW y \in 1 .. size', y > size PROVE up'[y] \in 0 .. size /\ up'[y] # r /\ up'[y] \notin Inside(r)
        <4>1. y = size + 1
          BY <1>1, <3>1, <3>8
        <4>2. size + 1 \in Nodes
          BY <2>1, <2>3, NodeMade
        <4>3. up'[y] = Around
          BY <3>2, <4>1, <4>2 DEF TypeInv, NodesInv
        <4>4. QED
          BY <3>4, <3>6, <4>3
      <3>9. ASSUME NEW k \in 1 .. Len(path') PROVE path'[k] > size \/ \E i \in 1 .. Len(path) : path'[k] = path[i]
        <4>1. path' \in Seq(0 .. size + 1) /\ Len(path') = Len(path) + 1
          <5>1. size + 1 \in 0 .. size + 1 /\ 0 .. size \subseteq 0 .. size + 1
            BY <1>1
          <5>2. QED
            BY <1>1, <3>1, <5>1, Longer
        <4>2. path'[Len(path) + 1] = size + 1 /\ \A i \in 1 .. Len(path) : path'[i] = path[i]
          BY <1>1, <3>1
        <4>3. CASE k = Len(path) + 1
          BY <1>1, <4>2, <4>3
        <4>4. CASE k # Len(path) + 1
          <5>1. k \in 1 .. Len(path)
            BY <1>1, <3>9, <4>1, <4>4
          <5>2. QED
            BY <4>2, <5>1
        <4>5. QED
          BY <4>3, <4>4
      <3>10. size' \in Nat /\ size <= size'
        BY <1>1, <3>1
      <3>11. QED
        BY <1>1, <3>7, <3>8, <3>9, <3>10, StandsStill
    <2>4. QED
      BY <2>2, <2>3
  <1>5. CASE \E o \in Objs : EndElement(o)
    <2>1. PICK o \in Objs : EndElement(o)
      BY <1>5
    <2>2. path # <<>> /\ path' = Front(path) /\ UNCHANGED <<tree, up>>
      BY <2>1 DEF EndElement
    <2>3. ASSUME NEW k \in 1 .. Len(path') PROVE \E i \in 1 .. Len(path) : path'[k] = path[i]
      <3>1. Len(path') = Len(path) - 1
        BY <1>1, <2>2, Shorter
      <3>2. k \in 1 .. Len(path) - 1 /\ k \in 1 .. Len(path)
        BY <1>1, <2>3, <3>1
      <3>3. path'[k] = path[k]
        BY <1>1, <2>2, <3>2, FrontIs
      <3>4. QED
        BY <3>2, <3>3
    <2>4. QED
      BY <1>2, <2>2, <2>3
  <1>6. CASE \/ \E o \in Xhrs : PutBack(o) \/ ResponseText(o) \/ ResponseStream(o) \/ FinalizeStream(o)
             \/ \E o \in Xhrs : ResponseXml(o) /\ ~ParseXml(o)
             \/ \E o \in Objs : ParseReturns(o)
             \/ \E x \in 1 .. size, m \in Names : LoopBegins(x, m)
             \/ \E o \in DomDocs, m \in Names : XdomLoopBegins(o, m)
             \/ LoopTurn \/ LoopEnds \/ Shrink
             \/ \E x \in Nodes : Collect(x)
             \/ ContextEnds
             \/ UNCHANGED vars
    <2>1. UNCHANGED <<tree, up>> /\ (path' = path \/ path' = <<>>)
      BY <1>6, ElsewhereSteps DEF Elsewhere
    <2>2. path' = <<>> => 1 .. Len(path') = {}
      OBVIOUS
    <2>3. QED
      BY <1>2, <2>1, <2>2
  <1>7. QED
    BY <1>3, <1>4, <1>5, <1>6 DEF Next, LoadXml, Objs

LEMMA LoopNext ==
  Orderly /\ "shrink" \notin Env /\ TypeInv /\ OrderInv /\ LoopInv /\ InsideRules' /\ [Next]_vars => LoopInv'
  <1> SUFFICES ASSUME Orderly, "shrink" \notin Env, TypeInv, OrderInv, LoopInv, InsideRules', [Next]_vars, loop' # None
               PROVE  \E r, n, l, s, c, all : Turning(r, n, l, s, c, all)'
    BY DEF LoopInv
  <1>1. LinksInv /\ StacksInv
    BY DEF OrderInv
  <1>2. ASSUME NEW r, NEW n, NEW l, NEW s, NEW c, NEW all, Stands(r, n, all), Seen(l, s, c, all),
               loop' = [root |-> r, tag |-> n, list |-> l, ncurrent |-> Len(s), seen |-> s, cut |-> c]
        PROVE  \E q, m, t, u, d, whole : Turning(q, m, t, u, d, whole)'
    <2>1. Stands(r, n, all)'
      BY <1>2, StandsNext
    <2>2. Turning(r, n, l, s, c, all)'
      BY <1>2, <2>1 DEF Turning, Seen
    <2>3. QED
      BY <2>2
  <1>3. loop # None => \E r, n, l, s, c, all : Turning(r, n, l, s, c, all) /\ Stands(r, n, all) /\ Seen(l, s, c, all)
    BY DEF LoopInv, Turning
  <1>4. CASE loop' = loop
    <2>1. PICK r, n, l, s, c, all : Turning(r, n, l, s, c, all) /\ Stands(r, n, all) /\ Seen(l, s, c, all)
      BY <1>3, <1>4
    <2>2. loop' = [root |-> r, tag |-> n, list |-> l, ncurrent |-> Len(s), seen |-> s, cut |-> c]
      BY <1>4, <2>1 DEF Turning
    <2>3. QED
      BY <1>2, <2>1, <2>2
  <1>5. ASSUME NEW x, NEW n, x \in 1 .. size, LoopBegins(x, n)
        PROVE  \E r, m, l, s, c, all : Turning(r, m, l, s, c, all)'
    <2>1. PICK all : /\ loop' = [root |-> x, tag |-> n, list |-> all, ncurrent |-> Len(<<>>), seen |-> <<>>, cut |-> 0]
                     /\ Stands(x, n, all) /\ Seen(all, <<>>, 0, all)
      BY <1>1, <1>5, TurningBegins
    <2>2. QED
      BY <1>2, <2>1
  <1>6. CASE \E o \in DomDocs, n \in Names : XdomLoopBegins(o, n)
    <2>1. PICK o \in DomDocs, n \in Names : XdomLoopBegins(o, n)
      BY <1>6
    <2>2. CASE nodelist[o] = None
      <3>1. loop' = loop
        BY <2>1, <2>2 DEF XdomLoopBegins, Stops
      <3>2. QED
        BY <1>4, <3>1
    <2>3. CASE nodelist[o] # None
      <3>1. LoopBegins(nodelist[o][1], n) /\ nodelist[o] # <<>> /\ o \in Objs
        BY <2>1, <2>3 DEF XdomLoopBegins, Objs
      <3>2. nodelist[o] \in Seq(Nodes)
        BY <2>3, <3>1 DEF TypeInv, TablesInv
      <3>3. Len(nodelist[o]) \in Nat \ {0}
        BY <3>1, <3>2, EmptySeq, LenProperties
      <3>4. nodelist[o][1] \in Nodes /\ nodelist[o][1] <= size
        <4>1. 1 \in 1 .. Len(nodelist[o])
          BY <3>3
        <4>2. nodelist[o][1] \in Nodes
          BY <3>2, <4>1, ElementOfSeq
        <4>3. nodelist[o][1] <= size
          BY <1>1, <2>3, <3>1, <4>1 DEF StacksInv
        <4>4. QED
          BY <4>2, <4>3
      <3>5. PICK x : x = nodelist[o][1]
        OBVIOUS
      <3>6. x \in 1 .. size
        BY <1>1, <3>4, <3>5, Made
      <3>7. LoopBegins(x, n)
        BY <3>1, <3>5
      <3>8. QED
        BY <1>5, <3>6, <3>7
    <2>4. QED
      BY <2>2, <2>3
  <1>7. CASE LoopTurn
    <2>1. loop # None
      BY <1>7 DEF LoopTurn
    <2>2. PICK r, n, l, s, c, all : Turning(r, n, l, s, c, all) /\ Stands(r, n, all) /\ Seen(l, s, c, all)
      BY <1>3, <2>1
    <2>3. PICK t : t = Append(s, Item)
      OBVIOUS
    <2>4. /\ loop' = [root |-> r, tag |-> n, list |-> l, ncurrent |-> Len(t), seen |-> t, cut |-> c]
          /\ Seen(l, t, c, all)
      BY <1>7, <2>2, <2>3, TurningTurns
    <2>5. QED
      BY <1>2, <2>2, <2>4
  <1>8. CASE Shrink
    <2>1. loop # None
      BY <1>8 DEF Shrink
    <2>2. PICK r, n, l, s, c, all : Turning(r, n, l, s, c, all) /\ Stands(r, n, all) /\ Seen(l, s, c, all)
      BY <1>3, <2>1
    <2>3. /\ loop' = [root |-> r, tag |-> n, list |-> Front(l), ncurrent |-> Len(s), seen |-> s, cut |-> c + 1]
          /\ Seen(Front(l), s, c + 1, all)
      BY <1>8, <2>2, TurningShrinks
    <2>4. QED
      BY <1>2, <2>2, <2>3
  <1>9. CASE \E x \in 1 .. size, n \in Names : LoopBegins(x, n)
    BY <1>5, <1>9
  <1>10. CASE LoopEnds
    BY <1>10 DEF LoopEnds
  <1>11. \/ loop' = loop \/ LoopTurn \/ LoopEnds \/ Shrink
         \/ \E x \in 1 .. size, n \in Names : LoopBegins(x, n)
         \/ \E o \in DomDocs, n \in Names : XdomLoopBegins(o, n)
    <2>1. CASE UNCHANGED vars
      BY <2>1 DEF vars
    <2>2. CASE Next
      BY <2>2 DEF Next, PutBack, ResponseText, ResponseStream, FinalizeStream, ResponseXml, LoadXml, ParseXml,
         StartElement, EndElement, ParseReturns, Collect, ContextEnds, Stops, vars
    <2>3. QED
      BY <2>1, <2>2
  <1>12. QED
    BY <1>4, <1>6, <1>7, <1>8, <1>9, <1>10, <1>11

(* What a loop over getElementsByTagName has seen, by where it is.         *)
LEMMA Visited == LoopInv => LoopVisitsAll
  <1> SUFFICES ASSUME LoopInv, loop # None PROVE LoopVisitsAll
    BY DEF LoopVisitsAll
  <1>1. PICK r, n, l, s, c, all : Turning(r, n, l, s, c, all)
    BY DEF LoopInv
  <1>2. /\ loop.root = r /\ loop.tag = n /\ loop.list = l /\ loop.ncurrent = Len(s) /\ loop.seen = s /\ loop.cut = c
        /\ Lists(all, Named(r, n))
        /\ l \in Seq(Nodes) /\ s \in Seq(Nodes) /\ c \in Nat
        /\ Len(s) <= Len(l) /\ Len(l) + c = Len(all)
        /\ \A i \in 1 .. Len(s) : s[i] = all[i]
    BY <1>1 DEF Turning, Stands, Seen
  <1>3. PICK S : S = Named(r, n)
    OBVIOUS
  <1>4. /\ all \in Seq(Nodes) /\ \A i, j \in 1 .. Len(all) : i < j => all[i] < all[j]
        /\ \A z : z \in S <=> \E i \in 1 .. Len(all) : all[i] = z
    BY <1>2, <1>3 DEF Lists
  <1>5. Len(s) \in Nat /\ Len(l) \in Nat /\ Len(all) \in Nat /\ DOMAIN s = 1 .. Len(s)
    BY <1>2, <1>4, LenProperties
  <1>6. \A i \in 1 .. Len(s) : i \in 1 .. Len(all) /\ s[i] = all[i]
    <2>1. Len(s) <= Len(all)
      BY <1>2, <1>5
    <2>2. QED
      BY <1>2, <1>5, <2>1
  <1>7. ToSet(s) \subseteq S
    <2>1. \A i \in 1 .. Len(s) : s[i] \in S
      BY <1>4, <1>6
    <2>2. QED
      BY <1>5, <2>1 DEF ToSet
  <1>8. \A i, j \in DOMAIN s : i < j => s[i] < s[j]
    BY <1>4, <1>5, <1>6
  <1>9. ASSUME NEW i \in DOMAIN s, NEW y \in S, y < s[i] PROVE y \in ToSet(s)
    <2>1. PICK k \in 1 .. Len(all) : all[k] = y
      BY <1>4
    <2>2. i \in 1 .. Len(s) /\ i \in 1 .. Len(all) /\ s[i] = all[i]
      BY <1>5, <1>6
    <2>3. all[k] \in Nat /\ all[i] \in Nat
      <3>1. all[k] \in Nodes /\ all[i] \in Nodes
        BY <1>4, <2>2, ElementOfSeq
      <3>2. QED
        BY <3>1, Numbers
    <2>4. k < i
      <3>1. CASE i < k
        <4>1. all[i] < all[k]
          BY <1>4, <2>2, <3>1
        <4>2. QED
          BY <1>9, <2>1, <2>2, <2>3, <4>1
      <3>2. CASE i = k
        BY <1>9, <2>1, <2>2, <2>3, <3>2
      <3>3. QED
        BY <3>1, <3>2, <2>2
    <2>5. k \in 1 .. Len(s) /\ s[k] = y
      <3>1. k \in 1 .. Len(s)
        BY <1>5, <2>2, <2>4
      <3>2. QED
        BY <1>6, <2>1, <3>1
    <2>6. QED
      BY <1>5, <2>5 DEF ToSet
  <1>10. AtEnd => Len(s) + c = Cardinality(S)
    <2>1. Cardinality(S) = Len(all)
      BY <1>2, <1>3, ListLength
    <2>2. AtEnd => Len(s) = Len(l)
      BY <1>2 DEF AtEnd
    <2>3. QED
      BY <1>2, <2>1, <2>2
  <1>11. QED
    BY <1>2, <1>3, <1>7, <1>8, <1>9, <1>10 DEF LoopVisitsAll

(* getElementsByTagName and Enumerator, for all documents: a loop visits   *)
(* the elements of the name, each once and in the order of the document,   *)
(* whatever other documents are read meanwhile, if documents are complete  *)
(* and not too deep and the collection does not shrink at its end.         *)
THEOREM LoopVisitsAllAlways ==
  ASSUME Env \cap {"stale", "deep", "shrink"} = {}
  PROVE  Spec => []LoopVisitsAll
  <1>1. Orderly /\ "shrink" \notin Env
    BY DEF Orderly
  <1>2. Init => LoopInv
    BY DEF Init, LoopInv
  <1> DEFINE I == TypeInv /\ OrderInv /\ LoopInv
  <1>3. I /\ [Next]_vars => I'
    <2>1. TypeInv /\ [Next]_vars => TypeInv'
      BY TypeNext
    <2>2. TypeInv => InsideRules
      BY InsideRule
    <2>3. TypeInv /\ [Next]_vars => InsideRules'
      BY <2>1, <2>2, PTL
    <2>4. QED
      BY <1>1, <2>1, <2>3, OrderNext, LoopNext
  <1>4. I => LoopVisitsAll
    BY Visited
  <1>5. Init => I
    BY <1>2, TypeInit, OrderInit
  <1> HIDE DEF I
  <1>6. QED
    BY <1>3, <1>4, <1>5, PTL DEF Spec

-----------------------------------------------------------------------------
(* The trees                                                               *)

KidsOf(p) == Chain(next, first[p], MaxNodes)

LEMMA KidsAre ==
  /\ Kids = [p \in Nodes |-> KidsOf(p)] /\ Kids' = [p \in Nodes |-> KidsOf(p)']
  /\ \A p \in Nodes : Kids[p] = KidsOf(p)
  BY DEF Kids, KidsOf

LEMMA NextUp ==
  ASSUME TypeInv, LinksInv
  PROVE  /\ MaxNodes \in Nat /\ next \in [1 .. MaxNodes -> 0 .. MaxNodes]
         /\ LeadsUp(next, MaxNodes)
  BY Numbers DEF TypeInv, NodesInv, LinksInv, Nodes, Ptrs, LeadsUp

(* What the pointers lead to are children, and the last one ends them.     *)
LEMMA KidsIn ==
  ASSUME TypeInv, LinksInv, NEW p \in Nodes, first[p] # 0, NEW c, c = KidsOf(p)
  PROVE  /\ first[p] \in 1 .. MaxNodes /\ IsChain(next, first[p], MaxNodes, c)
         /\ Len(c) \in 1 .. MaxNodes /\ next[c[Len(c)]] = 0
         /\ \A i \in 1 .. Len(c) : c[i] \in Nodes /\ up[c[i]] = p
  <1>1. first[p] \in Nodes /\ up[first[p]] = p /\ p # 0
    <2>1. FirstRight(p)
      BY DEF LinksInv
    <2>2. QED
      BY <2>1, Made DEF FirstRight
  <1>2. first[p] \in 1 .. MaxNodes /\ c = Chain(next, first[p], MaxNodes)
    BY <1>1 DEF Nodes, KidsOf
  <1>3. /\ IsChain(next, first[p], MaxNodes, c) /\ next[c[Len(c)]] = 0
        /\ \A i \in 1 .. Len(c) : c[i] \in 1 .. MaxNodes /\ i <= c[i]
    <2>1. MaxNodes \in Nat /\ next \in [1 .. MaxNodes -> 0 .. MaxNodes] /\ LeadsUp(next, MaxNodes)
      BY NextUp
    <2>2. IsChain(next, first[p], MaxNodes, c)
      BY <1>2, <2>1, ChainIs
    <2>3. QED
      BY <1>2, <2>1, <2>2, ChainUp
  <1>4. PICK k : k = Len(c)
    OBVIOUS
  <1>5. k \in 1 .. MaxNodes /\ c[1] = first[p] /\ \A i \in 1 .. k - 1 : next[c[i]] = c[i + 1]
    BY <1>3, <1>4 DEF IsChain, Part
  <1>6. \A i \in 1 .. k : c[i] \in Nodes
    BY <1>3, <1>4 DEF Nodes
  <1> DEFINE T == {i \in 1 .. k : up[c[i]] # p}
  <1>7. T = {}
    <2> SUFFICES ASSUME T # {} PROVE FALSE
      OBVIOUS
    <2>1. PICK m \in T : \A j \in T : m <= j
      <3>1. T \subseteq Nat
        OBVIOUS
      <3> HIDE DEF T
      <3>2. QED
        BY <3>1, LeastNumber
    <2>2. m \in 1 .. k /\ up[c[m]] # p
      BY <2>1
    <2>3. m # 1
      BY <1>1, <1>5, <2>2
    <2>4. m - 1 \in 1 .. k /\ ~(m <= m - 1) /\ m - 1 \in 1 .. k - 1 /\ m - 1 + 1 = m
      BY <1>5, <2>2, <2>3
    <2>5. up[c[m - 1]] = p
      BY <2>1, <2>4
    <2>6. next[c[m - 1]] = c[m] /\ c[m - 1] \in Nodes /\ c[m] \in Nodes
      BY <1>5, <1>6, <2>2, <2>4
    <2>7. NextRight(c[m - 1]) /\ next[c[m - 1]] # 0
      BY <1>1, <2>5, <2>6, Made DEF LinksInv
    <2>8. QED
      BY <2>2, <2>5, <2>6, <2>7 DEF NextRight
  <1>8. QED
    BY <1>2, <1>3, <1>4, <1>5, <1>6, <1>7

(* The new node becomes the last child of the element it is in, and no     *)
(* other element gets or loses one.                                        *)
LEMMA KidsGrow ==
  ASSUME TypeInv, LinksInv, size < MaxNodes, NEW x, NEW p \in 0 .. size, NEW y, Linked(x, p, y), NEW q \in Nodes
  PROVE  KidsOf(q)' = IF q = p THEN Append(KidsOf(q), x) ELSE KidsOf(q)
  <1>1. /\ x = size + 1
        /\ first' = IF p # 0 /\ first[p] = 0 THEN [first EXCEPT ![p] = x] ELSE first
        /\ next' = IF y = 0 THEN next ELSE [next EXCEPT ![y] = x]
        /\ y # 0 => y \in Nodes /\ y <= size /\ up[y] = p /\ next[y] = 0
        /\ p # 0 /\ (\E z \in Nodes : up[z] = p) => y # 0
    BY DEF Linked
  <1>2. x \in Nodes /\ x \in 1 .. MaxNodes /\ next[x] = 0 /\ q # 0 /\ size \in Nat
    <2>1. size \in Nat /\ 0 \notin Nodes
      BY Made
    <2>2. x \in Nodes /\ x > size
      BY <1>1, <2>1, Numbers DEF Nodes
    <2>3. QED
      BY <2>1, <2>2 DEF LinksInv, Nodes
  <1>3. first \in [Nodes -> Ptrs] /\ FirstRight(q)
    BY DEF TypeInv, NodesInv, LinksInv
  <1>4. KidsOf(q)' = Chain(next', first'[q], MaxNodes) /\ KidsOf(q) = Chain(next, first[q], MaxNodes)
    BY DEF KidsOf
  <1>5. CASE first[q] = 0
    <2>1. KidsOf(q) = <<>>
      BY <1>4, <1>5 DEF Chain
    <2>2. CASE q = p
      <3>1. first'[q] = x
        BY <1>1, <1>2, <1>3, <1>5, <2>2
      <3>2. y = 0
        BY <1>1, <1>3, <1>5, <2>2 DEF FirstRight
      <3>3. <<x>> \in Seq(1 .. MaxNodes) /\ Len(<<x>>) = 1 /\ <<x>>[1] = x /\ Append(<<>>, x) = <<x>>
        BY <1>2
      <3>4. MaxNodes \in Nat /\ next \in [1 .. MaxNodes -> 0 .. MaxNodes] /\ 1 \in 1 .. MaxNodes
        BY NextUp, Numbers
      <3>5. IsChain(next, x, MaxNodes, <<x>>)
        BY <1>2, <3>3, <3>4 DEF IsChain, Part
      <3>6. Chain(next, x, MaxNodes) = <<x>>
        BY <1>2, <3>4, <3>5, ChainOne
      <3>7. QED
        BY <1>1, <1>4, <2>1, <2>2, <3>1, <3>2, <3>3, <3>6
    <2>3. CASE q # p
      <3>1. first'[q] = 0
        BY <1>1, <1>3, <1>5, <2>3
      <3>2. KidsOf(q)' = <<>>
        BY <1>4, <3>1 DEF Chain
      <3>3. QED
        BY <2>1, <2>3, <3>2
    <2>4. QED
      BY <2>2, <2>3
  <1>6. CASE first[q] # 0
    <2>1. PICK c : c = KidsOf(q)
      OBVIOUS
    <2>2. /\ first[q] \in 1 .. MaxNodes /\ IsChain(next, first[q], MaxNodes, c)
          /\ Len(c) \in 1 .. MaxNodes /\ next[c[Len(c)]] = 0
          /\ \A i \in 1 .. Len(c) : c[i] \in Nodes /\ up[c[i]] = q
      BY <1>6, <2>1, KidsIn
    <2>3. first'[q] = first[q]
      BY <1>1, <1>3, <1>6
    <2>4. MaxNodes \in Nat /\ next \in [1 .. MaxNodes -> 0 .. MaxNodes] /\ LeadsUp(next, MaxNodes)
      BY NextUp
    <2>5. next' \in [1 .. MaxNodes -> 0 .. MaxNodes]
      <3>1. x \in 0 .. MaxNodes
        BY <1>2
      <3>2. QED
        BY <1>1, <2>4, <3>1
    <2>6. ASSUME NEW d, IsChain(next', first[q], MaxNodes, d) PROVE KidsOf(q)' = d
      BY <1>4, <2>2, <2>3, <2>4, <2>5, <2>6, ChainOne
    <2>7. CASE q = p
      <3>1. PICK w : w = c[Len(c)]
        OBVIOUS
      <3>2. w \in Nodes /\ up[w] = p /\ next[w] = 0
        BY <2>2, <2>7, <3>1
      <3>3. y # 0 /\ y \in Nodes /\ y <= size /\ up[y] = p /\ next[y] = 0
        BY <1>1, <1>2, <2>7, <3>2
      <3>4. NextRight(w) /\ NextRight(y)
        BY <1>2, <2>7, <3>2, <3>3 DEF LinksInv
      <3>5. y <= w /\ w <= y
        BY <3>2, <3>3, <3>4 DEF NextRight
      <3>6. w = y /\ w < x
        <4>1. w \in Int /\ y \in Int /\ size \in Int
          BY <1>2, <3>2, <3>3, Made
        <4>2. QED
          BY <1>1, <3>3, <3>5, <4>1
      <3>7. next' = [next EXCEPT ![c[Len(c)]] = x]
        BY <1>1, <3>1, <3>3, <3>6
      <3>8. Changes(next, next', MaxNodes, c[Len(c)]) /\ next'[c[Len(c)]] = x
        BY <2>4, <3>1, <3>2, <3>7 DEF Changes, Nodes
      <3>9. IsChain(next', first[q], MaxNodes, Append(c, x))
        <4>1. c[Len(c)] < x
          BY <3>1, <3>6
        <4>2. QED
          BY <1>2, <2>2, <2>4, <3>8, <4>1, ChainLonger
      <3>10. QED
        BY <2>1, <2>6, <2>7, <3>9
    <2>8. CASE q # p
      <3>1. CASE y = 0
        BY <1>1, <1>4, <2>1, <2>3, <2>8, <3>1
      <3>2. CASE y # 0
        <4>1. \A i \in 1 .. Len(c) : c[i] # y
          BY <1>1, <2>2, <2>8, <3>2
        <4>2. Changes(next, next', MaxNodes, y)
          BY <1>1, <2>4, <3>2 DEF Changes
        <4>3. IsChain(next', first[q], MaxNodes, c)
          BY <2>2, <2>4, <4>1, <4>2, ChainApart
        <4>4. QED
          BY <2>1, <2>6, <2>8, <4>3
      <3>3. QED
        BY <3>1, <3>2
    <2>9. QED
      BY <2>7, <2>8
  <1>7. QED
    BY <1>5, <1>6

LEMMA NodeAdds ==
  ASSUME Orderly, TypeInv, OrderInv, NEW o \in Objs, NEW n, StartElement(o, n), ~Refused(o)
  PROVE  Nested!Add(n)
  <1>1. LinksInv /\ StacksInv
    BY DEF OrderInv
  <1>2. /\ reading = o /\ nelems[o] < MaxElems /\ size < MaxNodes /\ size \in Nat /\ size' = size + 1
        /\ path' = Append(path, size + 1) /\ name' = [name EXCEPT ![size + 1] = n]
    BY <1>1, MadeTables
  <1>3. Opened(o)
    BY <1>2 DEF OrderInv, OpenInv, StartElement, Begins
  <1>4. PICK x, p : x = size + 1 /\ p = Around
    OBVIOUS
  <1>5. PICK y : Linked(x, p, y)
    BY <1>1, <1>2, <1>3, <1>4, NewLinks
  <1>6. p \in 0 .. size /\ (path # <<>> => p # 0 /\ p \in Nodes) /\ (path = <<>> => p = 0)
    <2>1. Around \in 0 .. size /\ (path # <<>> => Around # 0) /\ (Around # 0 => Around \in Nodes)
      BY <1>1, <1>2, <1>3, AroundIs
    <2>2. path = <<>> => Around = 0
      BY DEF Around
    <2>3. QED
      BY <1>4, <2>1, <2>2
  <1>7. \A q \in Nodes : KidsOf(q)' = IF q = p THEN Append(KidsOf(q), x) ELSE KidsOf(q)
    BY <1>1, <1>2, <1>5, <1>6, KidsGrow
  <1>8. \A z \in 1 .. size' : parent'[z] = IF z = x THEN p ELSE parent[z]
    <2>1. up \in [Nodes -> Ptrs] /\ parent = up /\ parent' = [up EXCEPT ![x] = p]
      BY <1>1, <1>5 DEF TypeInv, NodesInv, LinksInv, Linked
    <2>2. 1 .. size' \subseteq Nodes
      BY <1>2, Numbers DEF Nodes
    <2>3. QED
      BY <2>1, <2>2
  <1>9. CASE path = <<>>
    <2>1. p = 0 /\ 0 \notin Nodes
      BY <1>1, <1>6, <1>9, Made
    <2>2. Roots' = Roots \cup {x}
      <3>1. \A z : z \in Roots' <=> z \in 1 .. size' /\ parent'[z] = 0
        BY DEF Roots
      <3>2. \A z : z \in 1 .. size' <=> z \in 1 .. size \/ z = x
        BY <1>2, <1>4
      <3>3. \A z : z \in Roots <=> z \in 1 .. size /\ parent[z] = 0
        BY DEF Roots
      <3>4. x \notin 1 .. size
        BY <1>2, <1>4
      <3>5. QED
        BY <1>8, <2>1, <3>1, <3>2, <3>3, <3>4
    <2>3. \A q \in Nodes : KidsOf(q)' = KidsOf(q)
      BY <1>7, <2>1
    <2>4. Kids' = Kids
      BY <2>3, KidsAre
    <2>5. QED
      BY <1>2, <1>4, <1>9, <2>2, <2>4 DEF Nested!Add
  <1>10. CASE path # <<>>
    <2>1. p # 0 /\ p \in Nodes /\ p = Last(path)
      BY <1>4, <1>6, <1>10 DEF Around
    <2>2. Roots' = Roots
      <3>1. \A z : z \in Roots' <=> z \in 1 .. size' /\ parent'[z] = 0
        BY DEF Roots
      <3>2. \A z : z \in 1 .. size' <=> z \in 1 .. size \/ z = x
        BY <1>2, <1>4
      <3>3. \A z : z \in Roots <=> z \in 1 .. size /\ parent[z] = 0
        BY DEF Roots
      <3>4. x \notin 1 .. size
        BY <1>2, <1>4
      <3>5. QED
        BY <1>8, <2>1, <3>1, <3>2, <3>3, <3>4
    <2>3. Kids' = [Kids EXCEPT ![p] = Append(Kids[p], x)]
      <3>1. PICK s : s = Append(KidsOf(p), x)
        OBVIOUS
      <3>2. \A q \in Nodes : KidsOf(q)' = IF q = p THEN s ELSE Kids[q]
        BY <1>7, <3>1, KidsAre
      <3>3. s = Append(Kids[p], x)
        BY <2>1, <3>1, KidsAre
      <3>4. DOMAIN Kids = Nodes
        BY KidsAre
      <3>5. Kids' = [q \in Nodes |-> IF q = p THEN s ELSE Kids[q]]
        BY <3>2, KidsAre
      <3>6. QED
        BY <2>1, <3>3, <3>4, <3>5
    <2>4. Last(path) = Nested!Last(path)
      BY DEF Last, Nested!Last
    <2>5. QED
      BY <1>2, <1>4, <1>10, <2>1, <2>2, <2>3, <2>4 DEF Nested!Add
  <1>11. QED
    BY <1>9, <1>10

LEMMA TreesNext ==
  Orderly /\ TypeInv /\ OrderInv /\ [Next]_vars => [Nested!Next]_<<size, Roots, name, Kids, path>>
  <1> SUFFICES ASSUME Orderly, TypeInv, OrderInv, [Next]_vars
               PROVE  [Nested!Next]_<<size, Roots, name, Kids, path>>
    OBVIOUS
  <1>1. ASSUME UNCHANGED tree PROVE UNCHANGED <<size, Roots, name, Kids>>
    BY <1>1 DEF tree, Roots, Kids
  <1>2. CASE \E o \in Objs : ParseXml(o)
    <2>1. UNCHANGED tree /\ path' = path
      BY <1>2 DEF ParseXml
    <2>2. QED
      BY <1>1, <2>1
  <1>3. CASE \E o \in Objs, n \in Names : StartElement(o, n)
    <2>1. PICK o \in Objs, n \in Names : StartElement(o, n)
      BY <1>3
    <2>2. CASE Refused(o)
      <3>1. UNCHANGED tree /\ (path' = path \/ path' = Append(path, 0))
        BY <2>1, <2>2 DEF StartElement, Refused
      <3>2. QED
        BY <1>1, <3>1 DEF Nested!Next, Nested!Drop
    <2>3. CASE ~Refused(o)
      BY <2>1, <2>3, NodeAdds DEF Nested!Next
    <2>4. QED
      BY <2>2, <2>3
  <1>4. CASE \E o \in Objs : EndElement(o)
    <2>1. UNCHANGED tree /\ path # <<>> /\ path' = Front(path)
      BY <1>4 DEF EndElement
    <2>2. Front(path) = Nested!Front(path)
      BY DEF Front, Nested!Front
    <2>3. QED
      BY <1>1, <2>1, <2>2 DEF Nested!Next, Nested!Close
  <1>5. CASE \/ \E o \in Xhrs : PutBack(o) \/ ResponseText(o) \/ ResponseStream(o) \/ FinalizeStream(o)
             \/ \E o \in Xhrs : ResponseXml(o) /\ ~ParseXml(o)
             \/ \E o \in Objs : ParseReturns(o)
             \/ \E x \in 1 .. size, n \in Names : LoopBegins(x, n)
             \/ \E o \in DomDocs, n \in Names : XdomLoopBegins(o, n)
             \/ LoopTurn \/ LoopEnds \/ Shrink
             \/ \E x \in Nodes : Collect(x)
             \/ ContextEnds
             \/ UNCHANGED vars
    <2>1. Elsewhere
      BY <1>5, ElsewhereSteps
    <2>2. UNCHANGED tree /\ (path' = path \/ path' = <<>>)
      BY <2>1 DEF Elsewhere
    <2>3. QED
      BY <1>1, <2>2 DEF Nested!Next, Nested!BreakOff
  <1>6. QED
    BY <1>2, <1>3, <1>4, <1>5 DEF Next, LoadXml, Objs

(* xjse_xdom_on_startelement and family_set, for all documents: if they    *)
(* are complete and not too deep, the nodes of each are an ordered tree of *)
(* its own, a new node is the last child of the innermost open element,    *)
(* and no document changes the trees of earlier ones.                      *)
THEOREM ImplementsNodesAlways ==
  ASSUME Env \cap {"stale", "deep"} = {}
  PROVE  Spec => ImplementsNodes
  <1>1. Orderly
    BY DEF Orderly
  <1>2. Init => Nested!Init
    <2> SUFFICES ASSUME Init PROVE Nested!Init
      OBVIOUS
    <2>1. size = 0 /\ path = <<>> /\ name = [x \in Nodes |-> None]
      BY DEF Init
    <2>2. Roots = {}
      BY <2>1 DEF Roots
    <2>3. \A x \in Nodes : KidsOf(x) = <<>>
      BY DEF Init, KidsOf, Chain
    <2>4. Kids = [x \in Nodes |-> <<>>]
      BY <2>3, KidsAre
    <2>5. QED
      BY <2>1, <2>2, <2>4 DEF Nested!Init, Nested!Nodes, Nodes
  <1>3. TypeInv /\ OrderInv /\ [Next]_vars => [Nested!Next]_<<size, Roots, name, Kids, path>>
    BY <1>1, TreesNext
  <1>4. TypeInv /\ [Next]_vars => TypeInv'
    BY TypeNext
  <1>5. TypeInv /\ OrderInv /\ [Next]_vars => OrderInv'
    BY <1>1, OrderNext
  <1>6. QED
    BY <1>2, <1>3, <1>4, <1>5, TypeInit, OrderInit, PTL DEF Spec, ImplementsNodes, Nested!TreeSpec
=============================================================================
