--------------------------- MODULE ElementsProofs ---------------------------
(***************************************************************************)
(* Proofs about the elements of Elements: for any number of elements, all  *)
(* documents and scripts, all numbers, frames and sizes of the view.       *)
(***************************************************************************)
EXTENDS Elements, SequenceTheorems, FiniteSetTheorems, WellFoundedInduction, TLAPS

-----------------------------------------------------------------------------
(* Invariants                                                              *)

IsSequence(s) == Len(s) \in Nat /\ s = [k \in 1 .. Len(s) |-> s[k]]

(* The fields of XGGELEM and of the kinds' private data.                   *)
Shape(el) ==
  /\ el = [kind |-> el.kind, parent |-> el.parent, pos |-> el.pos, size |-> el.size,
           opacity |-> el.opacity, visible |-> el.visible, image |-> el.image, full |-> el.full,
           max |-> el.max, min |-> el.min, value |-> el.value,
           text |-> el.text, align |-> el.align, color |-> el.color]
  /\ el.pos \in [1..2 -> Int] /\ el.size \in [1..2 -> Int]
  /\ el.max \in Int /\ el.min \in Int /\ el.value \in Int /\ el.image \in Nat /\ el.opacity \in 0..255

(* Elements are in the view or in a <div> that was there before them.      *)
TreeInv ==
  /\ IsSequence(elems) /\ IsSequence(asked) /\ Len(asked) = Len(elems)
  /\ \A e \in Elems :
       /\ Shape(elems[e])
       /\ elems[e].kind \in Kinds
       /\ elems[e].parent \in 0 .. e - 1
       /\ elems[e].parent # 0 => elems[elems[e].parent].kind = "div"

(* The tags that are open inside each other, and the element whose tag     *)
(* came last.                                                              *)
OpenInv ==
  /\ IsSequence(open)
  /\ \A k \in 1 .. Len(open) : open[k] \in -1 .. Len(elems)
  /\ \A k \in 1 .. Len(open) - 1 : open[k] = 0 \/ (open[k] > 0 /\ elems[open[k]].kind = "div")
  /\ current \in 0 .. Len(elems)
  /\ intag => Len(elems) > 0

DocInv == TreeInv /\ OpenInv

TextAsAsked(el, a) ==
  el.kind = "label" => el.text = IF "innerText" \in DOMAIN a THEN a["innerText"] ELSE <<>>

(* A label that is current is open, or text comes behind it.               *)
LabelInv ==
  /\ current # 0 /\ elems[current].kind = "label" => behind = current \/ (open # <<>> /\ Last(open) = current)
  /\ open # <<>> /\ InLabel => Last(open) = current
  /\ \A e \in Elems \ covered : TextAsAsked(elems[e], asked[e])

(* One side: a percentage is one of an element, and of the size that that  *)
(* has now; what was not asked for is the image's.                         *)
SideAsAsked(el, a, d, whole) ==
  IF Sides[d] \in DOMAIN a
    THEN /\ a[Sides[d]].percent => el.parent # 0
         /\ el.size[d] = IF a[Sides[d]].percent THEN (whole * a[Sides[d]].n) \div 100 ELSE a[Sides[d]].n
    ELSE el.size[d] = el.image \/ (el.image = 0 /\ el.kind \notin {"div", "label"})
SizeInv == \A e \in Elems, d \in 1..2 : SideAsAsked(elems[e], asked[e], d, elems[elems[e].parent].size[d])

(* Views have a size, and bars start at 0.                                 *)
ViewInv == \A d \in 1..2 : view[d] \in Int /\ view[d] > 0
BarInv == \A e \in Elems : elems[e].min = 0

(* Opacities and visibility of an element, as it was asked for them.       *)
OpacityOf(el, a) ==
  /\ el.opacity = IF "opacity" \in DOMAIN a THEN a["opacity"].n ELSE 255
  /\ "visible" \in DOMAIN a => el.visible = a["visible"] /\ (el.visible \/ el.kind \in {"img", "button"})

(* Nothing that a label is in fades.                                       *)
FadeInv ==
  /\ Len(elems) <= MaxElems /\ inputs \in 0..MaxInputs
  /\ \A e \in Elems : OpacityOf(elems[e], asked[e])
  /\ \A e \in Elems : elems[e].kind = "label" => \A a \in Line[e] : ~Asked(a, "opacity")

Upright(f) == \A d \in 1..2 : f.lo[d] \in Int /\ f.hi[d] \in Int /\ f.lo[d] <= f.hi[d]

-----------------------------------------------------------------------------
(* Sequences                                                               *)

LEMMA SequenceIsSeq ==
  ASSUME NEW s, IsSequence(s)
  PROVE  s \in Seq({s[k] : k \in 1 .. Len(s)}) /\ DOMAIN s = 1 .. Len(s)
  <1>1. s \in [1 .. Len(s) -> {s[k] : k \in 1 .. Len(s)}] /\ Len(s) \in Nat
    BY DEF IsSequence
  <1>2. QED
    BY <1>1, SeqDef

LEMMA Appended ==
  ASSUME NEW s, IsSequence(s), NEW x, NEW t, t = Append(s, x)
  PROVE  /\ IsSequence(t) /\ Len(t) = Len(s) + 1
         /\ t[Len(t)] = x /\ \A k \in 1 .. Len(s) : t[k] = s[k]
  <1> DEFINE S == {s[k] : k \in 1 .. Len(s)} \cup {x}
  <1>1. s \in Seq(S) /\ Len(s) \in Nat
    <2>1. s \in [1 .. Len(s) -> S] /\ Len(s) \in Nat
      BY DEF IsSequence
    <2>2. QED
      BY <2>1, SeqDef
  <1>2. /\ t \in Seq(S) /\ Len(t) = Len(s) + 1 /\ DOMAIN t = 1 .. Len(t)
        /\ t[Len(s) + 1] = x /\ \A k \in 1 .. Len(s) : t[k] = s[k]
    <2> HIDE DEF S
    <2>1. x \in S
      BY DEF S
    <2>2. QED
      BY <1>1, <2>1, AppendProperties, LenProperties
  <1>3. t = [k \in 1 .. Len(t) |-> t[k]]
    <2> HIDE DEF S
    <2>1. t \in [1 .. Len(t) -> S]
      BY <1>2, LenProperties
    <2>2. QED
      BY <2>1
  <1>4. QED
    BY <1>1, <1>2, <1>3 DEF IsSequence

LEMMA Replaced ==
  ASSUME NEW s, IsSequence(s), NEW k \in 1 .. Len(s), NEW x, NEW t, t = [s EXCEPT ![k] = x]
  PROVE  /\ IsSequence(t) /\ Len(t) = Len(s)
         /\ t[k] = x /\ \A j \in 1 .. Len(s) : j # k => t[j] = s[j]
  <1> DEFINE S == {s[j] : j \in 1 .. Len(s)} \cup {x}
  <1>1. s \in [1 .. Len(s) -> S] /\ Len(s) \in Nat
    BY DEF IsSequence
  <1>2. t \in [1 .. Len(s) -> S]
    BY <1>1
  <1>3. t \in Seq(S)
    BY <1>1, <1>2, SeqDef
  <1>4. Len(t) = Len(s)
    <2> HIDE DEF S
    <2>1. Len(t) \in Nat /\ DOMAIN t = 1 .. Len(t)
      BY <1>3, LenProperties
    <2>2. QED
      BY <1>1, <1>2, <2>1
  <1>5. QED
    BY <1>1, <1>2, <1>4 DEF IsSequence

LEMMA Shortened ==
  ASSUME NEW s, IsSequence(s), s # <<>>, NEW t, t = Front(s)
  PROVE  /\ IsSequence(t) /\ Len(t) = Len(s) - 1 /\ Len(s) > 0
         /\ \A k \in 1 .. Len(t) : t[k] = s[k]
  <1> DEFINE S == {s[k] : k \in 1 .. Len(s)}
  <1>1. s \in Seq(S) /\ Len(s) \in Nat
    BY SequenceIsSeq DEF IsSequence
  <1>2. Len(s) > 0
    <2>1. Len(s) = 0 => s = <<>>
      <3> HIDE DEF S
      <3>1. QED
        BY <1>1, EmptySeq
    <2>2. QED
      BY <1>1, <2>1
  <1>3. /\ t \in Seq(S) /\ Len(t) = Len(s) - 1
        /\ \A k \in 1 .. Len(t) : t[k] = s[k]
    <2>1. \A k \in 1 .. Len(s) - 1 : s[k] \in S
      BY <1>1
    <2>2. 1 \in Int /\ Len(s) - 1 \in Int /\ t = SubSeq(s, 1, Len(s) - 1)
      BY <1>1 DEF Front
    <2> HIDE DEF S
    <2>3. /\ t \in Seq(S) /\ Len(t) = IF 1 <= Len(s) - 1 THEN Len(s) - 1 - 1 + 1 ELSE 0
          /\ \A k \in 1 .. Len(s) - 1 - 1 + 1 : t[k] = s[1 + k - 1]
      BY <2>1, <2>2, SubSeqProperties
    <2>4. Len(t) = Len(s) - 1
      <3>1. Len(t) = IF 1 <= Len(s) - 1 THEN Len(s) - 1 - 1 + 1 ELSE 0
        BY <2>3
      <3> DEFINE n == Len(s)
      <3>2. n \in Nat /\ n > 0
        BY <1>1, <1>2
      <3> HIDE DEF n
      <3>3. (IF 1 <= n - 1 THEN n - 1 - 1 + 1 ELSE 0) = n - 1
        BY <3>2
      <3>4. QED
        BY <3>1, <3>3 DEF n
    <2>5. ASSUME NEW k \in 1 .. Len(t) PROVE t[k] = s[k]
      <3>1. k \in 1 .. Len(s) - 1 - 1 + 1 /\ 1 + k - 1 = k
        BY <1>1, <1>2, <2>4
      <3>2. QED
        BY <2>3, <3>1
    <2>6. QED
      BY <2>3, <2>4, <2>5
  <1>4. t = [k \in 1 .. Len(t) |-> t[k]]
    <2> HIDE DEF S
    <2>1. t \in [1 .. Len(t) -> S]
      BY <1>3, LenProperties
    <2>2. QED
      BY <2>1
  <1>5. QED
    BY <1>1, <1>2, <1>3, <1>4 DEF IsSequence

-----------------------------------------------------------------------------
(* Setters                                                                 *)

LEMMA Indices == TreeInv => Len(elems) \in Nat /\ Elems = 1 .. Len(elems) /\ DOMAIN asked = Elems
  BY DEF TreeInv, IsSequence, Elems

LEMMA Parents ==
  ASSUME TreeInv, NEW e \in Elems, elems[e].parent # 0
  PROVE  elems[e].parent \in Elems /\ elems[e].parent < e /\ elems[elems[e].parent].kind = "div"
  BY Indices DEF TreeInv

LEMMA SizesTyped ==
  ASSUME TreeInv, NEW e \in Elems, NEW d \in 1..2,
         NEW v, v.n \in Int, NEW n \in Sizes(e, d, v)
  PROVE  n \in Int
  <1>1. elems[e].parent # 0 => elems[e].parent \in Elems /\ elems[elems[e].parent].size[d] \in Int
    BY Parents DEF TreeInv, Shape
  <1>2. elems[e].size[d] \in Int
    BY DEF TreeInv, Shape
  <1>3. CASE Numeric(v) /\ v.percent /\ elems[e].parent # 0
    <2>1. n = (elems[elems[e].parent].size[d] * v.n) \div 100
      BY <1>3 DEF Sizes
    <2>2. elems[elems[e].parent].size[d] * v.n \in Int
      BY <1>1, <1>3
    <2>3. QED
      BY <2>1, <2>2
  <1>4. CASE ~(Numeric(v) /\ v.percent /\ elems[e].parent # 0)
    BY <1>2, <1>4, InputsAssumption DEF Sizes
  <1>5. QED
    BY <1>3, <1>4

(* A setter changes one thing of the element.                              *)
Sets(el, r, name, v) ==
  /\ Shape(r) /\ r.kind = el.kind /\ r.parent = el.parent
  /\ r.text = IF name = "innerText" THEN v ELSE el.text
  /\ r.min = IF name = "min" /\ ~v.percent THEN v.n ELSE el.min
  /\ IF name = "opacity" THEN ~v.percent => r.opacity = v.n % 256 ELSE r.opacity = el.opacity
  /\ r.visible = IF name = "visible" THEN v ELSE el.visible
  /\ name # "src" => r.image = el.image
  /\ name \notin {"width", "height", "src"} => r.size = el.size

LEMMA SetterSets ==
  ASSUME TreeInv, NEW e \in Elems,
         NEW i \in Inputs, Has(elems[e].kind, i[1]), MayAsk(e, i[1], i[2]),
         NEW r \in Results(e, i[1], i[2])
  PROVE  /\ Sets(elems[e], r, i[1], i[2])
         /\ i[1] = "src" => r = WithImage(elems[e], i[2])
         /\ \A d \in 1..2 : i[1] = Sides[d] => r.size \in {[elems[e].size EXCEPT ![d] = n] : n \in Sizes(e, d, i[2])}
  <1> DEFINE el == elems[e]
             name == i[1]
             v == i[2]
  <1>0. /\ Shape(el)
        /\ name \in Numbers => v.n \in Int /\ v.percent \in BOOLEAN
        /\ name \in {"src", "fullImage"} => v \in Nat
    BY InputsAssumption DEF TreeInv
  <1>1. \A d \in 1..2 : name = Sides[d] => \A n \in Sizes(e, d, v) : n \in Int
    BY <1>0, SizesTyped DEF Sides, Numbers
  <1>2. CASE name = "width"
    <2>1. PICK n \in Sizes(e, 1, v) : r = [el EXCEPT !.size[1] = n]
      BY <1>2 DEF Results
    <2>2. n \in Int
      BY <1>1, <1>2 DEF Sides
    <2>3. r.size = [el.size EXCEPT ![1] = n] /\ r.size \in [1..2 -> Int]
      BY <1>0, <2>1, <2>2 DEF Shape
    <2> HIDE DEF el, v
    <2>4. Sets(el, r, name, v)
      BY <1>0, <1>2, <2>1, <2>3 DEF Sets, Shape
    <2>5. QED
      BY <1>2, <2>1, <2>3, <2>4 DEF Sides, el, v
  <1>3. CASE name = "height"
    <2>1. PICK n \in Sizes(e, 2, v) : r = [el EXCEPT !.size[2] = n]
      BY <1>3 DEF Results
    <2>2. n \in Int
      BY <1>1, <1>3 DEF Sides
    <2>3. r.size = [el.size EXCEPT ![2] = n] /\ r.size \in [1..2 -> Int]
      BY <1>0, <2>1, <2>2 DEF Shape
    <2> HIDE DEF el, v
    <2>4. Sets(el, r, name, v)
      BY <1>0, <1>3, <2>1, <2>3 DEF Sets, Shape
    <2>5. QED
      BY <1>3, <2>1, <2>3, <2>4 DEF Sides, el, v
  <1>4. CASE name \in {"x", "y"}
    <2>0. \A n \in ToInt32(v, Junk) : n \in Int
      BY <1>0, <1>4, InputsAssumption DEF ToInt32, Numbers
    <2>1. PICK d \in 1..2, n \in ToInt32(v, Junk) : r = [el EXCEPT !.pos[d] = n]
      BY <1>4 DEF Results
    <2>2. r.pos = [el.pos EXCEPT ![d] = n] /\ r.pos \in [1..2 -> Int]
      BY <1>0, <2>0, <2>1 DEF Shape
    <2> HIDE DEF el, v
    <2>3. Sets(el, r, name, v)
      BY <1>0, <1>4, <2>1, <2>2 DEF Sets, Shape
    <2>4. QED
      BY <1>4, <2>3 DEF Sides, el, v
  <1>5. CASE name \in {"opacity", "visible", "align", "color"}
    <2>0. name = "opacity" => \A n \in ToInt32(v, Junk) : n \in Int /\ (~v.percent => n = v.n)
      BY <1>0, InputsAssumption DEF ToInt32, Numbers
    <2>1. \/ \E n \in ToInt32(v, Junk) : name = "opacity" /\ r = [el EXCEPT !.opacity = n % 256]
          \/ name = "visible" /\ r = [el EXCEPT !.visible = v]
          \/ \E x : name = "align" /\ r = [el EXCEPT !.align = x]
          \/ \E x : name = "color" /\ r = [el EXCEPT !.color = x]
      BY <1>5 DEF Results
    <2>a. name = "opacity" => \E n \in ToInt32(v, Junk) : r = [el EXCEPT !.opacity = n % 256]
      BY SMTT(30), <2>1
    <2>b. name = "opacity" => \E n \in Int : (~v.percent => n = v.n) /\ r = [el EXCEPT !.opacity = n % 256]
      BY SMTT(30), <2>0, <2>a
    <2>2. /\ (name = "opacity" /\ ~v.percent) => r.opacity = v.n % 256
          /\ name = "opacity" => \E b \in 0..255 : r = [el EXCEPT !.opacity = b]
      <3>1. CASE name = "opacity"
        <4>1. PICK n \in Int : (~v.percent => n = v.n) /\ r = [el EXCEPT !.opacity = n % 256]
          BY <3>1, <2>b
        <4>2. n % 256 \in 0..255
          OBVIOUS
        <4>3. r.opacity = n % 256
          BY <4>1, <1>0 DEF Shape
        <4>4. QED
          BY <4>1, <4>2, <4>3
      <3>2. QED
        BY <3>1
    <2> HIDE DEF el, v
    <2>3. Sets(el, r, name, v)
      BY <1>0, <1>5, <2>1, <2>2 DEF Sets, Shape
    <2>4. QED
      BY <1>5, <2>3 DEF Sides, el, v
  <1>6. CASE name \in {"max", "min", "value", "fullImage", "innerText"}
    <2>0. /\ name \in Numbers => \A n \in Int : \A m \in ToInt32(v, {n}) : m = IF v.percent THEN n ELSE v.n
          /\ el.max \in Int /\ el.min \in Int /\ el.value \in Int
      BY <1>0 DEF ToInt32, Shape
    <2>1. \/ name = "max" /\ r = [el EXCEPT !.max = IF v.percent THEN el.max ELSE v.n]
          \/ name = "min" /\ r = [el EXCEPT !.min = IF v.percent THEN el.min ELSE v.n]
          \/ name = "value" /\ r = [el EXCEPT !.value = IF v.percent THEN el.value ELSE v.n]
          \/ name = "fullImage" /\ r = [el EXCEPT !.full = IF v = 0 THEN el.full ELSE v]
          \/ name = "innerText" /\ r = [el EXCEPT !.text = v]
      BY <1>6, <2>0 DEF Results, Numbers
    <2> HIDE DEF el, v
    <2>2. Sets(el, r, name, v)
      BY <1>0, <1>6, <2>1 DEF Sets, Shape, Numbers
    <2>3. QED
      BY <1>6, <2>2 DEF Sides, el, v
  <1>7. CASE name = "src"
    <2>1. r = WithImage(el, v)
      BY <1>7 DEF Results
    <2> HIDE DEF el, v
    <2>2. CASE v = 0
      <3>1. r = [el EXCEPT !.image = IF el.kind = "progressbar" THEN el.image ELSE 0]
        BY <2>1, <2>2 DEF WithImage
      <3>2. Sets(el, r, name, v)
        BY <1>0, <1>7, <3>1 DEF Sets, Shape
      <3>3. QED
        BY <1>7, <2>1, <3>2 DEF Sides, el, v
    <2>3. CASE v # 0
      <3>1. r = [el EXCEPT !.image = v, !.size = [d \in 1..2 |-> IF el.size[d] = 0 THEN v ELSE el.size[d]]]
        BY <2>1, <2>3 DEF WithImage
      <3>2. [d \in 1..2 |-> IF el.size[d] = 0 THEN v ELSE el.size[d]] \in [1..2 -> Int]
        BY <1>0, <1>7 DEF Shape
      <3>3. Sets(el, r, name, v)
        BY <1>0, <1>7, <3>1, <3>2 DEF Sets, Shape
      <3>4. QED
        BY <1>7, <2>1, <3>3 DEF Sides, el, v
    <2>4. QED
      BY <2>2, <2>3
  <1>8. QED
    BY <1>2, <1>3, <1>4, <1>5, <1>6, <1>7 DEF Has

-----------------------------------------------------------------------------
(* The tree                                                                *)

LEMMA ElementReplaced ==
  ASSUME TreeInv, NEW e \in Elems, NEW el, elems' = [elems EXCEPT ![e] = el]
  PROVE  /\ IsSequence(elems') /\ Len(elems') = Len(elems)
         /\ elems'[e] = el /\ \A c \in Elems \ {e} : elems'[c] = elems[c]
  <1>1. IsSequence(elems) /\ e \in 1 .. Len(elems) /\ Elems = 1 .. Len(elems)
    BY Indices DEF TreeInv
  <1>2. IsSequence(elems')
    BY <1>1, Replaced
  <1>3. Len(elems') = Len(elems)
    BY <1>1, Replaced
  <1>4. elems'[e] = el
    BY <1>1, Replaced
  <1>5. \A c \in 1 .. Len(elems) : c # e => elems'[c] = elems[c]
    BY <1>1, Replaced
  <1>6. QED
    BY <1>1, <1>2, <1>3, <1>4, <1>5

(* One element has been changed, neither in kind nor in place.             *)
LEMMA OneChanged ==
  ASSUME TreeInv, NEW e \in Elems, NEW el, Shape(el),
         el.kind = elems[e].kind, el.parent = elems[e].parent,
         elems' = [elems EXCEPT ![e] = el],
         asked' = asked \/ \E a : asked' = [asked EXCEPT ![e] = a]
  PROVE  /\ TreeInv' /\ Elems' = Elems /\ Len(elems') = Len(elems)
         /\ elems'[e] = el /\ \A c \in Elems \ {e} : elems'[c] = elems[c]
         /\ \A c \in Elems : elems'[c].kind = elems[c].kind /\ elems'[c].parent = elems[c].parent
  <1>1. /\ IsSequence(elems') /\ Len(elems') = Len(elems)
        /\ elems'[e] = el /\ \A c \in Elems \ {e} : elems'[c] = elems[c]
    BY ElementReplaced
  <1>2. IsSequence(asked') /\ Len(asked') = Len(asked)
    <2>1. e \in 1 .. Len(asked) /\ IsSequence(asked)
      BY Indices DEF TreeInv
    <2>2. QED
      BY <2>1, Replaced DEF TreeInv
  <1>3. Elems' = 1 .. Len(elems') /\ Elems = 1 .. Len(elems)
    BY <1>1, Indices DEF IsSequence, Elems
  <1>4. \A c \in Elems : /\ elems'[c].kind = elems[c].kind /\ elems'[c].parent = elems[c].parent
                         /\ Shape(elems'[c])
    BY <1>1 DEF TreeInv
  <1>5. ASSUME NEW c \in Elems'
        PROVE  /\ Shape(elems'[c]) /\ elems'[c].kind \in Kinds /\ elems'[c].parent \in 0 .. c - 1
               /\ elems'[c].parent # 0 => elems'[elems'[c].parent].kind = "div"
    <2>1. c \in Elems
      BY <1>1, <1>3, <1>5
    <2>2. elems'[c].kind \in Kinds /\ elems'[c].parent \in 0 .. c - 1
      BY <1>4, <2>1 DEF TreeInv
    <2>3. elems[c].parent # 0 => elems[c].parent \in Elems /\ elems[elems[c].parent].kind = "div"
      BY <2>1, Parents
    <2>4. QED
      BY <1>4, <2>1, <2>2, <2>3
  <1>6. TreeInv'
    BY <1>1, <1>2, <1>5 DEF TreeInv
  <1>7. QED
    BY <1>1, <1>3, <1>4, <1>6

(* What is set, and what else there is.                                    *)
LEMMA PropertySet ==
  ASSUME TreeInv, NEW e \in Elems, NEW i \in Inputs, SetProperty(e, i[1], i[2])
  PROVE  /\ Has(elems[e].kind, i[1]) /\ MayAsk(e, i[1], i[2])
         /\ elems'[e] \in Results(e, i[1], i[2]) /\ Sets(elems[e], elems'[e], i[1], i[2])
         /\ asked' = [asked EXCEPT ![e] = IF i[1] \in {"width", "height"} /\ ~Numeric(i[2])
                                            THEN asked[e] ELSE With(asked[e], i[1], i[2])]
         /\ TreeInv' /\ Elems' = Elems /\ Len(elems') = Len(elems)
         /\ \A c \in Elems \ {e} : elems'[c] = elems[c]
         /\ \A c \in Elems : elems'[c].kind = elems[c].kind /\ elems'[c].parent = elems[c].parent
  <1>1. /\ Has(elems[e].kind, i[1]) /\ MayAsk(e, i[1], i[2])
    BY DEF SetProperty
  <1>2. PICK el \in Results(e, i[1], i[2]) : elems' = [elems EXCEPT ![e] = el]
    BY DEF SetProperty
  <1>3. Sets(elems[e], el, i[1], i[2])
    BY <1>1, SetterSets
  <1>4. asked' = [asked EXCEPT ![e] = IF i[1] \in {"width", "height"} /\ ~Numeric(i[2])
                                       THEN asked[e] ELSE With(asked[e], i[1], i[2])]
    BY DEF SetProperty
  <1>5. /\ TreeInv' /\ Elems' = Elems /\ Len(elems') = Len(elems)
        /\ elems'[e] = el /\ \A c \in Elems \ {e} : elems'[c] = elems[c]
        /\ \A c \in Elems : elems'[c].kind = elems[c].kind /\ elems'[c].parent = elems[c].parent
    BY <1>2, <1>3, <1>4, OneChanged DEF Sets
  <1>6. QED
    BY <1>1, <1>2, <1>3, <1>4, <1>5

-----------------------------------------------------------------------------
(* Documents                                                               *)

LEMMA AskedReplaced ==
  ASSUME TreeInv, NEW e \in Elems, NEW a, asked' = [asked EXCEPT ![e] = a]
  PROVE  /\ IsSequence(asked') /\ Len(asked') = Len(asked)
         /\ asked'[e] = a /\ \A c \in Elems \ {e} : asked'[c] = asked[c]
  <1>1. IsSequence(asked) /\ e \in 1 .. Len(asked) /\ Elems = 1 .. Len(asked)
    BY Indices DEF TreeInv
  <1>2. IsSequence(asked')
    BY <1>1, Replaced
  <1>3. Len(asked') = Len(asked)
    BY <1>1, Replaced
  <1>4. asked'[e] = a
    BY <1>1, Replaced
  <1>5. \A c \in 1 .. Len(asked) : c # e => asked'[c] = asked[c]
    BY <1>1, Replaced
  <1>6. QED
    BY <1>1, <1>2, <1>3, <1>4, <1>5

LEMMA LastOpen ==
  ASSUME DocInv, open # <<>>
  PROVE  /\ Len(open) \in Nat /\ Len(open) > 0
         /\ Last(open) = open[Len(open)] /\ Last(open) \in -1 .. Len(elems)
         /\ Last(open) > 0 => Last(open) \in Elems
  <1>1. Len(open) \in Nat /\ Len(open) > 0
    BY Shortened DEF DocInv, OpenInv, IsSequence
  <1>2. Last(open) = open[Len(open)] /\ Last(open) \in -1 .. Len(elems)
    BY <1>1 DEF Last, DocInv, OpenInv
  <1>3. QED
    BY <1>1, <1>2, Indices DEF DocInv

(* The tags inside each other depend on the kinds of elements only.        *)
LEMMA SameDocument ==
  ASSUME DocInv, TreeInv', Len(elems') = Len(elems), UNCHANGED <<open, current>>, intag' => intag,
         \A c \in Elems : elems'[c].kind = elems[c].kind
  PROVE  DocInv'
  <1>1. \A k \in 1 .. Len(open) : open[k] > 0 => open[k] \in Elems
    BY Indices DEF DocInv, OpenInv
  <1>2. \A k \in 1 .. Len(open) - 1 : open'[k] = 0 \/ (open'[k] > 0 /\ elems'[open'[k]].kind = "div")
    <2>1. \A k \in 1 .. Len(open) - 1 : k \in 1 .. Len(open)
      BY DEF DocInv, OpenInv, IsSequence
    <2>2. QED
      BY <1>1, <2>1 DEF DocInv, OpenInv
  <1>3. OpenInv'
    BY <1>2 DEF DocInv, OpenInv
  <1>4. QED
    BY <1>3 DEF DocInv

LEMMA ElementStarted ==
  ASSUME DocInv, NEW k \in Kinds, StartElement(k)
  PROVE  /\ DocInv' /\ Len(elems') = Len(elems) + 1
         /\ Elems' = Elems \cup {Len(elems')} /\ Len(elems') \notin Elems
         /\ elems'[Len(elems')] = Made(k, Last(open)) /\ asked'[Len(elems')] = <<>>
         /\ \A e \in Elems : elems'[e] = elems[e] /\ asked'[e] = asked[e]
         /\ open' # <<>> /\ Last(open') = Len(elems')
  <1>1. /\ Len(open) \in Nat /\ Len(open) > 0 /\ Last(open) = open[Len(open)]
        /\ Last(open) = 0 \/ (Last(open) \in Elems /\ elems[Last(open)].kind = "div")
    BY LastOpen DEF StartElement, MayStart
  <1>2. /\ IsSequence(elems') /\ Len(elems') = Len(elems) + 1
        /\ elems'[Len(elems')] = Made(k, Last(open))
        /\ \A e \in 1 .. Len(elems) : elems'[e] = elems[e]
    <2>1. IsSequence(elems) /\ elems' = Append(elems, Made(k, Last(open)))
      BY DEF DocInv, TreeInv, StartElement
    <2>2. IsSequence(elems')
      BY <2>1, Appended
    <2>3. Len(elems') = Len(elems) + 1
      BY <2>1, Appended
    <2>4. elems'[Len(elems')] = Made(k, Last(open))
      BY <2>1, Appended
    <2>5. \A e \in 1 .. Len(elems) : elems'[e] = elems[e]
      BY <2>1, Appended
    <2>6. QED
      BY <2>2, <2>3, <2>4, <2>5
  <1>3. /\ IsSequence(asked') /\ Len(asked') = Len(asked) + 1
        /\ asked'[Len(asked')] = <<>>
        /\ \A e \in 1 .. Len(asked) : asked'[e] = asked[e]
    <2>1. IsSequence(asked) /\ asked' = Append(asked, <<>>)
      BY DEF DocInv, TreeInv, StartElement
    <2>2. IsSequence(asked')
      BY <2>1, Appended
    <2>3. Len(asked') = Len(asked) + 1
      BY <2>1, Appended
    <2>4. asked'[Len(asked')] = <<>>
      BY <2>1, Appended
    <2>5. \A e \in 1 .. Len(asked) : asked'[e] = asked[e]
      BY <2>1, Appended
    <2>6. QED
      BY <2>2, <2>3, <2>4, <2>5
  <1>4. /\ IsSequence(open') /\ Len(open') = Len(open) + 1
        /\ open'[Len(open')] = Len(elems')
        /\ \A j \in 1 .. Len(open) : open'[j] = open[j]
    <2>1. IsSequence(open) /\ open' = Append(open, Len(elems'))
      BY DEF DocInv, OpenInv, StartElement
    <2>2. IsSequence(open')
      BY <2>1, Appended
    <2>3. Len(open') = Len(open) + 1
      BY <2>1, Appended
    <2>4. open'[Len(open')] = Len(elems')
      BY <2>1, Appended
    <2>5. \A j \in 1 .. Len(open) : open'[j] = open[j]
      BY <2>1, Appended
    <2>6. QED
      BY <2>2, <2>3, <2>4, <2>5
  <1>5. /\ Len(elems) \in Nat /\ Len(asked) = Len(elems) /\ Elems = 1 .. Len(elems)
        /\ Elems' = 1 .. Len(elems')
    BY <1>2, Indices DEF DocInv, TreeInv, IsSequence, Elems
  <1>6. Elems' = Elems \cup {Len(elems')} /\ Len(elems') \notin Elems
    BY <1>2, <1>5
  <1>7. Shape(Made(k, Last(open))) /\ Made(k, Last(open)).kind = k /\ Made(k, Last(open)).parent = Last(open)
    BY <1>1 DEF Made, Shape
  <1>8. ASSUME NEW e \in Elems'
        PROVE  /\ Shape(elems'[e]) /\ elems'[e].kind \in Kinds /\ elems'[e].parent \in 0 .. e - 1
               /\ elems'[e].parent # 0 => elems'[elems'[e].parent].kind = "div"
    <2>1. CASE e \in Elems
      <3>1. elems'[e] = elems[e]
        BY <1>2, <1>5, <2>1
      <3>2. elems[e].parent # 0 => elems[e].parent \in Elems /\ elems[elems[e].parent].kind = "div"
        BY <2>1, Parents DEF DocInv
      <3>3. elems[e].parent # 0 => elems'[elems[e].parent] = elems[elems[e].parent]
        BY <1>2, <1>5, <3>2
      <3>4. QED
        BY <2>1, <3>1, <3>2, <3>3 DEF DocInv, TreeInv
    <2>2. CASE e = Len(elems')
      <3>1. elems'[e] = Made(k, Last(open)) /\ elems'[e].parent = Last(open)
        BY <1>2, <1>7, <2>2
      <3>2. Last(open) \in 0 .. e - 1
        BY <1>1, <1>2, <1>5, <2>2
      <3>3. Last(open) # 0 => elems'[Last(open)].kind = "div"
        BY <1>1, <1>2, <1>5
      <3>4. QED
        BY <1>7, <3>1, <3>2, <3>3
    <2>3. QED
      BY <1>6, <2>1, <2>2
  <1>9. TreeInv'
    BY <1>2, <1>3, <1>5, <1>8 DEF TreeInv
  <1>10. OpenInv'
    <2>1. \A j \in 1 .. Len(open') : open'[j] \in -1 .. Len(elems')
      BY SMTT(30), <1>1, <1>2, <1>4, <1>5 DEF DocInv, OpenInv
    <2>2. ASSUME NEW j \in 1 .. Len(open') - 1
          PROVE  open'[j] = 0 \/ (open'[j] > 0 /\ elems'[open'[j]].kind = "div")
      <3>1. j \in 1 .. Len(open) /\ open'[j] = open[j]
        BY <1>1, <1>4
      <3>2. open[j] = 0 \/ (open[j] > 0 /\ open[j] \in Elems /\ elems[open[j]].kind = "div")
        <4>1. CASE j = Len(open)
          BY <1>1, <1>5, <4>1
        <4>2. CASE j # Len(open)
          <5>1. j \in 1 .. Len(open) - 1
            BY <1>1, <3>1, <4>2
          <5>2. QED
            BY <1>5, <3>1, <5>1 DEF DocInv, OpenInv
        <4>3. QED
          BY <4>1, <4>2
      <3>3. QED
        BY <1>2, <1>5, <3>1, <3>2
    <2>3. current' \in 0 .. Len(elems') /\ Len(elems') > 0
      BY <1>2, <1>5 DEF StartElement
    <2>4. QED
      BY <1>4, <2>1, <2>2, <2>3 DEF OpenInv
  <1>11. open' # <<>> /\ Last(open') = Len(elems')
    <2>1. Len(open') > 0
      BY <1>1, <1>4
    <2>2. QED
      BY <1>4, <2>1 DEF Last
  <1>12. QED
    BY <1>2, <1>3, <1>5, <1>6, <1>9, <1>10, <1>11 DEF DocInv

(* Scripts, tags of no element, and tags that fail.                        *)
LEMMA OtherStarted ==
  ASSUME DocInv, StartOther \/ StartFails
  PROVE  /\ DocInv' /\ UNCHANGED <<elems, asked>> /\ Elems' = Elems
         /\ Last(open') = -1
         /\ current' = 0 \/ (current' = current /\ behind' = behind)
         /\ Last(open) = 0 \/ (Last(open) \in Elems /\ elems[Last(open)].kind = "div")
  <1>1. /\ Len(open) \in Nat /\ Len(open) > 0 /\ Last(open) = open[Len(open)]
        /\ Last(open) = 0 \/ (Last(open) \in Elems /\ elems[Last(open)].kind = "div")
    BY LastOpen DEF StartOther, StartFails, MayStart
  <1>2. UNCHANGED <<elems, asked>> /\ intag' = FALSE /\ open' = Append(open, -1) /\ IsSequence(open)
    BY DEF StartOther, StartFails, DocInv, OpenInv
  <1>3. IsSequence(open')
    BY <1>2, Appended
  <1>4. Len(open') = Len(open) + 1
    BY <1>2, Appended
  <1>5. open'[Len(open')] = -1
    BY <1>2, Appended
  <1>6. \A j \in 1 .. Len(open) : open'[j] = open[j]
    BY <1>2, Appended
  <1>7. Elems = 1 .. Len(elems) /\ Elems' = Elems
    BY <1>2, Indices DEF DocInv, Elems
  <1>8. \A j \in 1 .. Len(open') : open'[j] \in -1 .. Len(elems')
    BY <1>1, <1>2, <1>4, <1>5, <1>6, <1>7 DEF DocInv, OpenInv, TreeInv, IsSequence
  <1>9. ASSUME NEW j \in 1 .. Len(open') - 1
        PROVE  open'[j] = 0 \/ (open'[j] > 0 /\ elems'[open'[j]].kind = "div")
    <2>1. j \in 1 .. Len(open) /\ open'[j] = open[j]
      BY <1>1, <1>4, <1>6
    <2>2. CASE j = Len(open)
      BY <1>1, <1>2, <1>7, <2>1, <2>2
    <2>3. CASE j # Len(open)
      <3>1. j \in 1 .. Len(open) - 1
        BY <1>1, <2>1, <2>3
      <3>2. QED
        BY <1>2, <2>1, <3>1 DEF DocInv, OpenInv
    <2>4. QED
      BY <2>2, <2>3
  <1>10. /\ current' \in 0 .. Len(elems')
         /\ current' = 0 \/ (current' = current /\ behind' = behind)
    BY <1>2 DEF StartOther, StartFails, DocInv, OpenInv, TreeInv, IsSequence
  <1>11. TreeInv'
    BY <1>2, <1>7 DEF DocInv, TreeInv
  <1>12. OpenInv'
    BY <1>2, <1>3, <1>8, <1>9, <1>10 DEF OpenInv
  <1>13. Last(open') = -1
    <2>1. Len(open') > 0
      BY <1>1, <1>4
    <2>2. QED
      BY <1>5, <2>1 DEF Last
  <1>14. QED
    BY <1>1, <1>2, <1>7, <1>10, <1>11, <1>12, <1>13 DEF DocInv

(* After an end tag the newest open tag is one of a <div>, or of the view. *)
LEMMA ElementEnded ==
  ASSUME DocInv, EndElement
  PROVE  /\ DocInv' /\ UNCHANGED <<elems, asked>> /\ Elems' = Elems
         /\ open' # <<>> => /\ Last(open') = 0 \/ (Last(open') \in Elems /\ elems[Last(open')].kind = "div")
                            /\ Len(open) > 1
  <1>1. /\ Len(open) \in Nat /\ Len(open) > 0 /\ Last(open) = open[Len(open)]
    BY LastOpen DEF EndElement
  <1>2. UNCHANGED <<elems, asked>> /\ intag' = FALSE /\ open' = Front(open) /\ IsSequence(open) /\ open # <<>>
    BY DEF EndElement, DocInv, OpenInv
  <1>3. IsSequence(open')
    BY <1>2, Shortened
  <1>4. Len(open') = Len(open) - 1
    BY <1>2, Shortened
  <1>5. \A j \in 1 .. Len(open') : open'[j] = open[j]
    BY <1>2, Shortened
  <1>6. Elems = 1 .. Len(elems) /\ Elems' = Elems
    BY <1>2, Indices DEF DocInv, Elems
  <1>7. ASSUME NEW j \in 1 .. Len(open')
        PROVE  /\ open'[j] \in -1 .. Len(elems')
               /\ open'[j] = 0 \/ (open'[j] > 0 /\ elems'[open'[j]].kind = "div")
    <2>1. j \in 1 .. Len(open) /\ j \in 1 .. Len(open) - 1 /\ open'[j] = open[j]
      BY <1>1, <1>4, <1>5
    <2>2. QED
      BY <1>2, <2>1 DEF DocInv, OpenInv
  <1>8. current' \in 0 .. Len(elems')
    BY <1>2 DEF EndElement, DocInv, OpenInv, TreeInv, IsSequence
  <1>9. TreeInv'
    BY <1>2, <1>6 DEF DocInv, TreeInv
  <1>10. OpenInv'
    <2>1. \A j \in 1 .. Len(open') - 1 : j \in 1 .. Len(open')
      BY <1>1, <1>4
    <2>2. QED
      BY <1>2, <1>3, <1>7, <1>8, <2>1 DEF OpenInv
  <1>11. ASSUME open' # <<>>
         PROVE  /\ Last(open') = 0 \/ (Last(open') \in Elems /\ elems[Last(open')].kind = "div")
                /\ Len(open) > 1
    <2>1. Len(open') > 0
      BY <1>3, <1>11, Shortened
    <2>2. Last(open') = open'[Len(open')] /\ Len(open') \in 1 .. Len(open')
      BY <1>1, <1>4, <2>1 DEF Last
    <2>3. QED
      BY <1>1, <1>2, <1>4, <1>6, <1>7, <2>1, <2>2
  <1>12. QED
    BY <1>2, <1>6, <1>9, <1>10, <1>11 DEF DocInv

(* A text is given to the current label; it belongs to the open one.       *)
LEMMA TextCame ==
  ASSUME DocInv, NEW s, CharacterData(s)
  PROVE  /\ DocInv' /\ Elems' = Elems
         /\ UNCHANGED <<open, current, behind>>
         /\ \A e \in Elems :
              /\ elems'[e].kind = elems[e].kind /\ elems'[e].parent = elems[e].parent
              /\ elems'[e].size = elems[e].size /\ elems'[e].image = elems[e].image
              /\ elems'[e].min = elems[e].min /\ elems'[e].opacity = elems[e].opacity
              /\ elems'[e].visible = elems[e].visible
              /\ elems'[e].text = IF e = current /\ elems[e].kind = "label" THEN s ELSE elems[e].text
              /\ asked'[e] = IF InLabel /\ e = Last(open)
                               THEN With(asked[e], "innerText",
                                         IF Asked(e, "innerText") THEN asked[e]["innerText"] \o s ELSE s)
                               ELSE asked[e]
  <1>1. /\ UNCHANGED <<open, current, behind>> /\ open # <<>> /\ intag' = FALSE
    BY DEF CharacterData
  <1>2. Elems = 1 .. Len(elems) /\ Len(elems) \in Nat /\ current \in 0 .. Len(elems)
    BY Indices DEF DocInv, OpenInv
  <1>3. /\ IsSequence(asked') /\ Len(asked') = Len(asked)
        /\ \A e \in Elems : asked'[e] = IF InLabel /\ e = Last(open)
                                          THEN With(asked[e], "innerText",
                                                    IF Asked(e, "innerText") THEN asked[e]["innerText"] \o s ELSE s)
                                          ELSE asked[e]
    <2>1. CASE InLabel
      <3> DEFINE l == Last(open)
                 a == With(asked[l], "innerText",
                           IF Asked(l, "innerText") THEN asked[l]["innerText"] \o s ELSE s)
      <3>1. l \in Elems /\ asked' = [asked EXCEPT ![l] = a]
        BY <1>1, <2>1, LastOpen DEF CharacterData, InLabel
      <3> HIDE DEF a
      <3>2. /\ IsSequence(asked') /\ Len(asked') = Len(asked)
            /\ asked'[l] = a /\ \A c \in Elems \ {l} : asked'[c] = asked[c]
        BY <3>1, AskedReplaced DEF DocInv
      <3>3. QED
        BY <2>1, <3>2 DEF a
    <2>2. CASE ~InLabel
      BY <2>2 DEF CharacterData, DocInv, TreeInv
    <2>3. QED
      BY <2>1, <2>2
  <1>4. /\ IsSequence(elems') /\ Len(elems') = Len(elems)
        /\ \A e \in Elems : elems'[e] = IF e = current /\ elems[e].kind = "label"
                                          THEN [elems[e] EXCEPT !.text = s] ELSE elems[e]
    <2>1. CASE current # 0 /\ elems[current].kind = "label"
      <3> DEFINE el == [elems[current] EXCEPT !.text = s]
      <3>1. current \in Elems /\ elems' = [elems EXCEPT ![current] = el]
        BY <1>2, <2>1 DEF CharacterData
      <3> HIDE DEF el
      <3>2. /\ IsSequence(elems') /\ Len(elems') = Len(elems)
            /\ elems'[current] = el /\ \A c \in Elems \ {current} : elems'[c] = elems[c]
        BY <3>1, ElementReplaced DEF DocInv
      <3>3. QED
        BY <2>1, <3>2 DEF el
    <2>2. CASE ~(current # 0 /\ elems[current].kind = "label")
      BY <1>2, <2>2 DEF CharacterData, DocInv, TreeInv
    <2>3. QED
      BY <2>1, <2>2
  <1>5. \A e \in Elems :
          /\ Shape(elems'[e])
          /\ elems'[e].kind = elems[e].kind /\ elems'[e].parent = elems[e].parent
          /\ elems'[e].size = elems[e].size /\ elems'[e].image = elems[e].image
          /\ elems'[e].min = elems[e].min /\ elems'[e].opacity = elems[e].opacity
          /\ elems'[e].visible = elems[e].visible
          /\ elems'[e].text = IF e = current /\ elems[e].kind = "label" THEN s ELSE elems[e].text
    <2>1. SUFFICES ASSUME NEW e \in Elems
                   PROVE  /\ Shape(elems'[e])
                          /\ elems'[e].kind = elems[e].kind /\ elems'[e].parent = elems[e].parent
                          /\ elems'[e].size = elems[e].size /\ elems'[e].image = elems[e].image
                          /\ elems'[e].min = elems[e].min /\ elems'[e].opacity = elems[e].opacity
                          /\ elems'[e].visible = elems[e].visible
                          /\ elems'[e].text = IF e = current /\ elems[e].kind = "label" THEN s ELSE elems[e].text
      OBVIOUS
    <2>2. Shape(elems[e])
      BY DEF DocInv, TreeInv
    <2>3. PICK el : el = elems[e]
      OBVIOUS
    <2>4. PICK r : r = elems'[e]
      OBVIOUS
    <2>5. CASE e = current /\ elems[e].kind = "label"
      <3>1. r = [el EXCEPT !.text = s] /\ Shape(el)
        BY <1>4, <2>2, <2>3, <2>4, <2>5
      <3>2. Shape(r) /\ r.kind = el.kind /\ r.parent = el.parent /\ r.size = el.size /\ r.image = el.image
            /\ r.min = el.min /\ r.opacity = el.opacity /\ r.visible = el.visible /\ r.text = s
        BY <3>1 DEF Shape
      <3>3. QED
        BY <2>3, <2>4, <2>5, <3>2
    <2>6. CASE ~(e = current /\ elems[e].kind = "label")
      <3>1. elems'[e] = elems[e]
        BY <1>4, <2>6
      <3>2. QED
        BY <2>2, <2>6, <3>1
    <2>7. QED
      BY <2>5, <2>6
  <1>6. Elems' = Elems
    BY <1>2, <1>4 DEF IsSequence, Elems
  <1>7. TreeInv'
    <2>1. ASSUME NEW e \in Elems'
          PROVE  /\ Shape(elems'[e]) /\ elems'[e].kind \in Kinds /\ elems'[e].parent \in 0 .. e - 1
                 /\ elems'[e].parent # 0 => elems'[elems'[e].parent].kind = "div"
      <3>1. e \in Elems
        BY <1>6
      <3>2. elems[e].parent # 0 => elems[e].parent \in Elems /\ elems[elems[e].parent].kind = "div"
        BY <3>1, Parents DEF DocInv
      <3>3. elems[e].kind \in Kinds /\ elems[e].parent \in 0 .. e - 1
        BY <3>1 DEF DocInv, TreeInv
      <3>4. QED
        BY <1>5, <3>1, <3>2, <3>3
    <2>2. QED
      BY <1>3, <1>4, <2>1 DEF DocInv, TreeInv
  <1>8. DocInv'
    BY <1>1, <1>4, <1>5, <1>7, SameDocument
  <1>9. QED
    BY <1>1, <1>3, <1>5, <1>6, <1>8

LEMMA FragmentStarted ==
  ASSUME DocInv, NEW e \in {0} \cup Elems, InsertElement(e)
  PROVE  /\ DocInv' /\ UNCHANGED <<elems, asked>> /\ Elems' = Elems
         /\ current' = 0 /\ Last(open') = e
         /\ e # 0 => elems[e].kind = "div"
  <1>1. /\ UNCHANGED <<elems, asked, intag>> /\ open' = <<e>> /\ current' = 0
        /\ e # 0 => elems[e].kind = "div"
    BY DEF InsertElement
  <1>2. Elems = 1 .. Len(elems) /\ Elems' = Elems /\ Len(elems) \in Nat
    BY <1>1, Indices DEF DocInv, Elems
  <1>3. IsSequence(open') /\ Len(open') = 1 /\ open'[1] = e
    BY <1>1 DEF IsSequence
  <1>4. Last(open') = e
    BY <1>3 DEF Last
  <1>5. TreeInv'
    BY <1>1, <1>2 DEF DocInv, TreeInv
  <1>6. OpenInv'
    BY <1>1, <1>2, <1>3 DEF DocInv, OpenInv
  <1>7. QED
    BY <1>1, <1>2, <1>4, <1>5, <1>6 DEF DocInv

(* Attributes and scripts set a property of an element.                    *)
LEMMA SomeSet ==
  ASSUME DocInv, NEW i \in Inputs,
         SetAttribute(i[1], i[2]) \/ (\E e \in Elems : ScriptSets(e, i[1], i[2]))
  PROVE  \E e \in Elems : SetProperty(e, i[1], i[2])
  <1>1. CASE SetAttribute(i[1], i[2])
    <2>1. Len(elems) \in Elems
      BY <1>1, Indices DEF SetAttribute, DocInv, OpenInv
    <2>2. QED
      BY <1>1, <2>1 DEF SetAttribute
  <1>2. CASE \E e \in Elems : ScriptSets(e, i[1], i[2])
    BY <1>2 DEF ScriptSets
  <1>3. QED
    BY <1>1, <1>2

LEMMA DocInit == Init => DocInv
  <1> SUFFICES ASSUME Init PROVE DocInv
    OBVIOUS
  <1>1. elems = <<>> /\ asked = <<>> /\ open = <<0>> /\ current = 0 /\ intag = FALSE
    BY DEF Init
  <1>2. Elems = {} /\ IsSequence(elems) /\ IsSequence(asked) /\ Len(elems) = 0 /\ Len(asked) = 0
    BY <1>1 DEF Elems, IsSequence
  <1>3. IsSequence(open) /\ Len(open) = 1 /\ open[1] = 0
    BY <1>1 DEF IsSequence
  <1>4. QED
    BY <1>1, <1>2, <1>3 DEF DocInv, TreeInv, OpenInv

LEMMA DocNext == DocInv /\ [Next]_vars => DocInv'
  <1> SUFFICES ASSUME DocInv, [Next]_vars PROVE DocInv'
    OBVIOUS
  <1>1. CASE \E i \in Inputs : SetAttribute(i[1], i[2]) \/ (\E e \in Elems : ScriptSets(e, i[1], i[2]))
    <2>1. PICK i \in Inputs : SetAttribute(i[1], i[2]) \/ (\E e \in Elems : ScriptSets(e, i[1], i[2]))
      BY <1>1
    <2>2. PICK e \in Elems : SetProperty(e, i[1], i[2])
      BY <2>1, SomeSet
    <2>3. /\ TreeInv' /\ Len(elems') = Len(elems)
          /\ \A c \in Elems : elems'[c].kind = elems[c].kind
      BY <2>2, PropertySet DEF DocInv
    <2>4. UNCHANGED <<open, current, intag>>
      BY <2>2 DEF SetProperty
    <2>5. QED
      BY <2>3, <2>4, SameDocument
  <1>2. CASE \E k \in Kinds : StartElement(k)
    BY <1>2, ElementStarted
  <1>3. CASE StartOther \/ StartFails
    BY <1>3, OtherStarted
  <1>4. CASE EndElement
    BY <1>4, ElementEnded
  <1>5. CASE \E s \in Texts : CharacterData(s)
    BY <1>5, TextCame
  <1>6. CASE \E name \in DOMAIN Strings \cup {"none"} : SkippedEntity(name)
    BY <1>6, TextCame DEF SkippedEntity
  <1>7. CASE \E e \in {0} \cup Elems : InsertElement(e)
    BY <1>7, FragmentStarted
  <1>8. CASE UNCHANGED vars \/ \E size \in ViewSizes : SetView(size)
    <2>1. UNCHANGED <<elems, asked, open, current, intag>> /\ Elems' = Elems
      BY <1>8 DEF SetView, vars, Elems
    <2>2. TreeInv'
      BY <2>1 DEF DocInv, TreeInv
    <2>3. QED
      BY <2>1, <2>2, SameDocument DEF vars
  <1>9. QED
    BY <1>1, <1>2, <1>3, <1>4, <1>5, <1>6, <1>7, <1>8 DEF Next

LEMMA Through == \A i, j, k \in 0..255 : i <= j /\ j <= k => i <= k
  OBVIOUS

LEMMA WithIs ==
  ASSUME NEW a, NEW name, NEW v
  PROVE  /\ DOMAIN With(a, name, v) = {name} \cup DOMAIN a
         /\ With(a, name, v)[name] = v
         /\ \A m \in DOMAIN a : m # name => With(a, name, v)[m] = a[m]
  BY DEF With

-----------------------------------------------------------------------------
(* Labels                                                                  *)

LEMMA LabelInit == Init => LabelInv
  <1> SUFFICES ASSUME Init PROVE LabelInv
    OBVIOUS
  <1>1. elems = <<>> /\ open = <<0>> /\ current = 0
    BY DEF Init
  <1>2. Elems = {} /\ Last(open) = 0
    BY <1>1 DEF Elems, Last
  <1>3. QED
    BY <1>1, <1>2 DEF LabelInv, InLabel

LEMMA LabelSet ==
  ASSUME DocInv, LabelInv, NEW i \in Inputs, NEW e \in Elems, SetProperty(e, i[1], i[2])
  PROVE  LabelInv'
  <1> DEFINE name == i[1]
             v == i[2]
             a == IF name \in {"width", "height"} /\ ~Numeric(v) THEN asked[e] ELSE With(asked[e], name, v)
  <1>1. /\ Sets(elems[e], elems'[e], name, v) /\ Elems' = Elems
        /\ asked' = [asked EXCEPT ![e] = a]
        /\ \A c \in Elems \ {e} : elems'[c] = elems[c]
        /\ \A c \in Elems : elems'[c].kind = elems[c].kind
    BY PropertySet DEF DocInv
  <1>2. asked'[e] = a /\ \A c \in Elems \ {e} : asked'[c] = asked[c]
    <2> HIDE DEF a
    <2>1. QED
      BY <1>1, AskedReplaced DEF DocInv
  <1>3. /\ UNCHANGED <<open, current, behind>>
        /\ covered' = IF name = "innerText" THEN covered \ {e} ELSE covered
    BY DEF SetProperty
  <1>4. e \notin covered' => TextAsAsked(elems'[e], asked'[e])
    <2>1. /\ "innerText" \in DOMAIN a <=> (name = "innerText" \/ "innerText" \in DOMAIN asked[e])
          /\ name = "innerText" => a["innerText"] = v
          /\ name # "innerText" /\ "innerText" \in DOMAIN asked[e] => a["innerText"] = asked[e]["innerText"]
      <3>1. CASE name \in {"width", "height"} /\ ~Numeric(v)
        BY <3>1
      <3>2. CASE ~(name \in {"width", "height"} /\ ~Numeric(v))
        <4>1. a = With(asked[e], name, v)
          BY <3>2
        <4>2. /\ DOMAIN a = {name} \cup DOMAIN asked[e] /\ a[name] = v
              /\ \A m \in DOMAIN asked[e] : m # name => a[m] = asked[e][m]
          <5> HIDE DEF a, name, v
          <5>1. DOMAIN a = {name} \cup DOMAIN asked[e]
            BY <4>1, WithIs
          <5>2. a[name] = v
            BY <4>1 DEF With
          <5>3. \A m \in DOMAIN asked[e] : m # name => a[m] = asked[e][m]
            BY <4>1 DEF With
          <5>4. QED
            BY <5>1, <5>2, <5>3
        <4> HIDE DEF a, name, v
        <4>3. QED
          BY <4>2
      <3>3. QED
        BY <3>1, <3>2
    <2>2. /\ elems'[e].text = IF name = "innerText" THEN v ELSE elems[e].text
          /\ elems'[e].kind = elems[e].kind
      BY <1>1 DEF Sets
    <2>3. name # "innerText" /\ e \notin covered' => TextAsAsked(elems[e], asked[e])
      BY <1>3 DEF LabelInv
    <2> HIDE DEF a, name, v
    <2>4. CASE name = "innerText"
      BY <1>2, <2>1, <2>2, <2>4 DEF TextAsAsked
    <2>5. CASE name # "innerText"
      BY <1>2, <2>1, <2>2, <2>3, <2>5 DEF TextAsAsked
    <2>6. QED
      BY <2>4, <2>5
  <1>5. \A c \in Elems' \ covered' : TextAsAsked(elems'[c], asked'[c])
    <2>1. \A c \in Elems \ {e} : c \notin covered' => TextAsAsked(elems[c], asked[c])
      BY <1>3 DEF LabelInv
    <2>2. QED
      BY <1>1, <1>2, <1>4, <2>1
  <1>6. /\ (open # <<>> /\ Last(open) > 0) => Last(open) \in Elems
        /\ current # 0 => current \in Elems
    BY LastOpen, Indices DEF DocInv, OpenInv
  <1>7. open' # <<>> /\ InLabel' => Last(open') = current'
    BY <1>1, <1>3, <1>6 DEF LabelInv, InLabel
  <1>8. current' # 0 /\ elems'[current'].kind = "label" => behind' = current' \/ (open' # <<>> /\ Last(open') = current')
    BY <1>1, <1>3, <1>6 DEF LabelInv
  <1>9. QED
    BY <1>5, <1>7, <1>8 DEF LabelInv

LEMMA LabelStarted ==
  ASSUME DocInv, LabelInv, NEW k \in Kinds, StartElement(k)
  PROVE  LabelInv'
  <1>1. /\ Elems' = Elems \cup {Len(elems')} /\ Last(open') = Len(elems') /\ open' # <<>>
        /\ elems'[Len(elems')] = Made(k, Last(open)) /\ asked'[Len(elems')] = <<>>
        /\ \A e \in Elems : elems'[e] = elems[e] /\ asked'[e] = asked[e]
    BY ElementStarted
  <1>2. current' = Len(elems') /\ covered' = covered
    BY DEF StartElement
  <1>3. TextAsAsked(Made(k, Last(open)), <<>>)
    BY DEF TextAsAsked, Made
  <1>4. \A e \in Elems' \ covered' : TextAsAsked(elems'[e], asked'[e])
    BY <1>1, <1>2, <1>3 DEF LabelInv
  <1>5. QED
    BY <1>1, <1>2, <1>4 DEF LabelInv

LEMMA LabelText ==
  ASSUME "pieces" \notin Env, DocInv, LabelInv, NEW s, CharacterData(s)
  PROVE  LabelInv'
  <1>1. /\ Elems' = Elems /\ UNCHANGED <<open, current, behind>>
        /\ \A e \in Elems :
             /\ elems'[e].kind = elems[e].kind
             /\ elems'[e].text = IF e = current /\ elems[e].kind = "label" THEN s ELSE elems[e].text
             /\ asked'[e] = IF InLabel /\ e = Last(open)
                              THEN With(asked[e], "innerText",
                                        IF Asked(e, "innerText") THEN asked[e]["innerText"] \o s ELSE s)
                              ELSE asked[e]
    BY TextCame
  <1>2. /\ open # <<>> /\ covered' = IF behind = 0 THEN covered ELSE covered \cup {behind}
        /\ InLabel => ~Asked(Last(open), "innerText")
    BY DEF CharacterData
  <1>3. /\ Last(open) > 0 => Last(open) \in Elems
        /\ current # 0 => current \in Elems
        /\ \A e \in Elems : e > 0
    BY <1>2, LastOpen, Indices DEF DocInv, OpenInv
  <1>4. ASSUME NEW e \in Elems, e \notin covered'
        PROVE  (e = current /\ elems[e].kind = "label") <=> (InLabel /\ e = Last(open))
    <2>1. e > 0 /\ e # 0 /\ e # behind
      BY <1>2, <1>3, <1>4
    <2>2. ASSUME e = current, elems[e].kind = "label" PROVE InLabel /\ e = Last(open)
      <3>1. Last(open) = current
        BY <1>2, <2>1, <2>2 DEF LabelInv
      <3>2. QED
        BY <2>1, <2>2, <3>1 DEF InLabel
    <2>3. ASSUME InLabel, e = Last(open) PROVE e = current /\ elems[e].kind = "label"
      BY <1>2, <2>3 DEF LabelInv, InLabel
    <2>4. QED
      BY <2>2, <2>3
  <1>5. ASSUME NEW e \in Elems, e \notin covered' PROVE TextAsAsked(elems'[e], asked'[e])
    <2>0. e \notin covered
      BY <1>2, <1>5
    <2>1. TextAsAsked(elems[e], asked[e])
      BY <2>0 DEF LabelInv
    <2>2. CASE e = current /\ elems[e].kind = "label"
      <3>1. elems'[e].text = s
        BY <1>1, <2>2
      <3>2. asked'[e] = With(asked[e], "innerText", s)
        BY <1>1, <1>2, <1>4, <1>5, <2>2
      <3>3. "innerText" \in DOMAIN asked'[e] /\ asked'[e]["innerText"] = s
        <4>1. DOMAIN With(asked[e], "innerText", s) = {"innerText"} \cup DOMAIN asked[e]
          <5>1. \A x : x \in {"innerText"} \cup DOMAIN asked[e] <=> x = "innerText" \/ x \in DOMAIN asked[e]
            OBVIOUS
          <5>2. QED
            BY <5>1, Zenon DEF With
        <4>2. With(asked[e], "innerText", s)["innerText"] = s
          BY DEF With
        <4>3. QED
          BY <3>2, <4>1, <4>2, Zenon
      <3>4. QED
        BY <3>1, <3>3 DEF TextAsAsked
    <2>3. CASE ~(e = current /\ elems[e].kind = "label")
      <3>1. elems'[e].text = elems[e].text /\ asked'[e] = asked[e] /\ elems'[e].kind = elems[e].kind
        BY <1>1, <1>4, <1>5, <2>3
      <3>2. QED
        BY <2>1, <3>1 DEF TextAsAsked
    <2>4. QED
      BY <2>2, <2>3
  <1>6. open' # <<>> /\ InLabel' => Last(open') = current'
    BY <1>1, <1>3 DEF LabelInv, InLabel
  <1>7. current' # 0 /\ elems'[current'].kind = "label" => behind' = current' \/ (open' # <<>> /\ Last(open') = current')
    BY <1>1, <1>3 DEF LabelInv
  <1>8. QED
    BY <1>1, <1>5, <1>6, <1>7 DEF LabelInv

LEMMA LabelNext ==
  ASSUME "pieces" \notin Env
  PROVE  DocInv /\ LabelInv /\ [Next]_vars => LabelInv'
  <1> SUFFICES ASSUME DocInv, LabelInv, [Next]_vars PROVE LabelInv'
    OBVIOUS
  <1>1. CASE \E i \in Inputs : SetAttribute(i[1], i[2]) \/ (\E e \in Elems : ScriptSets(e, i[1], i[2]))
    BY <1>1, SomeSet, LabelSet
  <1>2. CASE \E k \in Kinds : StartElement(k)
    BY <1>2, LabelStarted
  <1>3. CASE StartOther \/ StartFails
    <2>0. covered' = covered
      BY <1>3 DEF StartOther, StartFails
    <2>1. /\ UNCHANGED <<elems, asked>> /\ Elems' = Elems
          /\ Last(open') = -1
          /\ current' = 0 \/ (current' = current /\ behind' = behind)
          /\ Last(open) = 0 \/ (Last(open) \in Elems /\ elems[Last(open)].kind = "div")
      BY <1>3, OtherStarted
    <2>2. current # 0 /\ elems[current].kind = "label" => behind = current
      BY <2>1 DEF LabelInv
    <2>3. QED
      BY <2>0, <2>1, <2>2 DEF LabelInv, InLabel
  <1>4. CASE EndElement
    <2>1. /\ UNCHANGED <<elems, asked>> /\ Elems' = Elems
          /\ open' # <<>> => /\ Last(open') = 0 \/ (Last(open') \in Elems /\ elems[Last(open')].kind = "div")
                             /\ Len(open) > 1
      BY <1>4, ElementEnded
    <2>2. open' # <<>> => ~InLabel'
      BY <2>1 DEF InLabel
    <2>3. current' # 0 /\ elems'[current'].kind = "label" => behind' = current'
      <3>1. open # <<>> /\ current' = IF Len(open) = 1 THEN 0 ELSE current
        BY <1>4 DEF EndElement
      <3>2. behind' = IF Len(open) = 1 THEN 0 ELSE IF InLabel THEN Last(open) ELSE behind
        BY <1>4 DEF EndElement
      <3>3. current # 0 => current > 0
        BY Indices DEF DocInv, OpenInv
      <3>4. SUFFICES ASSUME current' # 0, elems'[current'].kind = "label" PROVE behind' = current'
        OBVIOUS
      <3>5. current' = current /\ current # 0 /\ elems[current].kind = "label" /\ Len(open) # 1
        BY <2>1, <3>1, <3>4
      <3>6. CASE InLabel
        BY <3>1, <3>2, <3>5, <3>6 DEF LabelInv
      <3>7. CASE ~InLabel
        <4>1. Last(open) # current
          BY <3>3, <3>5, <3>7 DEF InLabel
        <4>2. behind = current
          BY <3>5, <4>1 DEF LabelInv
        <4>3. QED
          BY <3>2, <3>5, <3>7, <4>2
      <3>8. QED
        BY <3>6, <3>7
    <2>4. covered' = covered
      BY <1>4 DEF EndElement
    <2>5. QED
      BY <2>1, <2>2, <2>3, <2>4 DEF LabelInv
  <1>5. CASE \E s \in Texts : CharacterData(s)
    BY <1>5, LabelText
  <1>6. CASE \E name \in DOMAIN Strings \cup {"none"} : SkippedEntity(name)
    BY <1>6, LabelText DEF SkippedEntity
  <1>7. CASE \E e \in {0} \cup Elems : InsertElement(e)
    <2>1. PICK e \in {0} \cup Elems : InsertElement(e)
      BY <1>7
    <2>2. /\ UNCHANGED <<elems, asked>> /\ Elems' = Elems
          /\ current' = 0 /\ Last(open') = e
          /\ e # 0 => elems[e].kind = "div"
      BY <2>1, FragmentStarted
    <2>5. covered' = covered
      BY <2>1 DEF InsertElement
    <2>3. ~InLabel'
      BY <2>2 DEF InLabel
    <2>4. QED
      BY <2>2, <2>3, <2>5 DEF LabelInv
  <1>8. CASE UNCHANGED vars \/ \E size \in ViewSizes : SetView(size)
    <2>1. UNCHANGED <<elems, asked, open, current, behind, covered>>
      BY <1>8 DEF SetView, vars
    <2>2. QED
      BY <2>1 DEF LabelInv, InLabel, Elems
  <1>9. QED
    BY <1>1, <1>2, <1>3, <1>4, <1>5, <1>6, <1>7, <1>8 DEF Next

(* In documents whose labels have their text in one piece, a label shows   *)
(* that text, or the innerText that was set last (xgg_on_characterdata,    *)
(* xgg_label.c), unless text follows its end tag, however elements,        *)
(* scripts, fragments and texts anywhere else follow each other.           *)
THEOREM LabelsAsAskedAlways ==
  ASSUME "pieces" \notin Env
  PROVE  Spec => []LabelsAsAsked
  <1>1. DocInv /\ LabelInv /\ [Next]_vars => (DocInv /\ LabelInv)'
    BY DocNext, LabelNext
  <1>2. LabelInv => LabelsAsAsked
    BY DEF LabelInv, LabelsAsAsked, HasAskedText, TextAsAsked, Asked
  <1>3. QED
    BY DocInit, LabelInit, <1>1, <1>2, PTL DEF Spec

-----------------------------------------------------------------------------
(* Sizes                                                                   *)

LEMMA SideStays ==
  ASSUME NEW el, NEW r, NEW a, NEW b, NEW d \in 1..2, NEW w, NEW x, SideAsAsked(el, a, d, w),
         r.parent = el.parent, r.kind = el.kind, r.image = el.image, r.size[d] = el.size[d],
         Sides[d] \in DOMAIN b <=> Sides[d] \in DOMAIN a,
         Sides[d] \in DOMAIN a => b[Sides[d]] = a[Sides[d]],
         Sides[d] \in DOMAIN a /\ a[Sides[d]].percent /\ el.parent # 0 => x = w
  PROVE  SideAsAsked(r, b, d, x)
  BY DEF SideAsAsked

LEMMA WithOther ==
  ASSUME NEW a, NEW name, NEW v, NEW m, m # name
  PROVE  /\ m \in DOMAIN With(a, name, v) <=> m \in DOMAIN a
         /\ m \in DOMAIN a => With(a, name, v)[m] = a[m]
  BY DEF With

LEMMA SidesDiffer == \A d, c \in 1..2 : Sides[d] = Sides[c] <=> d = c
  BY DEF Sides

(* The element itself: the size set, that of an image, or none.            *)
LEMMA OwnSide ==
  ASSUME Env \cap {"badSize", "ofView", "resize", "otherImage", "zeroSize"} = {},
         TreeInv, NEW i \in Inputs, NEW e \in Elems, NEW d \in 1..2, NEW w,
         SideAsAsked(elems[e], asked[e], d, w),
         elems[e].parent # 0 => w = elems[elems[e].parent].size[d],
         Has(elems[e].kind, i[1]), MayAsk(e, i[1], i[2]),
         NEW r \in Results(e, i[1], i[2])
  PROVE  SideAsAsked(r, With(asked[e], i[1], i[2]), d, w)
  <1> DEFINE name == i[1]
             v == i[2]
             el == elems[e]
             a == asked[e]
             b == With(a, name, v)
  <1>1. /\ Sets(el, r, name, v) /\ Shape(el)
        /\ name = "src" => r = WithImage(el, v) /\ v \in Nat
        /\ \A c \in 1..2 : name = Sides[c] => r.size \in {[el.size EXCEPT ![c] = n] : n \in Sizes(e, c, v)}
    BY SetterSets, InputsAssumption DEF TreeInv
  <1>2. name # Sides[d] => /\ Sides[d] \in DOMAIN b <=> Sides[d] \in DOMAIN a
                           /\ Sides[d] \in DOMAIN a => b[Sides[d]] = a[Sides[d]]
    <2>1. SUFFICES ASSUME name # Sides[d]
                   PROVE  /\ Sides[d] \in DOMAIN b <=> Sides[d] \in DOMAIN a
                          /\ Sides[d] \in DOMAIN a => b[Sides[d]] = a[Sides[d]]
      OBVIOUS
    <2> HIDE DEF name, v, a
    <2>2. QED
      BY <2>1, WithOther
  <1>3. r.parent = el.parent /\ r.kind = el.kind
    BY <1>1 DEF Sets
  <1>4. CASE name = Sides[d]
    <2>1. PICK n \in Sizes(e, d, v) : r.size = [el.size EXCEPT ![d] = n]
      BY <1>1, <1>4
    <2>2. r.size[d] = n
      BY <1>1, <2>1 DEF Shape
    <2>3. Numeric(v) /\ (v.percent => el.parent # 0)
      BY <1>4 DEF MayAsk, MaySize
    <2>4. n = IF v.percent THEN (w * v.n) \div 100 ELSE v.n
      BY <2>3 DEF Sizes
    <2>5. Sides[d] \in DOMAIN b /\ b[Sides[d]] = v
      <3> HIDE DEF v, a
      <3>1. Sides[d] \in DOMAIN b
        BY <1>4 DEF With
      <3>2. b[Sides[d]] = v
        BY <1>4 DEF With
      <3>3. QED
        BY <3>1, <3>2
    <2> HIDE DEF name, v, el, a, b
    <2>6. QED
      BY <1>3, <2>2, <2>3, <2>4, <2>5 DEF SideAsAsked, el, a, b, name, v
  <1>5. CASE name = "src" /\ v = 0
    <2>1. r = [el EXCEPT !.image = IF el.kind = "progressbar" THEN el.image ELSE 0]
      BY <1>1, <1>5 DEF WithImage
    <2>2. el.kind \in {"img", "button", "progressbar"}
      BY <1>5 DEF Has
    <2>3. name # Sides[d]
      BY <1>5 DEF Sides
    <2>4. r.size = el.size /\ (r.image = el.image \/ (r.image = 0 /\ r.kind \notin {"div", "label"}))
      <3> HIDE DEF el
      <3>1. QED
        BY <1>1, <1>3, <2>1, <2>2 DEF Shape
    <2> HIDE DEF name, v, b
    <2>5. QED
      BY <1>2, <1>3, <2>3, <2>4 DEF SideAsAsked, b, name, v
  <1>6. CASE name = "src" /\ v # 0
    <2>1. r = [el EXCEPT !.image = v, !.size = [c \in 1..2 |-> IF el.size[c] = 0 THEN v ELSE el.size[c]]]
      BY <1>1, <1>6 DEF WithImage
    <2>2. r.image = v /\ r.size[d] = IF el.size[d] = 0 THEN v ELSE el.size[d]
      <3> HIDE DEF el, v
      <3>1. QED
        BY <1>1, <2>1 DEF Shape
    <2>3. /\ Sides[d] \notin DOMAIN a => el.size[d] \in {0, v}
          /\ Sides[d] \in DOMAIN a => el.size[d] # 0
      BY <1>6 DEF MayAsk, Asked
    <2>4. name # Sides[d]
      BY <1>6 DEF Sides
    <2> HIDE DEF name, v, b
    <2>5. QED
      BY <1>2, <1>3, <2>2, <2>3, <2>4 DEF SideAsAsked, b, name, v
  <1>7. CASE name # Sides[d] /\ name # "src"
    <2>1. r.image = el.image
      BY <1>1, <1>7 DEF Sets
    <2>2. r.size[d] = el.size[d]
      <3>1. CASE \E c \in 1..2 : name = Sides[c]
        <4>1. PICK c \in 1..2 : name = Sides[c] /\ c # d
          BY <1>7, <3>1
        <4>2. PICK n : r.size = [el.size EXCEPT ![c] = n]
          BY <1>1, <4>1
        <4>3. QED
          BY <1>1, <4>1, <4>2 DEF Shape
      <3>2. CASE \A c \in 1..2 : name # Sides[c]
        <4>1. name \notin {"width", "height", "src"}
          BY <1>7, <3>2 DEF Sides
        <4>2. QED
          BY <1>1, <4>1 DEF Sets
      <3>3. QED
        BY <3>1, <3>2
    <2> HIDE DEF name, v, b
    <2>3. QED
      BY <1>2, <1>3, <1>7, <2>1, <2>2 DEF SideAsAsked, b, name, v
  <1>8. QED
    BY <1>4, <1>5, <1>6, <1>7

(* The size of an element that its children have percentages of stays.     *)
LEMMA ParentStays ==
  ASSUME "resize" \notin Env, TreeInv, NEW i \in Inputs, NEW e \in Elems,
         NEW c \in Elems, elems[c].parent = e, NEW d \in 1..2,
         Sides[d] \in DOMAIN asked[c], asked[c][Sides[d]].percent,
         Has(elems[e].kind, i[1]), MayAsk(e, i[1], i[2]),
         NEW r \in Results(e, i[1], i[2])
  PROVE  r.size[d] = elems[e].size[d]
  <1>1. /\ Sets(elems[e], r, i[1], i[2]) /\ Shape(elems[e])
        /\ \A b \in 1..2 : i[1] = Sides[b] =>
             r.size \in {[elems[e].size EXCEPT ![b] = n] : n \in Sizes(e, b, i[2])}
    BY SetterSets, SMTT(30) DEF TreeInv
  <1>2. i[1] # "src"
    <2>1. e # 0
      BY Indices
    <2>2. elems[e].kind = "div"
      BY <2>1, Parents
    <2>3. QED
      BY <2>2 DEF Has
  <1>3. i[1] # Sides[d]
    BY DEF MayAsk, MaySize, Asked
  <1>4. CASE \E b \in 1..2 : i[1] = Sides[b]
    <2>1. PICK b \in 1..2 : i[1] = Sides[b] /\ b # d
      BY <1>3, <1>4
    <2>2. PICK n : r.size = [elems[e].size EXCEPT ![b] = n]
      BY <1>1, <2>1, ZenonT(60)
    <2>3. QED
      BY <1>1, <2>1, <2>2 DEF Shape
  <1>5. CASE \A b \in 1..2 : i[1] # Sides[b]
    <2>1. i[1] \notin {"width", "height", "src"}
      BY <1>2, <1>5 DEF Sides
    <2>2. QED
      BY <1>1, <2>1 DEF Sets
  <1>6. QED
    BY <1>4, <1>5

LEMMA SizeSet ==
  ASSUME Env \cap {"badSize", "ofView", "resize", "otherImage", "zeroSize"} = {},
         TreeInv, SizeInv, NEW i \in Inputs, NEW e \in Elems, SetProperty(e, i[1], i[2])
  PROVE  SizeInv'
  <1>1. /\ Has(elems[e].kind, i[1]) /\ MayAsk(e, i[1], i[2])
        /\ elems'[e] \in Results(e, i[1], i[2]) /\ Elems' = Elems
        /\ \A c \in Elems \ {e} : elems'[c] = elems[c]
        /\ \A c \in Elems : elems'[c].parent = elems[c].parent
    BY PropertySet
  <1>2. asked'[e] = With(asked[e], i[1], i[2]) /\ \A c \in Elems \ {e} : asked'[c] = asked[c]
    <2> DEFINE a == With(asked[e], i[1], i[2])
    <2>1. i[1] \in {"width", "height"} => Numeric(i[2])
      BY <1>1 DEF MayAsk, MaySize, Sides
    <2>2. asked' = [asked EXCEPT ![e] = a]
      BY <2>1, PropertySet
    <2> HIDE DEF a
    <2>3. asked'[e] = a /\ \A c \in Elems \ {e} : asked'[c] = asked[c]
      BY <2>2, AskedReplaced
    <2>4. QED
      BY <2>3 DEF a
  <1>3. \A c \in Elems : elems[c].parent # 0 => elems[c].parent \in Elems /\ elems[c].parent # c
    BY Parents, Indices
  <1>4. ASSUME NEW d \in 1..2
        PROVE  SideAsAsked(elems'[e], asked'[e], d, elems'[elems'[e].parent].size[d])
    <2> DEFINE w == elems'[elems'[e].parent].size[d]
    <2>1. elems[e].parent # 0 => w = elems[elems[e].parent].size[d]
      BY <1>1, <1>3
    <2>2. SideAsAsked(elems[e], asked[e], d, elems[elems[e].parent].size[d])
      BY DEF SizeInv
    <2> HIDE DEF w
    <2>3. SideAsAsked(elems[e], asked[e], d, w)
      BY <2>1, <2>2, SideStays, SMTT(30)
    <2>4. SideAsAsked(elems'[e], With(asked[e], i[1], i[2]), d, w)
      BY <1>1, <2>1, <2>3, OwnSide
    <2>5. QED
      BY <1>2, <2>4 DEF w
  <1>5. ASSUME NEW c \in Elems, c # e, NEW d \in 1..2
        PROVE  SideAsAsked(elems'[c], asked'[c], d, elems'[elems'[c].parent].size[d])
    <2> DEFINE w == elems[elems[c].parent].size[d]
               x == elems'[elems'[c].parent].size[d]
    <2>1. elems'[c] = elems[c] /\ asked'[c] = asked[c]
      BY <1>1, <1>2, <1>5
    <2>2. ASSUME Sides[d] \in DOMAIN asked[c], asked[c][Sides[d]].percent, elems[c].parent # 0
          PROVE  x = w
      <3>1. CASE elems[c].parent = e
        <4>1. elems'[e].size[d] = elems[e].size[d]
          BY <1>1, <2>2, <3>1, ParentStays
        <4>2. QED
          BY <2>1, <3>1, <4>1
      <3>2. CASE elems[c].parent # e
        BY <1>1, <1>3, <2>1, <2>2, <3>2
      <3>3. QED
        BY <3>1, <3>2
    <2>3. SideAsAsked(elems[c], asked[c], d, w)
      BY DEF SizeInv
    <2> HIDE DEF w, x
    <2>4. SideAsAsked(elems[c], asked[c], d, x)
      BY <2>2, <2>3, SideStays
    <2>5. QED
      BY <2>1, <2>4 DEF x
  <1>6. QED
    BY <1>1, <1>4, <1>5 DEF SizeInv

LEMMA SizeStarted ==
  ASSUME DocInv, SizeInv, NEW k \in Kinds, StartElement(k)
  PROVE  SizeInv'
  <1>1. /\ Elems' = Elems \cup {Len(elems')}
        /\ elems'[Len(elems')] = Made(k, Last(open)) /\ asked'[Len(elems')] = <<>>
        /\ \A e \in Elems : elems'[e] = elems[e] /\ asked'[e] = asked[e]
    BY ElementStarted
  <1>2. ASSUME NEW d \in 1..2, NEW w PROVE SideAsAsked(Made(k, Last(open)), <<>>, d, w)
    BY DEF SideAsAsked, Made
  <1>3. ASSUME NEW e \in Elems, NEW d \in 1..2
        PROVE  SideAsAsked(elems'[e], asked'[e], d, elems'[elems'[e].parent].size[d])
    <2> DEFINE w == elems[elems[e].parent].size[d]
               x == elems'[elems'[e].parent].size[d]
    <2>1. elems[e].parent # 0 => elems[e].parent \in Elems
      BY Parents DEF DocInv
    <2>2. elems[e].parent # 0 => x = w
      BY <1>1, <2>1
    <2>3. SideAsAsked(elems[e], asked[e], d, w)
      BY DEF SizeInv
    <2> HIDE DEF w, x
    <2>4. SideAsAsked(elems[e], asked[e], d, x)
      BY <2>2, <2>3, SideStays
    <2>5. QED
      BY <1>1, <2>4 DEF x
  <1>4. QED
    BY <1>1, <1>2, <1>3 DEF SizeInv

LEMMA SizeText ==
  ASSUME DocInv, SizeInv, NEW s, CharacterData(s)
  PROVE  SizeInv'
  <1>1. /\ Elems' = Elems
        /\ \A e \in Elems :
             /\ elems'[e].kind = elems[e].kind /\ elems'[e].parent = elems[e].parent
             /\ elems'[e].size = elems[e].size /\ elems'[e].image = elems[e].image
             /\ asked'[e] = asked[e] \/ \E t : asked'[e] = With(asked[e], "innerText", t)
    <2>1. \A e \in Elems :
            asked'[e] = IF InLabel /\ e = Last(open)
                          THEN With(asked[e], "innerText",
                                    IF Asked(e, "innerText") THEN asked[e]["innerText"] \o s ELSE s)
                          ELSE asked[e]
      BY TextCame
    <2>2. \A e \in Elems : asked'[e] = asked[e] \/ \E t : asked'[e] = With(asked[e], "innerText", t)
      BY <2>1
    <2>3. QED
      BY <2>2, TextCame
  <1>2. ASSUME NEW e \in Elems, NEW d \in 1..2
        PROVE  SideAsAsked(elems'[e], asked'[e], d, elems'[elems'[e].parent].size[d])
    <2> DEFINE w == elems[elems[e].parent].size[d]
               x == elems'[elems'[e].parent].size[d]
    <2>1. elems[e].parent # 0 => elems[e].parent \in Elems
      BY Parents DEF DocInv
    <2>2. elems[e].parent # 0 => x = w
      BY <1>1, <2>1
    <2>3. SideAsAsked(elems[e], asked[e], d, w)
      BY DEF SizeInv
    <2>4. /\ Sides[d] \in DOMAIN asked'[e] <=> Sides[d] \in DOMAIN asked[e]
          /\ Sides[d] \in DOMAIN asked[e] => asked'[e][Sides[d]] = asked[e][Sides[d]]
      <3>1. Sides[d] # "innerText"
        BY DEF Sides
      <3>2. CASE asked'[e] = asked[e]
        BY <3>2
      <3>3. CASE \E t : asked'[e] = With(asked[e], "innerText", t)
        <4>1. PICK t : asked'[e] = With(asked[e], "innerText", t)
          BY <3>3
        <4>2. PICK m : m = Sides[d]
          OBVIOUS
        <4>3. m \in DOMAIN With(asked[e], "innerText", t) <=> m \in DOMAIN asked[e]
          BY <3>1, <4>2, WithOther
        <4>4. m \in DOMAIN asked[e] => With(asked[e], "innerText", t)[m] = asked[e][m]
          BY <3>1, <4>2, WithOther
        <4>5. QED
          BY <4>1, <4>2, <4>3, <4>4
      <3>4. QED
        BY <1>1, <3>2, <3>3
    <2> HIDE DEF w, x
    <2>5. SideAsAsked(elems'[e], asked'[e], d, x)
      BY <1>1, <2>2, <2>3, <2>4, SideStays
    <2>6. QED
      BY <2>5 DEF x
  <1>3. QED
    BY <1>1, <1>2 DEF SizeInv

LEMMA SizeNext ==
  ASSUME Env \cap {"badSize", "ofView", "resize", "otherImage", "zeroSize"} = {}
  PROVE  DocInv /\ SizeInv /\ [Next]_vars => SizeInv'
  <1> SUFFICES ASSUME DocInv, SizeInv, [Next]_vars PROVE SizeInv'
    OBVIOUS
  <1>1. CASE \E i \in Inputs : SetAttribute(i[1], i[2]) \/ (\E e \in Elems : ScriptSets(e, i[1], i[2]))
    BY <1>1, SomeSet, SizeSet DEF DocInv
  <1>2. CASE \E k \in Kinds : StartElement(k)
    BY <1>2, SizeStarted
  <1>3. CASE \E s \in Texts : CharacterData(s)
    BY <1>3, SizeText
  <1>4. CASE \E name \in DOMAIN Strings \cup {"none"} : SkippedEntity(name)
    BY <1>4, SizeText DEF SkippedEntity
  <1>5. CASE \/ StartOther \/ StartFails \/ EndElement
             \/ \E e \in {0} \cup Elems : InsertElement(e)
             \/ \E size \in ViewSizes : SetView(size)
             \/ UNCHANGED vars
    <2>1. UNCHANGED <<elems, asked>>
      BY <1>5 DEF StartOther, StartFails, EndElement, InsertElement, SetView, vars
    <2>2. QED
      BY <2>1 DEF SizeInv, Elems
  <1>6. QED
    BY <1>1, <1>2, <1>3, <1>4, <1>5 DEF Next

(* xgg_be_propop_xn_set and xgg_img_propop_src_set together: whatever is   *)
(* set, in whatever order, by attributes and by scripts of documents that  *)
(* give numbers, take percentages of elements whose own size stays, and    *)
(* load images of one size into sides that are not 0, each side of an      *)
(* element is what was asked for last, or the image's.                     *)
THEOREM SizesAsAskedAlways ==
  ASSUME Env \cap {"badSize", "ofView", "resize", "otherImage", "zeroSize"} = {}
  PROVE  Spec => []SizesAsAsked
  <1>1. Init => SizeInv
    BY DEF Init, SizeInv, Elems
  <1>2. DocInv /\ SizeInv /\ [Next]_vars => (DocInv /\ SizeInv)'
    BY DocNext, SizeNext
  <1>3. DocInv /\ SizeInv => SizesAsAsked
    <2> SUFFICES ASSUME DocInv, SizeInv, NEW e \in Elems, NEW d \in 1..2
                 PROVE  LET el == elems[e]
                            whole == IF el.parent = 0 THEN view[d] ELSE elems[el.parent].size[d]
                        IN  IF Asked(e, Sides[d])
                              THEN LET v == asked[e][Sides[d]]
                                   IN  el.size[d] = IF v.percent THEN (whole * v.n) \div 100 ELSE v.n
                              ELSE IF el.image # 0 THEN el.size[d] = el.image
                              ELSE el.kind \in {"div", "label"} => el.size[d] = 0
      BY DEF SizesAsAsked
    <2>1. SideAsAsked(elems[e], asked[e], d, elems[elems[e].parent].size[d])
      BY DEF SizeInv
    <2>2. CASE Asked(e, Sides[d])
      BY <2>1, <2>2 DEF SideAsAsked, Asked
    <2>3. CASE ~Asked(e, Sides[d])
      BY <2>1, <2>3 DEF SideAsAsked, Asked
    <2>4. QED
      BY <2>2, <2>3
  <1>4. QED
    BY DocInit, <1>1, <1>2, <1>3, PTL DEF Spec

-----------------------------------------------------------------------------
(* Numbers                                                                 *)

(* A set of numbers that has one has a least one.                          *)
LEMMA LeastNumber ==
  ASSUME NEW T, T \subseteq Nat, T # {}
  PROVE  \E m \in T : \A k \in T : m <= k
  <1>1. PICK n \in T : TRUE
    OBVIOUS
  <1> DEFINE S == 0 .. n
             D == {0 .. k : k \in T \cap S}
  <1>2. IsWellFoundedOn(StrictSubsetOrdering(S), SUBSET S)
    <2>1. IsFiniteSet(S)
      BY <1>1, FS_Interval
    <2> HIDE DEF S
    <2>2. FiniteSubsetsOf(S) = SUBSET S
      BY <2>1, FS_FiniteSubsetsOfFinite
    <2>3. QED
      BY <2>2, FS_StrictSubsetOrderingWellFounded
  <1>3. D \subseteq SUBSET S /\ D # {}
    BY <1>1
  <1>4. PICK A \in D : \A B \in D : <<B, A>> \notin StrictSubsetOrdering(S)
    <2> HIDE DEF S, D
    <2>1. QED
      BY <1>2, <1>3, WFMin
  <1>5. PICK m \in T \cap S : A = 0 .. m
    BY <1>4
  <1>6. ASSUME NEW k \in T, k < m PROVE FALSE
    <2>1. k \in S /\ k \in Nat /\ m \in Nat
      BY <1>1, <1>5, <1>6
    <2>2. 0 .. k \in D /\ 0 .. k \in SUBSET S /\ A \in SUBSET S
      BY <1>3, <1>5, <2>1
    <2>3. 0 .. k \subseteq 0 .. m /\ 0 .. k # 0 .. m
      BY <1>6, <2>1
    <2>4. <<0 .. k, A>> \in StrictSubsetOrdering(S)
      BY <1>5, <2>2, <2>3 DEF StrictSubsetOrdering
    <2>5. QED
      BY <1>4, <2>2, <2>4
  <1>7. \A k \in T : m <= k
    BY <1>1, <1>5, <1>6
  <1>8. QED
    BY <1>5, <1>7

LEMMA Floors ==
  ASSUME NEW F \in Nat \ {0}, NEW a \in Int
  PROVE  a \div F \in Int /\ F * (a \div F) <= a /\ a < F * (a \div F) + F
  BY Z3

(* What is not above what, halfway through a flip.                         *)
LEMMA FloorsMeet ==
  ASSUME NEW F \in Nat \ {0}, NEW k \in 0 .. F, NEW a \in Int, NEW b \in Int, NEW c \in Int, NEW d \in Int,
         a <= b, c <= d
  PROVE  a + ((c - a) * k) \div F <= b + ((d - b) * k) \div F
  <1> DEFINE p == (c - a) * k
             q == (d - b) * k
             x == p \div F
             y == q \div F
  <1>1. p \in Int /\ q \in Int
    OBVIOUS
  <1>2. /\ x \in Int /\ y \in Int
        /\ F * x <= p /\ q < F * y + F
    <2> HIDE DEF p, q
    <2>1. QED
      BY <1>1, Floors
  <1>3. F * a + p <= F * b + q
    <2>1. F * a + p = (F - k) * a + k * c /\ F * b + q = (F - k) * b + k * d
      BY Z3
    <2>2. (F - k) * a <= (F - k) * b /\ k * c <= k * d
      BY Z3
    <2>3. QED
      BY <1>1, <2>1, <2>2, Z3
  <1> HIDE DEF x, y, p, q
  <1>4. F * (a + x) < F * (b + y + 1)
    <2>1. F * (a + x) = F * a + F * x /\ F * (b + y + 1) = F * b + F * y + F
      BY <1>2, Z3
    <2>2. QED
      BY <1>1, <1>2, <1>3, <2>1, Z3
  <1>5. a + x < b + y + 1
    BY <1>2, <1>4, Z3
  <1>6. QED
    BY <1>2, <1>5 DEF x, y, p, q

(* The side lo..hi of a frame, into which the V of a view are drawn at the *)
(* scale N / D; m is twice the margin.                                     *)
LEMMA Side ==
  ASSUME NEW D \in Int, NEW N \in Int, NEW V \in Int, NEW lo \in Int, NEW hi \in Int, NEW m \in Int,
         m = (hi - lo) * D - V * N, m >= 0, D > 0, N >= 0
  PROVE  /\ (2 * D * lo + m + 2 * N * 0) - 2 * D * lo = 2 * D * hi - (2 * D * lo + m + 2 * N * V)
         /\ \A p \in Int : 0 <= p => 2 * D * lo <= 2 * D * lo + m + 2 * N * p
         /\ \A p \in Int : p <= V => 2 * D * lo + m + 2 * N * p <= 2 * D * hi
  <1>1. (hi - lo) * D = D * hi - D * lo /\ D * hi \in Int /\ D * lo \in Int /\ N * V \in Int
    BY Z3
  <1>2. ASSUME NEW x \in Int, NEW y \in Int PROVE 2 * x * y = 2 * (x * y)
    BY Z3
  <1>3. 2 * D * hi = 2 * (D * hi) /\ 2 * D * lo = 2 * (D * lo) /\ 2 * N * V = 2 * (N * V)
    BY <1>2
  <1>4. (2 * D * lo + m + 2 * N * 0) - 2 * D * lo = 2 * D * hi - (2 * D * lo + m + 2 * N * V)
    BY <1>1, <1>3, Z3
  <1>5. ASSUME NEW p \in Int, 0 <= p PROVE 2 * D * lo <= 2 * D * lo + m + 2 * N * p
    <2>1. N * p >= 0 /\ N * p \in Int /\ 2 * N * p = 2 * (N * p)
      BY <1>5, Z3
    <2>2. QED
      BY <1>1, <1>3, <2>1, Z3
  <1>6. ASSUME NEW p \in Int, p <= V PROVE 2 * D * lo + m + 2 * N * p <= 2 * D * hi
    <2>1. N * p <= N * V /\ N * p \in Int /\ 2 * N * p = 2 * (N * p)
      BY <1>6, Z3
    <2>2. QED
      BY <1>1, <1>3, <2>1, Z3
  <1>7. QED
    BY <1>4, <1>5, <1>6

-----------------------------------------------------------------------------
(* Recursion from elements to their parents                                *)

LEMMA TreeInduction ==
  ASSUME NEW n \in Nat, NEW par \in [1 .. n -> Nat], \A a \in 1 .. n : par[a] < a,
         NEW P, \A a \in 1 .. n : par[a] = 0 \/ par[a] \in P => a \in P
  PROVE  \A a \in 1 .. n : a \in P
  <1> DEFINE T == (1 .. n) \ P
  <1>1. ASSUME T # {} PROVE FALSE
    <2>1. PICK m \in T : \A k \in T : m <= k
      <3>1. T \subseteq Nat
        OBVIOUS
      <3> HIDE DEF T
      <3>2. QED
        BY <1>1, <3>1, LeastNumber
    <2>2. m \in 1 .. n /\ par[m] \in Nat /\ par[m] < m
      OBVIOUS
    <2>3. par[m] # 0 => par[m] \in P
      <3>1. par[m] # 0 => par[m] \in 1 .. n /\ ~(m <= par[m])
        BY <2>2
      <3>2. QED
        BY <2>1, <3>1
    <2>4. QED
      BY <2>2, <2>3
  <1>2. QED
    BY <1>1

(* Such a function exists, as parents come first.                          *)
Rooted(n, par) == n \in Nat /\ par \in [1 .. n -> Nat] /\ \A a \in 1 .. n : par[a] < a
Steps(n, S, base, step) == base \in [1 .. n -> S] /\ step \in [1 .. n -> [S -> S]]
Recursion(f, n, S, par, base, step) ==
  /\ f \in [1 .. n -> S]
  /\ \A a \in 1 .. n : f[a] = IF par[a] = 0 THEN base[a] ELSE step[a][f[par[a]]]

LEMMA FromParents ==
  ASSUME NEW n, NEW par, NEW S, NEW base, NEW step, Rooted(n, par), Steps(n, S, base, step)
  PROVE  \E f : Recursion(f, n, S, par, base, step)
  <1> USE DEF Rooted, Steps, Recursion
  <1> DEFINE Fits(f, m) == /\ f \in [1 .. m -> S]
                           /\ \A a \in 1 .. m : f[a] = IF par[a] = 0 THEN base[a] ELSE step[a][f[par[a]]]
             T == {m \in 0 .. n : \A f : ~Fits(f, m)}
  <1>1. ASSUME T # {} PROVE FALSE
    <2>1. PICK m \in T : \A k \in T : m <= k
      <3>1. T \subseteq Nat
        OBVIOUS
      <3> HIDE DEF T
      <3>2. QED
        BY <1>1, <3>1, LeastNumber
    <2>2. CASE m = 0
      <3>1. Fits([a \in 1 .. m |-> 0], m)
        BY <2>2
      <3>2. QED
        BY <2>1, <3>1
    <2>3. CASE m > 0
      <3>1. m \in 1 .. n
        BY <2>1, <2>3
      <3>2. m - 1 \in 0 .. n /\ m - 1 \notin T
        <4>1. m - 1 \in 0 .. n /\ ~(m <= m - 1)
          BY <3>1
        <4> HIDE DEF T
        <4>2. QED
          BY <2>1, <4>1
      <3>3. PICK f : Fits(f, m - 1)
        BY <3>2
      <3> DEFINE x == IF par[m] = 0 THEN base[m] ELSE step[m][f[par[m]]]
                 g == [a \in 1 .. m |-> IF a = m THEN x ELSE f[a]]
      <3>4. par[m] # 0 => par[m] \in 1 .. m - 1
        <4>1. par[m] \in Nat /\ par[m] < m
          BY <3>1
        <4>2. QED
          BY <3>1, <4>1
      <3>5. x \in S
        <4>1. base[m] \in S /\ step[m] \in [S -> S]
          BY <3>1
        <4>2. par[m] # 0 => f[par[m]] \in S
          BY <3>3, <3>4
        <4>3. QED
          BY <4>1, <4>2
      <3>6. g \in [1 .. m -> S] /\ g[m] = x /\ \A a \in 1 .. m - 1 : g[a] = f[a]
        <4> HIDE DEF x
        <4>1. QED
          BY <3>1, <3>3, <3>5
      <3>7. ASSUME NEW a \in 1 .. m PROVE g[a] = IF par[a] = 0 THEN base[a] ELSE step[a][g[par[a]]]
        <4>1. CASE a = m
          <5>1. par[m] # 0 => g[par[m]] = f[par[m]]
            BY <3>4, <3>6
          <5> HIDE DEF g
          <5>2. QED
            BY <3>6, <4>1, <5>1
        <4>2. CASE a # m
          <5>1. a \in 1 .. m - 1 /\ (par[a] # 0 => par[a] \in 1 .. m - 1)
            <6>1. a \in 1 .. n /\ a \in 1 .. m - 1
              BY <3>1, <4>2
            <6>2. par[a] \in Nat /\ par[a] < a
              BY <6>1
            <6>3. QED
              BY <6>1, <6>2
          <5>2. f[a] = IF par[a] = 0 THEN base[a] ELSE step[a][f[par[a]]]
            BY <3>3, <5>1
          <5> HIDE DEF g
          <5>3. QED
            BY <3>6, <5>1, <5>2
        <4>3. QED
          BY <4>1, <4>2
      <3>8. Fits(g, m)
        <4> HIDE DEF g
        <4>1. QED
          BY <3>6, <3>7
      <3>9. QED
        BY <2>1, <3>8
    <2>4. QED
      BY <2>1, <2>2, <2>3
  <1>2. n \in 0 .. n
    OBVIOUS
  <1>3. PICK f : Fits(f, n)
    BY <1>1, <1>2
  <1>4. QED
    BY <1>3

(* The parents of the elements, as a function.                             *)
Par == [a \in Elems |-> elems[a].parent]

LEMMA ParentsFirst ==
  ASSUME TreeInv
  PROVE  /\ Len(elems) \in Nat /\ Elems = 1 .. Len(elems)
         /\ Par \in [1 .. Len(elems) -> Nat] /\ \A a \in 1 .. Len(elems) : Par[a] < a
         /\ \A a \in Elems : Par[a] = elems[a].parent
  <1>1. Len(elems) \in Nat /\ Elems = 1 .. Len(elems)
    BY Indices
  <1>2. ASSUME NEW a \in Elems PROVE elems[a].parent \in Nat /\ elems[a].parent < a
    <2>1. a \in Nat
      BY <1>1
    <2>2. elems[a].parent \in 0 .. a - 1
      BY DEF TreeInv
    <2>3. QED
      BY <2>1, <2>2
  <1>3. QED
    BY <1>1, <1>2 DEF Par

LEMMA ElemsInduction ==
  ASSUME TreeInv, NEW P, \A a \in Elems : elems[a].parent = 0 \/ elems[a].parent \in P => a \in P
  PROVE  \A a \in Elems : a \in P
  <1>1. PICK par : par = Par
    OBVIOUS
  <1>2. PICK n : n = Len(elems)
    OBVIOUS
  <1>3. /\ n \in Nat /\ par \in [1 .. n -> Nat] /\ \A a \in 1 .. n : par[a] < a
        /\ \A a \in 1 .. n : par[a] = 0 \/ par[a] \in P => a \in P
    BY <1>1, <1>2, ParentsFirst
  <1>4. \A a \in 1 .. n : a \in P
    BY <1>3, TreeInduction
  <1>5. QED
    BY <1>2, <1>4, ParentsFirst

ElemsRecurse(f, S, base, step) ==
  /\ f \in [Elems -> S]
  /\ \A a \in Elems : f[a] = IF elems[a].parent = 0 THEN base[a] ELSE step[a][f[elems[a].parent]]

LEMMA ElemsRecursion ==
  ASSUME TreeInv, NEW S, NEW base \in [Elems -> S], NEW step \in [Elems -> [S -> S]]
  PROVE  \E f : ElemsRecurse(f, S, base, step)
  <1>1. PICK par : par = Par
    OBVIOUS
  <1>2. PICK n : n = Len(elems)
    OBVIOUS
  <1>3. Rooted(n, par) /\ Steps(n, S, base, step)
    BY <1>1, <1>2, ParentsFirst DEF Rooted, Steps
  <1>4. PICK f : Recursion(f, n, S, par, base, step)
    BY <1>3, FromParents
  <1>5. Elems = 1 .. n /\ \A a \in 1 .. n : par[a] = elems[a].parent
    BY <1>1, <1>2, ParentsFirst
  <1>6. \A a \in Elems : f[a] = IF elems[a].parent = 0 THEN base[a] ELSE step[a][f[elems[a].parent]]
    BY <1>4, <1>5 DEF Recursion
  <1>7. f \in [Elems -> S]
    BY <1>4, <1>5 DEF Recursion
  <1>8. QED
    BY <1>6, <1>7 DEF ElemsRecurse

-----------------------------------------------------------------------------
(* Drawing                                                                 *)

LEMMA LeftTyped ==
  ASSUME TreeInv, NEW e \in Elems, NEW d \in 1..2
  PROVE  Left(e, d) \in Int
  <1> DEFINE left[a \in Elems] == elems[a].pos[d] + (IF elems[a].parent = 0 THEN 0 ELSE left[elems[a].parent])
  <1>1. \A a \in Elems : elems[a].pos[d] \in Int
    BY DEF TreeInv, Shape
  <1>2. PICK f : f = [a \in Elems |-> elems[a].pos[d] + (IF elems[a].parent = 0 THEN 0 ELSE f[elems[a].parent])]
    <2>1. PICK base, step : /\ base = [a \in Elems |-> elems[a].pos[d]]
                            /\ step = [a \in Elems |-> [x \in Int |-> elems[a].pos[d] + x]]
      OBVIOUS
    <2>2. base \in [Elems -> Int] /\ step \in [Elems -> [Int -> Int]]
      BY <1>1, <2>1
    <2>3. PICK f : ElemsRecurse(f, Int, base, step)
      BY <2>2, ElemsRecursion
    <2>4. ASSUME NEW a \in Elems
          PROVE  f[a] = elems[a].pos[d] + (IF elems[a].parent = 0 THEN 0 ELSE f[elems[a].parent])
      <3>1. elems[a].parent # 0 => f[elems[a].parent] \in Int
        BY <2>3, Parents DEF ElemsRecurse
      <3>2. f[a] = IF elems[a].parent = 0 THEN base[a] ELSE step[a][f[elems[a].parent]]
        BY <2>3 DEF ElemsRecurse
      <3>3. base[a] = elems[a].pos[d] + 0
        BY <1>1, <2>1
      <3>4. elems[a].parent # 0 => step[a][f[elems[a].parent]] = elems[a].pos[d] + f[elems[a].parent]
        BY <2>1, <3>1
      <3>5. QED
        BY <3>2, <3>3, <3>4
    <2>5. f = [a \in Elems |-> elems[a].pos[d] + (IF elems[a].parent = 0 THEN 0 ELSE f[elems[a].parent])]
      BY <2>3, <2>4 DEF ElemsRecurse
    <2>6. QED
      BY <2>5
  <1>3. left = [a \in Elems |-> elems[a].pos[d] + (IF elems[a].parent = 0 THEN 0 ELSE left[elems[a].parent])]
    BY <1>2
  <1>4. \A a \in Elems : left[a] = elems[a].pos[d] + (IF elems[a].parent = 0 THEN 0 ELSE left[elems[a].parent])
    <2> HIDE DEF left
    <2>1. QED
      BY <1>3
  <1>5. Left(e, d) = left[e]
    BY DEF Left
  <1> HIDE DEF left
  <1>6. PICK P : P = {a \in Elems : left[a] \in Int}
    OBVIOUS
  <1>7. \A a \in Elems : elems[a].parent = 0 \/ elems[a].parent \in P => a \in P
    BY <1>1, <1>4, <1>6
  <1>8. \A a \in Elems : a \in P
    BY <1>7, ElemsInduction
  <1>9. QED
    BY <1>5, <1>6, <1>8

LEMMA FlipsUpright ==
  ASSUME \A f \in Frames : Upright(f), NEW f \in Anywhere
  PROVE  Upright(f)
  <1>1. PICK g \in Frames, h \in Frames, k \in 0 .. FlipSteps : f = Between(g, h, k)
    BY DEF Anywhere
  <1>2. Upright(g) /\ Upright(h) /\ FlipSteps \in Nat \ {0}
    BY BoundsAssumption
  <1>3. ASSUME NEW d \in 1..2 PROVE f.lo[d] \in Int /\ f.hi[d] \in Int /\ f.lo[d] <= f.hi[d]
    <2> DEFINE lo == ((h.lo[d] - g.lo[d]) * k) \div FlipSteps
               hi == ((h.hi[d] - g.hi[d]) * k) \div FlipSteps
    <2>1. /\ g.lo[d] \in Int /\ g.hi[d] \in Int /\ h.lo[d] \in Int /\ h.hi[d] \in Int
          /\ g.lo[d] <= g.hi[d] /\ h.lo[d] <= h.hi[d]
      BY <1>2 DEF Upright
    <2>2. f.lo[d] = g.lo[d] + lo /\ f.hi[d] = g.hi[d] + hi
      BY <1>1 DEF Between
    <2>3. (h.lo[d] - g.lo[d]) * k \in Int /\ (h.hi[d] - g.hi[d]) * k \in Int
      BY <1>2, <2>1
    <2>4. lo \in Int /\ hi \in Int
      BY <1>2, <2>3, Floors
    <2>5. g.lo[d] + lo <= g.hi[d] + hi
      BY <1>2, <2>1, FloorsMeet
    <2> HIDE DEF lo, hi
    <2>6. QED
      BY <2>1, <2>2, <2>4, <2>5
  <1>4. QED
    BY <1>3 DEF Upright

(* The scale is the one that fits on both sides.                           *)
LEMMA Scaled ==
  ASSUME ViewInv, NEW f, Upright(f)
  PROVE  /\ Den(f) \in Int /\ Den(f) > 0 /\ Num(f) \in Int /\ Num(f) >= 0
         /\ Limiting(f) \in 1..2
         /\ \A d \in 1..2 : /\ Extent(f, d) \in Int /\ Margin(f, d) \in Int /\ Margin(f, d) >= 0
                            /\ Margin(f, d) = Extent(f, d) * Den(f) - view[d] * Num(f)
  <1>1. \A d \in 1..2 : Extent(f, d) \in Int /\ Extent(f, d) >= 0 /\ view[d] \in Int /\ view[d] > 0
    <2>1. SUFFICES ASSUME NEW d \in 1..2 PROVE Extent(f, d) \in Int /\ Extent(f, d) >= 0
      BY DEF ViewInv
    <2>2. f.lo[d] \in Int /\ f.hi[d] \in Int /\ f.lo[d] <= f.hi[d]
      BY DEF Upright
    <2>3. QED
      BY <2>2 DEF Extent
  <1>2. Limiting(f) \in 1..2
    BY DEF Limiting
  <1>3. Den(f) \in Int /\ Den(f) > 0 /\ Num(f) \in Int /\ Num(f) >= 0
    BY <1>1, <1>2 DEF Den, Num
  <1>4. PICK a, b, v, w : a = Extent(f, 1) /\ b = Extent(f, 2) /\ v = view[1] /\ w = view[2]
    OBVIOUS
  <1>5. a \in Int /\ b \in Int /\ v \in Int /\ w \in Int
    BY <1>1, <1>4
  <1>6. ASSUME NEW d \in 1..2
        PROVE  /\ Margin(f, d) \in Int /\ Margin(f, d) >= 0
               /\ Margin(f, d) = Extent(f, d) * Den(f) - view[d] * Num(f)
    <2>1. CASE d = Limiting(f)
      <3>1. Extent(f, d) = Num(f) /\ view[d] = Den(f) /\ Margin(f, d) = 0
        BY <2>1 DEF Num, Den, Margin
      <3>2. Num(f) * Den(f) - Den(f) * Num(f) = 0
        BY <1>3, Z3
      <3>3. QED
        BY <3>1, <3>2
    <2>2. CASE d # Limiting(f)
      <3>1. Margin(f, d) = Extent(f, d) * Den(f) - view[d] * Num(f)
        BY <2>2 DEF Margin
      <3>2. CASE a * w < b * v
        <4>1. Limiting(f) = 1 /\ d = 2 /\ Num(f) = a /\ Den(f) = v
          BY <1>4, <2>2, <3>2 DEF Limiting, Num, Den
        <4>2. b * v - w * a >= 0 /\ b * v - w * a \in Int
          BY <1>5, <3>2, Z3
        <4>3. QED
          BY <1>4, <3>1, <4>1, <4>2
      <3>3. CASE ~(a * w < b * v)
        <4>1. Limiting(f) = 2 /\ d = 1 /\ Num(f) = b /\ Den(f) = w
          BY <1>4, <2>2, <3>3 DEF Limiting, Num, Den
        <4>2. a * w - v * b >= 0 /\ a * w - v * b \in Int
          BY <1>5, <3>3, Z3
        <4>3. QED
          BY <1>4, <3>1, <4>1, <4>2
      <3>4. QED
        BY <3>2, <3>3
    <2>3. QED
      BY <2>1, <2>2
  <1>7. QED
    BY <1>1, <1>2, <1>3, <1>6

LEMMA InFrame ==
  ASSUME ViewInv, NEW f, Upright(f)
  PROVE  /\ 2 * Den(f) > 0
         /\ \E d \in 1..2 : OnScreen(f, d, view[d]) - OnScreen(f, d, 0) = 2 * Den(f) * Extent(f, d)
         /\ \A d \in 1..2 :
              /\ OnScreen(f, d, 0) - 2 * Den(f) * f.lo[d] = 2 * Den(f) * f.hi[d] - OnScreen(f, d, view[d])
              /\ \A p \in Int : 0 <= p => 2 * Den(f) * f.lo[d] <= OnScreen(f, d, p)
              /\ \A p \in Int : p <= view[d] => OnScreen(f, d, p) <= 2 * Den(f) * f.hi[d]
  <1>1. PICK D, N : D = Den(f) /\ N = Num(f)
    OBVIOUS
  <1>2. D \in Int /\ D > 0 /\ N \in Int /\ N >= 0
    BY <1>1, Scaled
  <1>3. ASSUME NEW d \in 1..2
        PROVE  /\ OnScreen(f, d, 0) - 2 * Den(f) * f.lo[d] = 2 * Den(f) * f.hi[d] - OnScreen(f, d, view[d])
               /\ \A p \in Int : 0 <= p => 2 * Den(f) * f.lo[d] <= OnScreen(f, d, p)
               /\ \A p \in Int : p <= view[d] => OnScreen(f, d, p) <= 2 * Den(f) * f.hi[d]
    <2>1. PICK lo, hi, V, m : lo = f.lo[d] /\ hi = f.hi[d] /\ V = view[d] /\ m = Margin(f, d)
      OBVIOUS
    <2>2. lo \in Int /\ hi \in Int /\ V \in Int
      BY <2>1 DEF Upright, ViewInv
    <2>3. m \in Int /\ m >= 0 /\ m = Extent(f, d) * Den(f) - view[d] * Num(f)
      BY <2>1, Scaled
    <2>4. m = (hi - lo) * D - V * N
      BY <1>1, <2>1, <2>3 DEF Extent
    <2>5. /\ (2 * D * lo + m + 2 * N * 0) - 2 * D * lo = 2 * D * hi - (2 * D * lo + m + 2 * N * V)
          /\ \A p \in Int : 0 <= p => 2 * D * lo <= 2 * D * lo + m + 2 * N * p
          /\ \A p \in Int : p <= V => 2 * D * lo + m + 2 * N * p <= 2 * D * hi
      BY <1>2, <2>2, <2>3, <2>4, Side
    <2>6. \A p : OnScreen(f, d, p) = 2 * D * lo + m + 2 * N * p
      BY <1>1, <2>1 DEF OnScreen
    <2>7. QED
      BY <1>1, <2>1, <2>5, <2>6
  <1>4. \E d \in 1..2 : OnScreen(f, d, view[d]) - OnScreen(f, d, 0) = 2 * Den(f) * Extent(f, d)
    <2>1. PICK d \in 1..2 : d = Limiting(f)
      BY Scaled
    <2>2. PICK lo : lo = f.lo[d]
      OBVIOUS
    <2>3. lo \in Int
      BY <2>2 DEF Upright
    <2>4. Extent(f, d) = N /\ view[d] = D /\ Margin(f, d) = 0
      BY <1>1, <2>1 DEF Num, Den, Margin
    <2>5. /\ OnScreen(f, d, view[d]) = 2 * D * lo + 0 + 2 * N * D
          /\ OnScreen(f, d, 0) = 2 * D * lo + 0 + 2 * N * 0
      BY <1>1, <2>2, <2>4 DEF OnScreen
    <2>6. (2 * D * lo + 0 + 2 * N * D) - (2 * D * lo + 0 + 2 * N * 0) = 2 * D * N
      <3>1. D * lo \in Int /\ 2 * D * lo = 2 * (D * lo) /\ 2 * N * D = 2 * D * N /\ N * D \in Int /\ 2 * N * D = 2 * (N * D)
        BY <1>2, <2>3, Z3
      <3>2. QED
        BY <1>2, <3>1, Z3
    <2>7. QED
      BY <1>1, <2>4, <2>5, <2>6
  <1>5. 2 * Den(f) > 0
    BY <1>1, <1>2
  <1>6. QED
    BY <1>3, <1>4, <1>5

LEMMA ViewInit == "badView" \notin Env /\ Init => ViewInv
  BY PlacesAssumption DEF Init, ViewInv

LEMMA ViewNext == "badView" \notin Env /\ ViewInv /\ [Next]_vars => ViewInv'
  <1> SUFFICES ASSUME "badView" \notin Env, ViewInv, [Next]_vars PROVE ViewInv'
    OBVIOUS
  <1>1. CASE \E size \in ViewSizes : SetView(size)
    BY <1>1, PlacesAssumption DEF SetView, ViewInv
  <1>2. CASE ~ \E size \in ViewSizes : SetView(size)
    <2>1. view' = view
      BY <1>2 DEF Next, vars, SetAttribute, ScriptSets, SetProperty, StartElement, StartOther, StartFails,
                  EndElement, CharacterData, SkippedEntity, InsertElement
    <2>2. QED
      BY <2>1 DEF ViewInv
  <1>3. QED
    BY <1>1, <1>2

LEMMA BarNext ==
  ASSUME "barMin" \notin Env
  PROVE  DocInv /\ BarInv /\ [Next]_vars => BarInv'
  <1> SUFFICES ASSUME DocInv, BarInv, [Next]_vars PROVE BarInv'
    OBVIOUS
  <1>1. CASE \E i \in Inputs : SetAttribute(i[1], i[2]) \/ (\E e \in Elems : ScriptSets(e, i[1], i[2]))
    <2>1. PICK i \in Inputs : SetAttribute(i[1], i[2]) \/ (\E e \in Elems : ScriptSets(e, i[1], i[2]))
      BY <1>1
    <2>2. PICK e \in Elems : SetProperty(e, i[1], i[2])
      BY <2>1, SomeSet
    <2>3. /\ MayAsk(e, i[1], i[2]) /\ Sets(elems[e], elems'[e], i[1], i[2]) /\ Elems' = Elems
          /\ \A c \in Elems \ {e} : elems'[c] = elems[c]
      BY <2>2, PropertySet DEF DocInv
    <2>4. i[1] = "min" => i[2].n = 0
      BY <2>3 DEF MayAsk
    <2>5. elems'[e].min = 0
      BY <2>3, <2>4 DEF Sets, BarInv
    <2>6. QED
      BY <2>3, <2>5 DEF BarInv
  <1>2. CASE \E k \in Kinds : StartElement(k)
    <2>1. PICK k \in Kinds : StartElement(k)
      BY <1>2
    <2>2. /\ Elems' = Elems \cup {Len(elems')}
          /\ elems'[Len(elems')] = Made(k, Last(open))
          /\ \A e \in Elems : elems'[e] = elems[e]
      BY <2>1, ElementStarted
    <2>3. QED
      BY <2>2 DEF BarInv, Made
  <1>3. CASE \E s \in Texts : CharacterData(s)
    BY <1>3, TextCame DEF BarInv
  <1>4. CASE \E name \in DOMAIN Strings \cup {"none"} : SkippedEntity(name)
    BY <1>4, TextCame DEF SkippedEntity, BarInv
  <1>5. CASE \/ StartOther \/ StartFails \/ EndElement
             \/ \E e \in {0} \cup Elems : InsertElement(e)
             \/ \E size \in ViewSizes : SetView(size)
             \/ UNCHANGED vars
    <2>1. elems' = elems
      BY <1>5 DEF StartOther, StartFails, EndElement, InsertElement, SetView, vars
    <2>2. QED
      BY <2>1 DEF BarInv, Elems
  <1>6. QED
    BY <1>1, <1>2, <1>3, <1>4, <1>5 DEF Next

LEMMA BoxFilled == DocInv /\ BarInv => WithinBox
  <1> SUFFICES ASSUME DocInv, BarInv, NEW e \in Elems, InRange(e), Drawn(e)
               PROVE  /\ \A part \in Parts(e) : 0 <= part[1] /\ part[1] <= part[2] /\ part[2] <= Whole(e)
                      /\ elems[e].full # 0 /\ elems[e].value = elems[e].min => \E part \in Parts(e) : part[1] = part[2]
    BY DEF WithinBox
  <1>1. /\ elems[e].kind = "progressbar" /\ elems[e].min = 0
        /\ elems[e].max \in Int /\ elems[e].max > 0
        /\ elems[e].value \in 0 .. elems[e].max
    BY ZenonT(60) DEF InRange, BarInv, DocInv, TreeInv, Shape
  <1>2. Bar(e) = elems[e].max /\ Whole(e) = elems[e].max
    BY <1>1 DEF Whole, Bar
  <1>3. Parts(e) = (IF elems[e].image # 0 THEN {<<0, elems[e].max>>} ELSE {})
                     \cup (IF elems[e].full # 0 THEN {<<0, elems[e].value>>} ELSE {})
    BY <1>1, <1>2 DEF Parts
  <1>4. ASSUME NEW part \in Parts(e)
        PROVE  0 <= part[1] /\ part[1] <= part[2] /\ part[2] <= Whole(e)
    <2>1. part = <<0, elems[e].max>> \/ part = <<0, elems[e].value>>
      BY <1>3
    <2>2. QED
      BY <1>1, <1>2, <2>1
  <1>5. ASSUME elems[e].full # 0, elems[e].value = elems[e].min
        PROVE  \E part \in Parts(e) : part[1] = part[2]
    <2>1. <<0, elems[e].value>> \in Parts(e)
      BY <1>3, <1>5
    <2>2. QED
      BY <1>1, <1>5, <2>1
  <1>6. QED
    BY <1>4, <1>5

(* xgg_xadget_apply_trans and xtk_pixbuf_draw, for all frames and sizes:   *)
(* a view that has a size is scaled to the largest that fits, centred, in  *)
(* every frame and at each of the steps of a flip, so that nothing that    *)
(* lies in the view is drawn out of the frame; xgg_pbar_render, for all    *)
(* values in the range of a bar that starts at 0.                          *)
THEOREM FitsFrameAlways ==
  ASSUME Env \cap {"badView", "barMin"} = {}, \A f \in Frames : Upright(f)
  PROVE  Spec => []FitsFrame
  <1>1. Init => ViewInv /\ BarInv
    BY ViewInit DEF Init, BarInv, Elems
  <1>2. DocInv /\ ViewInv /\ BarInv /\ [Next]_vars => (DocInv /\ ViewInv /\ BarInv)'
    BY DocNext, ViewNext, BarNext
  <1>3. DocInv /\ ViewInv /\ BarInv => FitsFrame
    <2> SUFFICES ASSUME DocInv, ViewInv, BarInv PROVE FitsFrame
      OBVIOUS
    <2> DEFINE boxes == [d \in 1..2 |-> {<<Left(e, d), Left(e, d) + elems[e].size[d]>> : e \in {c \in Elems : Drawn(c)}}]
               inView(d) == {b \in boxes[d] : 0 <= b[1] /\ b[2] <= view[d]}
    <2>1. ASSUME NEW d \in 1..2, NEW b \in inView(d)
          PROVE  b[1] \in Int /\ b[2] \in Int /\ 0 <= b[1] /\ b[2] <= view[d]
      <3>1. PICK e \in Elems : b = <<Left(e, d), Left(e, d) + elems[e].size[d]>>
        OBVIOUS
      <3>2. Left(e, d) \in Int
        BY LeftTyped DEF DocInv
      <3>3. elems[e].size[d] \in Int
        BY ZenonT(60) DEF DocInv, TreeInv, Shape
      <3>4. QED
        BY <3>1, <3>2, <3>3
    <2>2. ASSUME NEW f \in Anywhere
          PROVE  LET unit == 2 * Den(f)
                 IN  /\ unit > 0
                     /\ \E d \in 1..2 : OnScreen(f, d, view[d]) - OnScreen(f, d, 0) = unit * Extent(f, d)
                     /\ \A d \in 1..2 : OnScreen(f, d, 0) - unit * f.lo[d] = unit * f.hi[d] - OnScreen(f, d, view[d])
                     /\ \A d \in 1..2 : \A b \in inView(d) :
                          unit * f.lo[d] <= OnScreen(f, d, b[1]) /\ OnScreen(f, d, b[2]) <= unit * f.hi[d]
      <3> HIDE DEF inView
      <3>1. Upright(f)
        BY FlipsUpright
      <3>2. QED
        BY <2>1, <3>1, InFrame
    <2>3. QED
      BY <2>2, BoxFilled DEF FitsFrame
  <1>4. QED
    BY DocInit, <1>1, <1>2, <1>3, PTL DEF Spec

-----------------------------------------------------------------------------
(* Opacities                                                               *)

(* Line, of the module, as an equation.                                    *)
IsLine(f) == \A e \in Elems : f[e] = {e} \cup (IF elems[e].parent = 0 THEN {} ELSE f[elems[e].parent])

LEMMA LineIs == TreeInv => IsLine(Line) /\ \A e \in Elems : e \in Line[e] /\ Line[e] \subseteq Elems
  <1> SUFFICES ASSUME TreeInv PROVE IsLine(Line) /\ \A e \in Elems : e \in Line[e] /\ Line[e] \subseteq Elems
    OBVIOUS
  <1>1. PICK f : f = [e \in Elems |-> {e} \cup (IF elems[e].parent = 0 THEN {} ELSE f[elems[e].parent])]
    <2>1. PICK base, step : /\ base = [a \in Elems |-> {a}]
                            /\ step = [a \in Elems |-> [x \in SUBSET Elems |-> {a} \cup x]]
      OBVIOUS
    <2>2. base \in [Elems -> SUBSET Elems] /\ step \in [Elems -> [SUBSET Elems -> SUBSET Elems]]
      BY <2>1
    <2>3. PICK f : ElemsRecurse(f, SUBSET Elems, base, step)
      BY <2>2, ElemsRecursion
    <2>4. ASSUME NEW a \in Elems
          PROVE  f[a] = {a} \cup (IF elems[a].parent = 0 THEN {} ELSE f[elems[a].parent])
      <3>1. elems[a].parent # 0 => f[elems[a].parent] \in SUBSET Elems
        BY <2>3, Parents DEF ElemsRecurse
      <3>2. f[a] = IF elems[a].parent = 0 THEN base[a] ELSE step[a][f[elems[a].parent]]
        BY <2>3 DEF ElemsRecurse
      <3>3. QED
        BY <2>1, <3>1, <3>2
    <2>5. f = [a \in Elems |-> {a} \cup (IF elems[a].parent = 0 THEN {} ELSE f[elems[a].parent])]
      BY <2>3, <2>4 DEF ElemsRecurse
    <2>6. QED
      BY <2>5
  <1>2. Line = [e \in Elems |-> {e} \cup (IF elems[e].parent = 0 THEN {} ELSE Line[elems[e].parent])]
    BY <1>1 DEF Line
  <1>3. IsLine(Line)
    BY <1>2 DEF IsLine
  <1>4. PICK P : P = {a \in Elems : Line[a] \subseteq Elems}
    OBVIOUS
  <1>5. \A a \in Elems : elems[a].parent = 0 \/ elems[a].parent \in P => a \in P
    BY <1>3, <1>4 DEF IsLine
  <1>6. \A a \in Elems : a \in P
    BY <1>5, ElemsInduction
  <1>7. QED
    BY <1>3, <1>4, <1>6 DEF IsLine

(* What an element is in was there before it.                              *)
LEMMA LineBefore ==
  ASSUME TreeInv, NEW e \in Elems, elems[e].parent # 0
  PROVE  e \notin Line[elems[e].parent]
  <1>1. PICK P : P = {c \in Elems : \A x \in Line[c] : x <= c}
    OBVIOUS
  <1>2. ASSUME NEW c \in Elems, elems[c].parent = 0 \/ elems[c].parent \in P PROVE c \in P
    <2>1. Line[c] = {c} \cup (IF elems[c].parent = 0 THEN {} ELSE Line[elems[c].parent])
      BY LineIs DEF IsLine
    <2>2. c \in Int /\ Line[c] \subseteq Int
      BY LineIs, Indices
    <2>3. elems[c].parent # 0 => elems[c].parent \in Int /\ elems[c].parent < c
      BY Parents, Indices
    <2>4. ASSUME NEW x \in Line[c] PROVE x <= c
      <3>1. CASE x = c
        BY <2>2, <3>1
      <3>2. CASE elems[c].parent # 0 /\ x \in Line[elems[c].parent]
        <4>1. x <= elems[c].parent
          BY <1>1, <1>2, <3>2
        <4>2. QED
          BY <2>2, <2>3, <3>2, <4>1
      <3>3. QED
        BY <2>1, <3>1, <3>2
    <2>5. QED
      BY <1>1, <2>4
  <1>3. \A c \in Elems : c \in P
    BY <1>2, ElemsInduction
  <1>4. elems[e].parent \in P /\ elems[e].parent \in Int /\ e \in Int /\ elems[e].parent < e
    BY <1>3, Parents, Indices
  <1>5. QED
    BY <1>1, <1>4

(* Everything above an element is a <div>.                                 *)
LEMMA LineDivs ==
  ASSUME TreeInv, NEW e \in Elems, NEW a \in Line[e], a # e
  PROVE  elems[a].kind = "div"
  <1>1. PICK P : P = {c \in Elems : \A x \in Line[c] : x # c => elems[x].kind = "div"}
    OBVIOUS
  <1>2. ASSUME NEW c \in Elems, elems[c].parent = 0 \/ elems[c].parent \in P PROVE c \in P
    <2>1. Line[c] = {c} \cup (IF elems[c].parent = 0 THEN {} ELSE Line[elems[c].parent])
      BY LineIs DEF IsLine
    <2>2. elems[c].parent # 0 => elems[elems[c].parent].kind = "div"
      BY Parents
    <2>3. QED
      BY <1>1, <1>2, <2>1, <2>2
  <1>3. \A c \in Elems : c \in P
    BY <1>2, ElemsInduction
  <1>4. QED
    BY <1>1, <1>3

(* New elements, and changes other than of parents, leave the lines alone. *)
LEMMA LinesStay ==
  ASSUME TreeInv, TreeInv', Elems \subseteq Elems', \A e \in Elems : elems'[e].parent = elems[e].parent
  PROVE  \A e \in Elems : Line'[e] = Line[e]
  <1>1. PICK f : f = Line'
    OBVIOUS
  <1>2. PICK P : P = {e \in Elems : f[e] = Line[e]}
    OBVIOUS
  <1>3. IsLine(Line) /\ \A e \in Elems : elems[e].parent # 0 => elems[e].parent \in Elems
    BY LineIs, Parents
  <1>4. \A e \in Elems : f[e] = {e} \cup (IF elems[e].parent = 0 THEN {} ELSE f[elems[e].parent])
    <2>1. TreeInv'
      OBVIOUS
    <2>2. (IsLine(Line) /\ \A e \in Elems : e \in Line[e] /\ Line[e] \subseteq Elems)'
      BY <2>1, LineIs, PTL
    <2>3. QED
      BY <1>1, <2>2 DEF IsLine
  <1>5. \A e \in Elems : elems[e].parent = 0 \/ elems[e].parent \in P => e \in P
    BY <1>2, <1>3, <1>4 DEF IsLine
  <1>6. \A e \in Elems : e \in P
    BY <1>5, ElemsInduction
  <1>7. QED
    BY <1>1, <1>2, <1>6

LEMMA Bytes ==
  ASSUME NEW p \in 0..255, NEW o \in 0..255
  PROVE  /\ Blend(p, o) \in 0..255 /\ Blend(p, o) <= p /\ Blend(p, o) <= o
         /\ p = 255 => Blend(p, o) = o
  <1>1. p * o \in Int /\ 0 <= p * o /\ p * o <= 255 * p /\ p * o <= 255 * o
    BY Z3
  <1>2. PICK q : q = p * o
    OBVIOUS
  <1>3. q \div 255 \in Int /\ 0 <= q \div 255 /\ q \div 255 <= p /\ q \div 255 <= o
    BY <1>1, <1>2, Z3
  <1>4. p = 255 => q \div 255 = o
    BY <1>1, <1>2, Z3
  <1>5. QED
    BY <1>2, <1>3, <1>4 DEF Blend

(* What g leaves of an opacity under these elements.                       *)
Fades(g, line) ==
  /\ g \in [0..255 -> 0..255]
  /\ \A o \in 0..255 : /\ g[o] <= o
                       /\ \A a \in line : g[o] <= elems[a].opacity
                       /\ (\A a \in line : elems[a].opacity = 255) => g[o] = o

(* One level of the recursion in Fade.                                     *)
Level(f, a) ==
  [o \in 0..255 |-> IF elems[a].parent = 0 THEN Blend(elems[a].opacity, o)
                    ELSE f[elems[a].parent][Blend(elems[a].opacity, o)]]

(* The opacities that g leaves of what p leaves.                           *)
Under(g, p) == [o \in 0..255 |-> g[Blend(p, o)]]

LEMMA UnderTyped ==
  ASSUME NEW p \in 0..255, NEW g \in [0..255 -> 0..255]
  PROVE  Under(g, p) \in [0..255 -> 0..255]
  <1>1. \A o \in 0..255 : Blend(p, o) \in 0..255
    BY Bytes
  <1>2. \A o \in 0..255 : g[Blend(p, o)] \in 0..255
    BY <1>1
  <1>3. QED
    BY <1>2 DEF Under

LEMMA Faded ==
  ASSUME TreeInv, NEW e \in Elems
  PROVE  /\ Fade(e) \in 0..255
         /\ \A a \in Line[e] \ {e} : Fade(e) <= elems[a].opacity
         /\ (\A a \in Line[e] \ {e} : elems[a].opacity = 255) => Fade(e) = 255
  <1> DEFINE Bs == [0..255 -> 0..255]
             through[a \in Elems] ==
               [o \in 0..255 |->
                  IF elems[a].parent = 0 THEN Blend(elems[a].opacity, o)
                  ELSE through[elems[a].parent][Blend(elems[a].opacity, o)]]
  <1>1. \A a \in Elems : elems[a].opacity \in 0..255
    BY DEF TreeInv, Shape
  <1>2. \A a \in Elems, o \in 0..255 : Blend(elems[a].opacity, o) \in 0..255
    BY <1>1, Bytes
  <1>3. PICK f : f = [a \in Elems |-> Level(f, a)]
    <2>1. PICK base, step : /\ base = [a \in Elems |-> [o \in 0..255 |-> Blend(elems[a].opacity, o)]]
                            /\ step = [a \in Elems |-> [g \in Bs |-> Under(g, elems[a].opacity)]]
      OBVIOUS
    <2>2. base \in [Elems -> Bs]
      BY <1>2, <2>1, ZenonT(60)
    <2>3. step \in [Elems -> [Bs -> Bs]]
      <3>1. ASSUME NEW a \in Elems, NEW g \in Bs PROVE Under(g, elems[a].opacity) \in Bs
        BY <1>1, UnderTyped, ZenonT(60)
      <3> HIDE DEF Bs
      <3>2. QED
        BY <2>1, <3>1
    <2>4. PICK f : ElemsRecurse(f, Bs, base, step)
      BY <2>2, <2>3, ElemsRecursion, ZenonT(60)
    <2>5. ASSUME NEW a \in Elems PROVE f[a] = Level(f, a)
      <3>1. elems[a].parent # 0 => f[elems[a].parent] \in Bs
        BY <2>4, Parents DEF ElemsRecurse
      <3>2. f[a] = IF elems[a].parent = 0 THEN base[a] ELSE step[a][f[elems[a].parent]]
        BY <2>4 DEF ElemsRecurse
      <3>3. CASE elems[a].parent = 0
        BY <2>1, <3>2, <3>3, ZenonT(60) DEF Level
      <3>4. CASE elems[a].parent # 0
        <4>1. f[a] = step[a][f[elems[a].parent]]
          BY <3>2, <3>4
        <4>2. step[a] = [g \in Bs |-> Under(g, elems[a].opacity)]
          BY <2>1
        <4>3. PICK h \in Bs : h = f[elems[a].parent]
          BY <3>1, <3>4
        <4>4. f[a] = Under(h, elems[a].opacity)
          <5> HIDE DEF Bs
          <5>1. QED
            BY <4>1, <4>2, <4>3
        <4>5. QED
          BY <3>4, <4>3, <4>4, ZenonT(60) DEF Level, Under
      <3>5. QED
        BY <3>3, <3>4
    <2>6. f = [a \in Elems |-> Level(f, a)]
      BY <2>4, <2>5 DEF ElemsRecurse
    <2>7. QED
      BY <2>6
  <1>4. through = [a \in Elems |-> Level(through, a)]
    <2> DEFINE Q(g) == g = [a \in Elems |-> Level(g, a)]
    <2>1. through = CHOOSE g : Q(g)
      BY DEF Level
    <2>2. Q(f)
      BY <1>3
    <2> HIDE DEF Q, through
    <2>3. Q(CHOOSE g : Q(g))
      BY <2>2, Zenon
    <2>4. QED
      BY <2>1, <2>3 DEF Q
  <1>5. \A a \in Elems : through[a] = Level(through, a)
    <2> HIDE DEF through
    <2>1. QED
      BY <1>4
  <1>6. Fade(e) = IF elems[e].parent = 0 THEN 255 ELSE through[elems[e].parent][255]
    BY DEF Fade
  <1> HIDE DEF through
  <1>7. PICK P : P = {a \in Elems : Fades(through[a], Line[a])}
    OBVIOUS
  <1>8. ASSUME NEW a \in Elems, elems[a].parent = 0 \/ elems[a].parent \in P PROVE a \in P
    <2>1. PICK g, p, h : g = through[a] /\ p = elems[a].opacity /\ h = through[elems[a].parent]
      OBVIOUS
    <2>2. p \in 0..255 /\ Line[a] = {a} \cup (IF elems[a].parent = 0 THEN {} ELSE Line[elems[a].parent])
      BY <1>1, <2>1, LineIs DEF IsLine
    <2>3. \A o \in 0..255 : /\ Blend(p, o) \in 0..255 /\ Blend(p, o) <= p /\ Blend(p, o) <= o
                            /\ p = 255 => Blend(p, o) = o
      <3>1. ASSUME NEW o \in 0..255
            PROVE  Blend(p, o) \in 0..255 /\ Blend(p, o) <= p /\ Blend(p, o) <= o
        BY <2>2, Bytes, ZenonT(60)
      <3>2. ASSUME NEW o \in 0..255, p = 255 PROVE Blend(p, o) = o
        BY <2>2, <3>2, Bytes, ZenonT(60)
      <3>3. QED
        BY <3>1, <3>2
    <2>4. CASE elems[a].parent = 0
      <3>1. g = [o \in 0..255 |-> Blend(p, o)]
        <4>1. g = Level(through, a)
          BY <1>5, <2>1
        <4>2. QED
          BY <2>1, <2>4, <4>1, ZenonT(60) DEF Level
      <3>2. Line[a] = {a} /\ p = elems[a].opacity
        BY <2>1, <2>2, <2>4
      <3>3. g \in [0..255 -> 0..255]
        BY <2>3, <3>1
      <3>4. ASSUME NEW o \in 0..255 PROVE g[o] <= o /\ g[o] <= p /\ (p = 255 => g[o] = o)
        <4>1. g[o] = Blend(p, o)
          BY <3>1
        <4>2. Blend(p, o) <= p /\ Blend(p, o) <= o /\ (p = 255 => Blend(p, o) = o)
          BY <2>3
        <4>3. QED
          BY <4>1, <4>2
      <3>5. Fades(g, Line[a])
        BY <3>2, <3>3, <3>4, ZenonT(60) DEF Fades
      <3>6. QED
        BY <1>7, <2>1, <3>5
    <2>5. CASE elems[a].parent \in P /\ elems[a].parent # 0
      <3>1. g = [o \in 0..255 |-> h[Blend(p, o)]]
        <4>1. g = Level(through, a)
          BY <1>5, <2>1
        <4>2. Level(through, a) = [o \in 0..255 |-> through[elems[a].parent][Blend(elems[a].opacity, o)]]
          BY <2>5, Zenon DEF Level
        <4>3. QED
          BY <2>1, <4>1, <4>2, Zenon
      <3>2. PICK L : L = Line[elems[a].parent]
        OBVIOUS
      <3>3. Line[a] = {a} \cup L /\ Fades(h, L)
        BY <1>7, <2>1, <2>2, <2>5, <3>2
      <3>4. g \in [0..255 -> 0..255]
        BY <2>3, <3>1, <3>3, ZenonT(60) DEF Fades
      <3>5. ASSUME NEW o \in 0..255
            PROVE  /\ g[o] <= o
                   /\ \A c \in Line[a] : g[o] <= elems[c].opacity
                   /\ (\A c \in Line[a] : elems[c].opacity = 255) => g[o] = o
        <4>1. PICK q : q = Blend(p, o)
          OBVIOUS
        <4>2. q \in 0..255 /\ q <= p /\ q <= o /\ (p = 255 => q = o) /\ g[o] = h[q]
          BY <2>3, <3>1, <4>1
        <4>3. h[q] \in 0..255 /\ h[q] <= q
          BY <3>3, <4>2, ZenonT(60) DEF Fades
        <4>4. \A c \in L : h[q] <= elems[c].opacity
          BY <3>3, <4>2 DEF Fades
        <4>5. (\A c \in L : elems[c].opacity = 255) => h[q] = q
          BY <3>3, <4>2 DEF Fades
        <4>6. p = elems[a].opacity
          BY <2>1
        <4>7. g[o] <= o /\ g[o] <= p
          <5>1. PICK x : x = h[q]
            OBVIOUS
          <5>2. x \in 0..255 /\ x <= q /\ g[o] = x
            BY <4>2, <4>3, <5>1
          <5>3. QED
            BY <2>2, <4>2, <5>2
        <4>8. QED
          BY <3>3, <4>2, <4>4, <4>5, <4>6, <4>7
      <3>6. QED
        BY <1>7, <2>1, <3>4, <3>5 DEF Fades
    <2>6. QED
      BY <1>8, <2>4, <2>5
  <1>9. \A a \in Elems : a \in P
    BY <1>8, ElemsInduction
  <1>10. Line[e] = {e} \cup (IF elems[e].parent = 0 THEN {} ELSE Line[elems[e].parent])
    BY LineIs DEF IsLine
  <1>11. CASE elems[e].parent = 0
    BY <1>6, <1>10, <1>11
  <1>12. CASE elems[e].parent # 0
    <2>1. elems[e].parent \in Elems /\ Fades(through[elems[e].parent], Line[elems[e].parent])
      BY <1>7, <1>9, <1>12, Parents
    <2>2. e \notin Line[elems[e].parent]
      BY <2>1, <1>12, LineBefore
    <2>3. PICK g, L : g = through[elems[e].parent] /\ L = Line[elems[e].parent]
      OBVIOUS
    <2>4. Line[e] \ {e} = L /\ Fade(e) = g[255]
      BY <1>6, <1>10, <1>12, <2>2, <2>3
    <2>5. Fades(g, L)
      BY <2>1, <2>3
    <2>6. PICK o \in 0..255 : o = 255
      OBVIOUS
    <2>7. g[o] \in 0..255
      BY <2>5 DEF Fades
    <2>8. \A a \in L : g[o] <= elems[a].opacity
      BY <2>5 DEF Fades
    <2>9. (\A a \in L : elems[a].opacity = 255) => g[o] = o
      BY <2>5 DEF Fades
    <2>10. QED
      BY <2>4, <2>6, <2>7, <2>8, <2>9
  <1>13. QED
    BY <1>11, <1>12

LEMMA OpacityStays ==
  ASSUME NEW el, NEW r, NEW a, NEW b, OpacityOf(el, a),
         r.kind = el.kind, r.opacity = el.opacity, r.visible = el.visible,
         \A m \in {"opacity", "visible"} : (m \in DOMAIN b <=> m \in DOMAIN a) /\ (m \in DOMAIN a => b[m] = a[m])
  PROVE  OpacityOf(r, b)
  BY DEF OpacityOf

LEMMA OwnOpacity ==
  ASSUME Env \cap {"overOpaque", "hide"} = {},
         TreeInv, NEW i \in Inputs, NEW e \in Elems, OpacityOf(elems[e], asked[e]),
         Has(elems[e].kind, i[1]), MayAsk(e, i[1], i[2]), NEW r, Sets(elems[e], r, i[1], i[2])
  PROVE  OpacityOf(r, With(asked[e], i[1], i[2]))
  <1>1. PICK name, v, el, a : name = i[1] /\ v = i[2] /\ el = elems[e] /\ a = asked[e]
    OBVIOUS
  <1>2. PICK b : b = With(a, name, v)
    OBVIOUS
  <1>3. Sets(el, r, name, v) /\ OpacityOf(el, a)
    BY <1>1
  <1>4. \A m : m # name => (m \in DOMAIN b <=> m \in DOMAIN a)
    BY <1>2 DEF With
  <1>5. \A m : m # name /\ m \in DOMAIN a => b[m] = a[m]
    BY <1>2 DEF With
  <1>6. name \in DOMAIN b /\ b[name] = v
    BY <1>2 DEF With
  <1>7. CASE name = "opacity"
    <2>1. v.n \in 0..255 /\ ~v.percent
      BY <1>1, <1>7 DEF MayAsk
    <2>2. r.opacity = v.n
      <3>1. v.n % 256 = v.n
        BY <2>1
      <3>2. r.opacity = v.n % 256
        BY <1>3, <1>7, <2>1 DEF Sets
      <3>3. QED
        BY <3>1, <3>2
    <2>3. r.visible = el.visible /\ r.kind = el.kind
      BY <1>3, <1>7 DEF Sets
    <2>4. "visible" \in DOMAIN b => "visible" \in DOMAIN a /\ b["visible"] = a["visible"]
      BY <1>4, <1>5, <1>7
    <2>5. QED
      BY <1>1, <1>2, <1>3, <1>6, <1>7, <2>2, <2>3, <2>4 DEF OpacityOf
  <1>8. CASE name = "visible"
    <2>1. v \/ el.kind \in {"img", "button"}
      BY <1>1, <1>8 DEF MayAsk
    <2>2. r.visible = v /\ r.opacity = el.opacity /\ r.kind = el.kind
      BY <1>3, <1>8 DEF Sets
    <2>3. /\ "opacity" \in DOMAIN b <=> "opacity" \in DOMAIN a
          /\ "opacity" \in DOMAIN a => b["opacity"] = a["opacity"]
      BY <1>4, <1>5, <1>8
    <2>4. r.opacity = IF "opacity" \in DOMAIN b THEN b["opacity"].n ELSE 255
      BY <1>3, <2>2, <2>3 DEF OpacityOf
    <2>5. r.visible = b["visible"] /\ (r.visible \/ r.kind \in {"img", "button"})
      BY <1>6, <1>8, <2>1, <2>2
    <2>6. OpacityOf(r, b)
      BY <2>4, <2>5 DEF OpacityOf
    <2>7. QED
      BY <1>1, <1>2, <2>6
  <1>9. CASE name \notin {"opacity", "visible"}
    <2>1. r.visible = el.visible /\ r.opacity = el.opacity /\ r.kind = el.kind
      BY <1>3, <1>9 DEF Sets
    <2>2. \A m \in {"opacity", "visible"} : (m \in DOMAIN b <=> m \in DOMAIN a) /\ (m \in DOMAIN a => b[m] = a[m])
      BY <1>4, <1>5, <1>9
    <2>3. OpacityOf(r, b)
      BY <1>3, <2>1, <2>2, OpacityStays
    <2>4. QED
      BY <1>1, <1>2, <2>3
  <1>10. QED
    BY <1>7, <1>8, <1>9

LEMMA FadeSet ==
  ASSUME Env \cap {"overOpaque", "fadeText", "hide"} = {},
         DocInv, FadeInv, NEW i \in Inputs, NEW e \in Elems, SetProperty(e, i[1], i[2])
  PROVE  FadeInv'
  <1>1. /\ Has(elems[e].kind, i[1]) /\ MayAsk(e, i[1], i[2])
        /\ Sets(elems[e], elems'[e], i[1], i[2]) /\ Elems' = Elems /\ TreeInv'
        /\ Len(elems') = Len(elems)
        /\ \A c \in Elems \ {e} : elems'[c] = elems[c]
        /\ \A c \in Elems : elems'[c].kind = elems[c].kind /\ elems'[c].parent = elems[c].parent
    BY PropertySet DEF DocInv
  <1>2. PICK a : /\ asked' = [asked EXCEPT ![e] = a]
                 /\ a = IF i[1] \in {"width", "height"} /\ ~Numeric(i[2])
                          THEN asked[e] ELSE With(asked[e], i[1], i[2])
    BY PropertySet DEF DocInv
  <1>3. asked'[e] = a /\ \A c \in Elems \ {e} : asked'[c] = asked[c]
    BY <1>2, AskedReplaced DEF DocInv
  <1>4. OpacityOf(elems'[e], a)
    <2>1. OpacityOf(elems[e], asked[e])
      BY DEF FadeInv
    <2>2. CASE i[1] \in {"width", "height"} /\ ~Numeric(i[2])
      <3>1. /\ elems'[e].kind = elems[e].kind /\ elems'[e].opacity = elems[e].opacity
            /\ elems'[e].visible = elems[e].visible
        BY <1>1, <2>2 DEF Sets
      <3>2. QED
        BY <1>2, <2>1, <2>2, <3>1, OpacityStays
    <2>3. CASE ~(i[1] \in {"width", "height"} /\ ~Numeric(i[2]))
      <3>1. a = With(asked[e], i[1], i[2])
        BY <1>2, <2>3
      <3>2. PICK r : r = elems'[e]
        OBVIOUS
      <3>3. OpacityOf(r, With(asked[e], i[1], i[2]))
        BY <1>1, <2>1, <3>2, OwnOpacity DEF DocInv
      <3>4. QED
        BY <3>1, <3>2, <3>3
    <2>4. QED
      BY <2>2, <2>3
  <1>5. \A c \in Elems : Line'[c] = Line[c]
    BY <1>1, LinesStay DEF DocInv
  <1>6. ASSUME NEW l \in Elems, elems[l].kind = "label", NEW c \in Line[l]
        PROVE  "opacity" \notin DOMAIN asked'[c]
    <2>1. c \in Elems /\ "opacity" \notin DOMAIN asked[c]
      BY <1>6, LineIs DEF FadeInv, Asked, DocInv
    <2>2. CASE c = e
      <3>1. i[1] # "opacity"
        BY <1>1, <1>6, <2>2 DEF MayAsk, MayFade
      <3>2. "opacity" \notin DOMAIN With(asked[e], i[1], i[2])
        BY <2>1, <2>2, <3>1 DEF With
      <3>3. QED
        BY <1>2, <1>3, <2>1, <2>2, <3>2
    <2>3. CASE c # e
      BY <1>3, <2>1, <2>3
    <2>4. QED
      BY <2>2, <2>3
  <1>7. inputs' \in 0..MaxInputs
    BY BoundsAssumption DEF SetProperty, FadeInv
  <1>8. \A c \in Elems' : OpacityOf(elems'[c], asked'[c])
    BY <1>1, <1>3, <1>4 DEF FadeInv
  <1>9. \A l \in Elems' : elems'[l].kind = "label" => \A c \in Line'[l] : ~("opacity" \in DOMAIN asked'[c])
    BY <1>1, <1>5, <1>6
  <1>10. QED
    BY <1>1, <1>7, <1>8, <1>9 DEF FadeInv, Asked

LEMMA FadeStarted ==
  ASSUME "fadeText" \notin Env, DocInv, FadeInv, NEW k \in Kinds, StartElement(k)
  PROVE  FadeInv'
  <1>1. /\ Elems' = Elems \cup {Len(elems')} /\ Len(elems') = Len(elems) + 1 /\ TreeInv'
        /\ elems'[Len(elems')] = Made(k, Last(open)) /\ asked'[Len(elems')] = <<>>
        /\ \A e \in Elems : elems'[e] = elems[e] /\ asked'[e] = asked[e]
    BY ElementStarted DEF DocInv
  <1>2. \A e \in Elems : Line'[e] = Line[e] /\ Line[e] \subseteq Elems
    BY <1>1, LinesStay, LineIs DEF DocInv
  <1>3. PICK n : n = Len(elems')
    OBVIOUS
  <1>4. OpacityOf(elems'[n], asked'[n])
    <2>1. OpacityOf(Made(k, Last(open)), <<>>)
      BY DEF OpacityOf, Made
    <2>2. QED
      BY <1>1, <1>3, <2>1
  <1>5. Line'[n] = {n} \cup (IF Last(open) = 0 THEN {} ELSE Line'[Last(open)])
    <2>1. TreeInv'
      BY <1>1
    <2>2. (IsLine(Line) /\ \A e \in Elems : e \in Line[e] /\ Line[e] \subseteq Elems)'
      BY <2>1, LineIs, PTL
    <2>3. Line'[n] = {n} \cup (IF elems'[n].parent = 0 THEN {} ELSE Line'[elems'[n].parent])
      BY <1>1, <1>3, <2>2 DEF IsLine
    <2>4. elems'[n].parent = Last(open)
      BY <1>1, <1>3 DEF Made
    <2>5. QED
      BY <2>3, <2>4
  <1>6. Last(open) # 0 => Last(open) \in Elems
    BY LastOpen DEF StartElement, MayStart
  <1>7. ASSUME k = "label", NEW c \in Line'[n] PROVE "opacity" \notin DOMAIN asked'[c]
    <2>1. CASE c = n
      BY <1>1, <1>3, <2>1
    <2>2. CASE Last(open) # 0 /\ c \in Line[Last(open)]
      <3>1. Last(open) > 0 /\ c \in Elems
        BY <1>2, <1>6, <2>2, Indices DEF DocInv
      <3>2. ~Asked(c, "opacity")
        BY <1>7, <2>2, <3>1 DEF StartElement
      <3>3. QED
        BY <1>1, <3>1, <3>2 DEF Asked
    <2>3. QED
      BY <1>2, <1>5, <1>6, <1>7, <2>1, <2>2
  <1>8. ASSUME NEW l \in Elems, elems[l].kind = "label", NEW c \in Line[l]
        PROVE  "opacity" \notin DOMAIN asked'[c]
    <2>1. c \in Elems /\ "opacity" \notin DOMAIN asked[c]
      BY <1>2, <1>8 DEF FadeInv, Asked
    <2>2. QED
      BY <1>1, <2>1
  <1>9. elems'[n].kind = k
    BY <1>1, <1>3 DEF Made
  <1>10. \A l \in Elems' : elems'[l].kind = "label" => \A c \in Line'[l] : ~("opacity" \in DOMAIN asked'[c])
    BY <1>1, <1>2, <1>3, <1>7, <1>8, <1>9
  <1>11. \A e \in Elems' : OpacityOf(elems'[e], asked'[e])
    BY <1>1, <1>3, <1>4 DEF FadeInv
  <1>12. Len(elems') <= MaxElems /\ inputs' \in 0..MaxInputs
    BY <1>1, BoundsAssumption, Indices DEF FadeInv, StartElement, DocInv
  <1>13. QED
    BY <1>10, <1>11, <1>12 DEF FadeInv, Asked

LEMMA FadeText ==
  ASSUME DocInv, FadeInv, NEW s, CharacterData(s)
  PROVE  FadeInv'
  <1>1. /\ Elems' = Elems /\ TreeInv'
        /\ \A e \in Elems :
             /\ elems'[e].kind = elems[e].kind /\ elems'[e].parent = elems[e].parent
             /\ elems'[e].opacity = elems[e].opacity /\ elems'[e].visible = elems[e].visible
    BY TextCame DEF DocInv
  <1>2. \A e \in Elems : asked'[e] = asked[e] \/ \E t : asked'[e] = With(asked[e], "innerText", t)
    <2>1. \A e \in Elems :
            asked'[e] = IF InLabel /\ e = Last(open)
                          THEN With(asked[e], "innerText",
                                    IF Asked(e, "innerText") THEN asked[e]["innerText"] \o s ELSE s)
                          ELSE asked[e]
      BY TextCame
    <2>2. QED
      BY <2>1
  <1>3. \A e \in Elems : Line'[e] = Line[e] /\ Line[e] \subseteq Elems
    BY <1>1, LinesStay, LineIs DEF DocInv
  <1>4. ASSUME NEW e \in Elems, NEW m \in {"opacity", "visible"}
        PROVE  (m \in DOMAIN asked'[e] <=> m \in DOMAIN asked[e]) /\ (m \in DOMAIN asked[e] => asked'[e][m] = asked[e][m])
    <2>1. CASE asked'[e] = asked[e]
      BY <2>1
    <2>2. CASE \E t : asked'[e] = With(asked[e], "innerText", t)
      <3>1. PICK t : asked'[e] = With(asked[e], "innerText", t)
        BY <2>2
      <3>2. m \in DOMAIN With(asked[e], "innerText", t) <=> m \in DOMAIN asked[e]
        BY WithOther
      <3>3. m \in DOMAIN asked[e] => With(asked[e], "innerText", t)[m] = asked[e][m]
        BY WithOther
      <3>4. QED
        BY <3>1, <3>2, <3>3
    <2>3. QED
      BY <1>2, <2>1, <2>2
  <1>5. ASSUME NEW e \in Elems PROVE OpacityOf(elems'[e], asked'[e])
    <2>1. OpacityOf(elems[e], asked[e])
      BY DEF FadeInv
    <2>2. QED
      BY <1>1, <1>4, <2>1, OpacityStays
  <1>6. \A l \in Elems' : elems'[l].kind = "label" => \A c \in Line'[l] : ~("opacity" \in DOMAIN asked'[c])
    BY <1>1, <1>3, <1>4 DEF FadeInv, Asked
  <1>7. Len(elems') = Len(elems)
    BY <1>1, Indices DEF DocInv, TreeInv, Elems, IsSequence
  <1>8. inputs' \in 0..MaxInputs
    BY BoundsAssumption DEF CharacterData, FadeInv
  <1>9. QED
    BY <1>1, <1>5, <1>6, <1>7, <1>8 DEF FadeInv, Asked

LEMMA FadeNext ==
  ASSUME Env \cap {"overOpaque", "fadeText", "hide"} = {}
  PROVE  DocInv /\ FadeInv /\ [Next]_vars => FadeInv'
  <1> SUFFICES ASSUME DocInv, FadeInv, [Next]_vars PROVE FadeInv'
    OBVIOUS
  <1>1. CASE \E i \in Inputs : SetAttribute(i[1], i[2]) \/ (\E e \in Elems : ScriptSets(e, i[1], i[2]))
    BY <1>1, SomeSet, FadeSet
  <1>2. CASE \E k \in Kinds : StartElement(k)
    BY <1>2, FadeStarted
  <1>3. CASE \E s \in Texts : CharacterData(s)
    BY <1>3, FadeText
  <1>4. CASE \E name \in DOMAIN Strings \cup {"none"} : SkippedEntity(name)
    BY <1>4, FadeText DEF SkippedEntity
  <1>5. CASE \/ StartOther \/ StartFails \/ EndElement
             \/ \E e \in {0} \cup Elems : InsertElement(e)
             \/ \E size \in ViewSizes : SetView(size)
             \/ UNCHANGED vars
    <2>1. UNCHANGED <<elems, asked>>
      BY <1>5 DEF StartOther, StartFails, EndElement, InsertElement, SetView, vars
    <2>2. inputs' \in 0..MaxInputs
      BY <1>5, BoundsAssumption DEF StartOther, StartFails, EndElement, InsertElement, SetView, vars, FadeInv
    <2>3. Elems' = Elems /\ Line' = Line
      BY <2>1 DEF Elems, Line
    <2>4. QED
      BY <2>1, <2>2, <2>3 DEF FadeInv, Asked
  <1>6. QED
    BY <1>1, <1>2, <1>3, <1>4, <1>5 DEF Next

(* What is drawn of an element, in a state: its opacity.                   *)
LEMMA AlphaIs ==
  ASSUME DocInv, FadeInv, NEW e \in Elems
  PROVE  /\ \A a \in Line[e] : Asked(a, "opacity") => Alpha(e) <= asked[a]["opacity"].n
         /\ (\A a \in Line[e] : Asked(a, "opacity") => asked[a]["opacity"].n >= 255) => Alpha(e) = 255
  <1>1. e \in Line[e] /\ Line[e] \subseteq Elems
    BY LineIs DEF DocInv
  <1>2. \A a \in Line[e] : /\ elems[a].opacity \in 0..255
                           /\ elems[a].opacity = IF Asked(a, "opacity") THEN asked[a]["opacity"].n ELSE 255
    BY <1>1, ZenonT(60) DEF DocInv, TreeInv, Shape, FadeInv, OpacityOf, Asked
  <1>3. CASE elems[e].kind = "label"
    <2>1. Alpha(e) = 255
      BY <1>3 DEF Alpha
    <2>2. QED
      BY <1>3, <2>1 DEF FadeInv
  <1>4. CASE elems[e].kind # "label"
    <2>1. PICK p, o : p = elems[e].opacity /\ o = Fade(e)
      OBVIOUS
    <2>2. p \in 0..255 /\ o \in 0..255
      BY <1>1, <1>2, <2>1, Faded DEF DocInv
    <2>3. Alpha(e) = Blend(p, o)
      BY <1>4, <2>1 DEF Alpha
    <2>4. Alpha(e) \in 0..255 /\ Alpha(e) <= p /\ Alpha(e) <= o
      <3>1. Blend(p, o) \in 0..255
        BY <2>2, Bytes
      <3>2. Blend(p, o) <= p
        BY <2>2, Bytes
      <3>3. Blend(p, o) <= o
        BY <2>2, Bytes
      <3>4. QED
        BY <2>3, <3>1, <3>2, <3>3
    <2>5. p = 255 => Alpha(e) = o
      BY <2>2, <2>3, Bytes
    <2>6. ASSUME NEW a \in Line[e], Asked(a, "opacity") PROVE Alpha(e) <= asked[a]["opacity"].n
      <3>1. asked[a]["opacity"].n = elems[a].opacity /\ elems[a].opacity \in 0..255
        BY <1>2, <2>6
      <3>2. CASE a = e
        BY <2>1, <2>4, <3>1, <3>2
      <3>3. CASE a # e
        <4>1. o <= elems[a].opacity
          BY <2>1, <3>3, Faded DEF DocInv
        <4>2. PICK q, r : q = elems[a].opacity /\ r = Alpha(e)
          OBVIOUS
        <4>3. q \in 0..255 /\ r \in 0..255 /\ r <= o /\ o <= q
          BY <2>4, <3>1, <4>1, <4>2
        <4>4. r <= q
          BY <2>2, <4>3, Through, Zenon
        <4>5. QED
          BY <3>1, <4>2, <4>4
      <3>4. QED
        BY <3>2, <3>3
    <2>7. ASSUME \A a \in Line[e] : Asked(a, "opacity") => asked[a]["opacity"].n >= 255
          PROVE  Alpha(e) = 255
      <3>1. \A a \in Line[e] : elems[a].opacity = 255
        <4>1. ASSUME NEW a \in Line[e] PROVE elems[a].opacity = 255
          <5>1. PICK q \in 0..255 : q = elems[a].opacity
            BY <1>2
          <5>2. q = 255 \/ q >= 255
            BY <1>2, <2>7, <5>1
          <5>3. QED
            BY <5>1, <5>2
        <4>2. QED
          BY <4>1
      <3>2. \A a \in Line[e] \ {e} : elems[a].opacity = 255
        BY <3>1
      <3>3. Fade(e) = 255
        BY <3>2, Faded DEF DocInv
      <3>4. QED
        BY <1>1, <2>1, <2>5, <3>1, <3>3
    <2>8. QED
      BY <2>6, <2>7
  <1>5. QED
    BY <1>3, <1>4

(* What is invisible is not drawn, and nothing in it: only images and      *)
(* buttons may be, and nothing is in them.                                 *)
LEMMA OnlyVisible ==
  ASSUME DocInv, FadeInv, NEW e \in Elems, Drawn(e), NEW a \in Line[e], Asked(a, "visible")
  PROVE  asked[a]["visible"]
  <1>1. a \in Elems
    BY LineIs DEF DocInv
  <1>2. elems[a].visible = asked[a]["visible"] /\ (elems[a].visible \/ elems[a].kind \in {"img", "button"})
    BY <1>1 DEF FadeInv, OpacityOf, Asked
  <1>3. CASE a = e
    <2>1. elems[e].kind \in {"img", "button"} => elems[e].visible
      BY DEF Drawn, Parts
    <2>2. QED
      BY <1>2, <1>3, <2>1
  <1>4. CASE a # e
    <2>1. elems[a].kind = "div"
      BY <1>4, LineDivs DEF DocInv
    <2>2. QED
      BY <1>2, <2>1
  <1>5. QED
    BY <1>3, <1>4

LEMMA Typed == DocInv /\ FadeInv => TypeOK
  <1> SUFFICES ASSUME DocInv, FadeInv PROVE TypeOK
    OBVIOUS
  <1>1. \A e \in Elems : elems[e].kind \in Kinds /\ elems[e].parent \in 0 .. e - 1 /\ elems[e].opacity \in 0..255
    BY ZenonT(60) DEF DocInv, TreeInv, Shape
  <1>2. ToSet(open) \subseteq -1 .. Len(elems)
    <2>1. DOMAIN open = 1 .. Len(open)
      BY DEF DocInv, OpenInv, IsSequence
    <2>2. QED
      BY <2>1 DEF DocInv, OpenInv, ToSet
  <1>3. QED
    BY <1>1, <1>2 DEF TypeOK, DocInv, TreeInv, OpenInv, FadeInv

(* The renderers (xgg_img.c, xgg_button.c, xgg_progressbar.c, xgg_label.c) *)
(* and xgg_basicelement's opacities, for elements at any depth: opacities  *)
(* that are multiplied and divided as bytes, level by level, never leave   *)
(* an element more opaque than what it is in, nor an opaque one less.      *)
THEOREM FadesWithAncestorsAlways ==
  ASSUME Env \cap {"overOpaque", "fadeText", "hide"} = {}
  PROVE  Spec => []FadesWithAncestors
  <1>1. Init => FadeInv
    <2>1. Init => Elems = {} /\ Len(elems) = 0
      BY DEF Init, Elems
    <2>2. QED
      BY <2>1, BoundsAssumption DEF Init, FadeInv
  <1>2. DocInv /\ FadeInv /\ [Next]_vars => (DocInv /\ FadeInv)'
    BY DocNext, FadeNext
  <1>3. DocInv /\ FadeInv => FadesWithAncestors
    <2> SUFFICES ASSUME DocInv, FadeInv PROVE FadesWithAncestors
      OBVIOUS
    <2>1. ASSUME NEW e \in Elems, NEW a \in Line[e], Asked(a, "opacity")
          PROVE  Alpha(e) <= asked[a]["opacity"].n
      BY <2>1, AlphaIs
    <2>2. ASSUME NEW e \in Elems, \A a \in Line[e] : Asked(a, "opacity") => asked[a]["opacity"].n >= 255
          PROVE  Alpha(e) = 255
      BY <2>2, AlphaIs
    <2>3. ASSUME NEW e \in Elems, Drawn(e), NEW a \in Line[e], Asked(a, "visible")
          PROVE  asked[a]["visible"]
      BY <2>3, OnlyVisible
    <2>4. TypeOK
      BY Typed
    <2>5. QED
      BY <2>1, <2>2, <2>3, <2>4 DEF FadesWithAncestors
  <1>4. QED
    BY DocInit, <1>1, <1>2, <1>3, PTL DEF Spec
=============================================================================
