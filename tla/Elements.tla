------------------------------ MODULE Elements ------------------------------
(***************************************************************************)
(* What the elements of a gadget become on the screen: the handlers that   *)
(* make them from main.xml or a fragment (xgg.c), the setters of their     *)
(* properties (xgg_basicelement.c, xgg_img.c, xgg_button.c, xgg_label.c,   *)
(* xgg_progressbar.c, xgg_view.c), and the place, the opacity and the part *)
(* of its box with which each is drawn.  How elements are linked is in     *)
(* ElemTree; here an element has a parent, and 0 is the view.              *)
(*                                                                         *)
(* Coordinates are integers, and places on the screen are multiplied by    *)
(* what makes them integers, where the code has floating point numbers.    *)
(* Colours are bytes.  Rotation is left out, and so are the boundary boxes *)
(* that images, buttons and the focused element are drawn with.            *)
(***************************************************************************)
EXTENDS Integers, Sequences, SequencesExt

CONSTANTS
  MaxElems,    (* bound on the elements of a gadget                         *)
  MaxInputs,   (* bound on what is set, texts, and tags that make nothing    *)
  Inputs,      (* <<property, value>>: what documents and scripts set       *)
  ViewSizes,   (* widths and heights of the view                            *)
  Frames,      (* rectinsc of frames, [lo, hi], each <<horizontal, vertical>> *)
  FlipSteps,   (* how many steps a flip is divided into                     *)
  Texts,       (* pieces of text                                            *)
  Strings,     (* the string resources, from names of entities              *)
  Junk,        (* sizes that uninitialised memory may hold                  *)
  Env          (* what documents and scripts do, see EnvKinds               *)

(***************************************************************************)
(* "badSize": sizes that are no numbers.                                   *)
(* "ofView": percentages of the view.                                      *)
(* "resize": a new size for an element whose children have percentages.    *)
(* "otherImage": a second image, of another size.                          *)
(* "zeroSize": an image for an element with a side that was set to 0.      *)
(* "overOpaque": opacities that are no bytes.                              *)
(* "fadeText": opacities of labels, and of elements that labels are in.    *)
(* "hide": elements other than images and buttons are made invisible.      *)
(* "barMin": a least value of a progress bar other than 0.                 *)
(* "badView": a view without a size.                                       *)
(* "pieces": a label's text comes in several pieces.                       *)
(***************************************************************************)
EnvKinds == {"badSize", "ofView", "resize", "otherImage", "zeroSize", "overOpaque",
             "fadeText", "hide", "barMin", "badView", "pieces"}
Numbers == {"width", "height", "x", "y", "opacity", "max", "min", "value"}

ASSUME BoundsAssumption == MaxElems \in Nat /\ MaxInputs \in Nat /\ FlipSteps \in Nat \ {0}
ASSUME EnvAssumption == Env \subseteq EnvKinds
ASSUME InputsAssumption ==
  /\ Junk \subseteq Int /\ Junk # {}
  /\ \A i \in Inputs : i[1] \in Numbers => i[2].n \in Int /\ i[2].percent \in BOOLEAN
  /\ \A i \in Inputs : i[1] \in {"src", "fullImage"} => i[2] \in Nat
ASSUME PlacesAssumption ==
  /\ \A size \in ViewSizes, d \in 1..2 : size[d] \in Int
  /\ \A f \in Frames, d \in 1..2 : f.lo[d] \in Int /\ f.hi[d] \in Int

VARIABLES
  view,       (* XGGESPEC_VIEW: nwidth and nheight                          *)
  elems,      (* apelems, without the view                                  *)
  open,       (* the open tags: elements, 0 the view, -1 no element         *)
  current,    (* XGGPARSECTX.pobjcurrent                                    *)
  intag,      (* attributes of the newest element are being set             *)
  inputs,     (* how much of MaxInputs there has been                       *)
  asked,      (* history: what each element has been asked to be            *)
  behind,     (* history: the label that has ended, 0 when a tag has started *)
              (* since (but see StartFails)                                 *)
  covered     (* history: the labels that text came behind, after all that  *)
              (* was set                                                    *)
vars == <<view, elems, open, current, intag, inputs, asked, behind, covered>>

Elems == DOMAIN elems
Kinds == {"div", "img", "button", "progressbar", "label"}
Sides == <<"width", "height">>
Asked(e, name) == name \in DOMAIN asked[e]
With(a, name, v) == [m \in {name} \cup DOMAIN a |-> IF m = name THEN v ELSE a[m]]

(* An element and all that it is in.                                       *)
Line[e \in Elems] == {e} \cup (IF elems[e].parent = 0 THEN {} ELSE Line[elems[e].parent])

(* xgg_xadgelem_setdefaultvalues and the constructors.                     *)
Made(k, p) ==
  [kind |-> k, parent |-> p, pos |-> <<0, 0>>, size |-> <<0, 0>>, opacity |-> 255, visible |-> TRUE,
   image |-> 0, full |-> 0, max |-> 100, min |-> 0, value |-> 0,
   text |-> <<>>, align |-> "center", color |-> <<255, 0, 0, 0>>]

Init ==
  /\ view \in ViewSizes
  /\ \A d \in 1..2 : view[d] <= 0 => "badView" \in Env
  /\ elems = <<>> /\ asked = <<>>
  /\ open = <<0>>
  /\ current = 0
  /\ intag = FALSE
  /\ behind = 0 /\ covered = {}
  /\ inputs = 0

-----------------------------------------------------------------------------
(* Setters.  A numeric value is [n, percent]; one below 0 has a sign, which *)
(* JS_ValueToInt32 understands and xjse_whstr_to_val does not.             *)
Numeric(v) == v.n >= 0

(* JS_ValueToInt32 into a variable that holds one of before: a value with  *)
(* a percent sign is no number, and leaves it as it is.                    *)
ToInt32(v, before) == IF v.percent THEN before ELSE {v.n}

(* Mutant: a percentage is taken of the element's own size.                *)
SizesOfOwn(e, d, v) ==
  IF ~Numeric(v) THEN Junk \cup {elems[e].size[d]}
  ELSE IF ~v.percent THEN {v.n}
  ELSE {(elems[e].size[d] * v.n) \div 100}

(***************************************************************************)
(* xgg_be_propop_xn_set: a percentage is one of what the parent's size is  *)
(* now; the view is no element, so its children's percentages fail.  When  *)
(* xjse_whstr_to_val fails, the number and the percent sign are what was   *)
(* in memory.                                                              *)
(***************************************************************************)
Sizes(e, d, v) ==
  LET p == elems[e].parent
  IN  IF ~Numeric(v) THEN Junk \cup {elems[e].size[d]}
      ELSE IF ~v.percent THEN {v.n}
      ELSE IF p = 0 THEN {elems[e].size[d]}
      ELSE {(elems[p].size[d] * v.n) \div 100}

(* src of an image, image of a button, emptyImage of a progress bar: a new *)
(* one gives its size to the sides that have none; 0: the load fails, and  *)
(* an image or button has none then.                                       *)
WithImage(el, n) ==
  IF n = 0 THEN [el EXCEPT !.image = IF el.kind = "progressbar" THEN @ ELSE 0]
  ELSE [el EXCEPT !.image = n, !.size = [d \in 1..2 |-> IF @[d] = 0 THEN n ELSE @[d]]]

(* xjse_argb_to_color: without an alpha the colour is opaque.              *)
ArgbToColor(c) == IF Len(c) = 4 THEN c ELSE <<255>> \o c

(* What the element may be after a setter.  The setters of the element go  *)
(* on with a variable of their own, those of a bar with the bar's.         *)
Results(e, name, v) ==
  LET el == elems[e]
  IN  CASE name = "width"     -> {[el EXCEPT !.size[1] = n] : n \in Sizes(e, 1, v)}
        [] name = "height"    -> {[el EXCEPT !.size[2] = n] : n \in Sizes(e, 2, v)}
        [] name = "x"         -> {[el EXCEPT !.pos[1] = n] : n \in ToInt32(v, Junk)}
        [] name = "y"         -> {[el EXCEPT !.pos[2] = n] : n \in ToInt32(v, Junk)}
        [] name = "opacity"   -> {[el EXCEPT !.opacity = n % 256] : n \in ToInt32(v, Junk)}
        [] name = "visible"   -> {[el EXCEPT !.visible = v]}
        [] name = "src"       -> {WithImage(el, v)}
        [] name = "fullImage" -> {[el EXCEPT !.full = IF v = 0 THEN @ ELSE v]}
        [] name = "max"       -> {[el EXCEPT !.max = n] : n \in ToInt32(v, {el.max})}
        [] name = "min"       -> {[el EXCEPT !.min = n] : n \in ToInt32(v, {el.min})}
        [] name = "value"     -> {[el EXCEPT !.value = n] : n \in ToInt32(v, {el.value})}
        [] name = "innerText" -> {[el EXCEPT !.text = v]}
        [] name = "align"     -> {[el EXCEPT !.align = v]}
        [] name = "color"     -> {[el EXCEPT !.color = ArgbToColor(v)]}

(* The properties that have a setter.                                      *)
Has(k, name) ==
  \/ name \in {"width", "height", "x", "y", "opacity", "visible"}
  \/ name = "src" /\ k \in {"img", "button", "progressbar"}
  \/ name \in {"fullImage", "max", "min", "value"} /\ k = "progressbar"
  \/ name \in {"innerText", "align", "color"} /\ k = "label"

(* What the documents and scripts of Env ask for.  Documents that break    *)
(* off are in ElemTree.                                                    *)
MaySize(e, d, v) ==
  LET p == elems[e].parent
  IN  /\ Numeric(v) \/ "badSize" \in Env
      /\ v.percent /\ p = 0 => "ofView" \in Env
      /\ (\E c \in Elems : elems[c].parent = e /\ Asked(c, Sides[d]) /\ asked[c][Sides[d]].percent)
           => "resize" \in Env
MayFade(inside) == (\E l \in inside : elems[l].kind = "label") => "fadeText" \in Env
MayAsk(e, name, v) ==
  /\ \A d \in 1..2 : name = Sides[d] => MaySize(e, d, v)
  /\ name = "opacity" => ((v.n \in 0..255 /\ ~v.percent) \/ "overOpaque" \in Env) /\ MayFade({c \in Elems : e \in Line[c]})
  /\ name = "visible" /\ ~v => elems[e].kind \in {"img", "button"} \/ "hide" \in Env
  /\ name = "min" /\ v.n # 0 => "barMin" \in Env
  /\ name = "src" /\ v # 0 /\ (\E d \in 1..2 : ~Asked(e, Sides[d]) /\ elems[e].size[d] \notin {0, v})
       => "otherImage" \in Env
  /\ name = "src" /\ v # 0 /\ (\E d \in 1..2 : Asked(e, Sides[d]) /\ elems[e].size[d] = 0) => "zeroSize" \in Env
  /\ name = "innerText" /\ intag => ~Asked(e, "innerText")

SetProperty(e, name, v) ==
  /\ inputs < MaxInputs /\ inputs' = inputs + 1
  /\ Has(elems[e].kind, name) /\ MayAsk(e, name, v)
  /\ \E el \in Results(e, name, v) : elems' = [elems EXCEPT ![e] = el]
  /\ asked' = [asked EXCEPT ![e] = IF name \in {"width", "height"} /\ ~Numeric(v) THEN @ ELSE With(@, name, v)]
  /\ covered' = IF name = "innerText" THEN covered \ {e} ELSE covered
  /\ UNCHANGED <<view, open, current, intag, behind>>

(* The attributes of a tag, each once, in any order; a failure is ignored. *)
SetAttribute(name, v) ==
  /\ intag /\ ~Asked(Len(elems), name)
  /\ SetProperty(Len(elems), name, v)

ScriptSets(e, name, v) == open = <<>> /\ SetProperty(e, name, v)

-----------------------------------------------------------------------------
(* Handlers                                                                *)

(* Documents have elements in the view and in <div> only.                *)
MayStart == open # <<>> /\ (Last(open) = 0 \/ (Last(open) > 0 /\ elems[Last(open)].kind = "div"))

StartElement(k) ==
  /\ MayStart /\ Len(elems) < MaxElems
  /\ k = "label" /\ Last(open) > 0 /\ (\E a \in Line[Last(open)] : Asked(a, "opacity")) => "fadeText" \in Env
  /\ elems' = Append(elems, Made(k, Last(open)))
  /\ asked' = Append(asked, <<>>)
  /\ open' = Append(open, Len(elems'))
  /\ current' = Len(elems')
  /\ intag' = TRUE /\ behind' = 0
  /\ UNCHANGED <<view, inputs, covered>>

(* Mutant: the current element is not reset.                               *)
StartOtherKeepsCurrent ==
  /\ MayStart
  /\ inputs < MaxInputs /\ inputs' = inputs + 1
  /\ open' = Append(open, -1)
  /\ intag' = FALSE /\ behind' = 0
  /\ UNCHANGED <<view, elems, current, asked, covered>>

(* A script that succeeds, or an element of an unknown kind.               *)
StartOther ==
  /\ MayStart
  /\ inputs < MaxInputs /\ inputs' = inputs + 1
  /\ open' = Append(open, -1)
  /\ current' = 0
  /\ intag' = FALSE /\ behind' = 0
  /\ UNCHANGED <<view, elems, asked, covered>>

(* A script that fails, or an element too many: what is current stays.     *)
StartFails ==
  /\ MayStart
  /\ inputs < MaxInputs /\ inputs' = inputs + 1
  /\ open' = Append(open, -1)
  /\ intag' = FALSE
  /\ UNCHANGED <<view, elems, current, asked, behind, covered>>

(* The label that a text in the document stands in.                        *)
InLabel == Last(open) > 0 /\ elems[Last(open)].kind = "label"

(* The context goes with the document.                                     *)
EndElement ==
  /\ open # <<>>
  /\ open' = Front(open)
  /\ intag' = FALSE
  /\ current' = IF Len(open) = 1 THEN 0 ELSE current
  /\ behind' = IF Len(open) = 1 THEN 0 ELSE IF InLabel THEN Last(open) ELSE behind
  /\ UNCHANGED <<view, elems, inputs, asked, covered>>

(* Every piece of text becomes the innerText of the current label.         *)
CharacterData(s) ==
  /\ open # <<>>
  /\ inputs < MaxInputs /\ inputs' = inputs + 1
  /\ InLabel /\ Asked(Last(open), "innerText") => "pieces" \in Env
  /\ elems' = IF current # 0 /\ elems[current].kind = "label" THEN [elems EXCEPT ![current].text = s] ELSE elems
  /\ asked' = IF ~InLabel THEN asked
              ELSE [asked EXCEPT ![Last(open)] =
                      With(@, "innerText", IF Asked(Last(open), "innerText") THEN @["innerText"] \o s ELSE s)]
  /\ covered' = IF behind = 0 THEN covered ELSE covered \cup {behind}
  /\ intag' = FALSE
  /\ UNCHANGED <<view, open, current, behind>>

(* An entity that is not declared is a string resource, or undefined.      *)
SkippedEntity(name) ==
  CharacterData(IF name \in DOMAIN Strings THEN Strings[name] ELSE <<"undefined">>)

(* insertElement(): the fragment's element goes into e.                    *)
InsertElement(e) ==
  /\ open = <<>> /\ Len(elems) < MaxElems
  /\ e # 0 => elems[e].kind = "div"
  /\ open' = <<e>>
  /\ current' = 0
  /\ behind' = 0
  /\ UNCHANGED <<view, elems, intag, inputs, asked, covered>>

(* The view's own setters.                                                 *)
SetView(size) ==
  /\ open = <<>>
  /\ inputs < MaxInputs /\ inputs' = inputs + 1
  /\ \A d \in 1..2 : size[d] <= 0 => "badView" \in Env
  /\ \A c \in Elems, d \in 1..2 :
       elems[c].parent = 0 /\ Asked(c, Sides[d]) /\ asked[c][Sides[d]].percent => "resize" \in Env
  /\ view' = size
  /\ UNCHANGED <<elems, open, current, intag, asked, behind, covered>>

Next ==
  \/ \E i \in Inputs : SetAttribute(i[1], i[2]) \/ (\E e \in Elems : ScriptSets(e, i[1], i[2]))
  \/ \E k \in Kinds : StartElement(k)
  \/ StartOther \/ StartFails \/ EndElement
  \/ \E s \in Texts : CharacterData(s)
  \/ \E name \in DOMAIN Strings \cup {"none"} : SkippedEntity(name)
  \/ \E e \in {0} \cup Elems : InsertElement(e)
  \/ \E size \in ViewSizes : SetView(size)

Spec == Init /\ [][Next]_vars

-----------------------------------------------------------------------------
(* Drawing                                                                 *)

(* xgg_xadget_apply_trans: the frame while a flip goes on.                 *)
Between(f, g, k) ==
  LET mid(a, b) == [d \in 1..2 |-> a[d] + ((b[d] - a[d]) * k) \div FlipSteps]
  IN  [lo |-> mid(f.lo, g.lo), hi |-> mid(f.hi, g.hi)]

(* Mutant: the other side fills the frame.                                 *)
LimitingOther(f) ==
  IF (f.hi[1] - f.lo[1]) * view[2] < (f.hi[2] - f.lo[2]) * view[1] THEN 2 ELSE 1

(* The side on which the view fills the frame, and the scale.              *)
Extent(f, d) == f.hi[d] - f.lo[d]
Limiting(f) == IF Extent(f, 1) * view[2] < Extent(f, 2) * view[1] THEN 1 ELSE 2
Num(f) == Extent(f, Limiting(f))
Den(f) == view[Limiting(f)]

(* Where the coordinate p of the view is on the screen, times 2 * Den(f):  *)
(* on the other side the view is centred.                                  *)
Margin(f, d) == IF d = Limiting(f) THEN 0 ELSE Extent(f, d) * Den(f) - view[d] * Num(f)
OnScreen(f, d, p) == 2 * Den(f) * f.lo[d] + Margin(f, d) + 2 * Num(f) * p

(* The offsets of all ancestors.                                           *)
Left(e, d) ==
  LET left[a \in Elems] == elems[a].pos[d] + (IF elems[a].parent = 0 THEN 0 ELSE left[elems[a].parent])
  IN  left[e]

(* Mutant: the parent's opacity only.                                      *)
FadeParent(e) == IF elems[e].parent = 0 THEN 255 ELSE elems[elems[e].parent].opacity

(* The opacity the ancestors leave, a byte at each level, and the own one; *)
(* xtk_string_draw is given neither.                                       *)
Blend(p, o) == (p * o) \div 255
Fade(e) ==
  LET through[a \in Elems] ==
        [o \in 0..255 |-> IF elems[a].parent = 0 THEN Blend(elems[a].opacity, o)
                         ELSE through[elems[a].parent][Blend(elems[a].opacity, o)]]
  IN  IF elems[e].parent = 0 THEN 255 ELSE through[elems[e].parent][255]
Alpha(e) == IF elems[e].kind = "label" THEN 255 ELSE Blend(elems[e].opacity, Fade(e))

(* xjse_xadget_render calls all elements; what a renderer draws of the     *)
(* element's box, from and to these parts of its width, times Whole(e).    *)
Bar(e) == elems[e].max - elems[e].min
Anchor(e) == CASE elems[e].align = "left" -> 0 [] elems[e].align = "center" -> 1 [] elems[e].align = "right" -> 2
Whole(e) == CASE elems[e].kind = "progressbar" -> Bar(e) [] elems[e].kind = "label" -> 2 [] OTHER -> 1
Parts(e) ==
  LET el == elems[e]
  IN  CASE el.kind \in {"img", "button"} -> IF el.visible /\ el.image # 0 THEN {<<0, 1>>} ELSE {}
        [] el.kind = "progressbar" ->
             (IF el.image # 0 THEN {<<0, Bar(e)>>} ELSE {}) \cup (IF el.full # 0 THEN {<<0, el.value>>} ELSE {})
        [] el.kind = "label"       -> IF el.text # <<>> THEN {<<Anchor(e), Anchor(e)>>} ELSE {}
        [] el.kind = "div"         -> {}
Drawn(e) == Parts(e) # {}

-----------------------------------------------------------------------------
(* Properties                                                              *)

TypeOK ==
  /\ Len(asked) = Len(elems) /\ Len(elems) <= MaxElems /\ inputs \in 0..MaxInputs
  /\ \A e \in Elems : elems[e].kind \in Kinds /\ elems[e].parent \in 0 .. e - 1 /\ elems[e].opacity \in 0..255
  /\ ToSet(open) \subseteq -1 .. Len(elems) /\ current \in 0 .. Len(elems)

(* Frames are drawn when nothing is being read.                            *)
Drawing == open = <<>>

Anywhere == {Between(f, g, k) : f \in Frames, g \in Frames, k \in 0..FlipSteps}

(* A bar whose value is in its range is drawn within the element, and is   *)
(* empty at its least value.                                               *)
InRange(e) ==
  elems[e].kind = "progressbar" /\ elems[e].min < elems[e].max /\ elems[e].value \in elems[e].min .. elems[e].max
WithinBox ==
  \A e \in Elems : InRange(e) /\ Drawn(e) =>
    /\ \A part \in Parts(e) : 0 <= part[1] /\ part[1] <= part[2] /\ part[2] <= Whole(e)
    /\ elems[e].full # 0 /\ elems[e].value = elems[e].min => \E part \in Parts(e) : part[1] = part[2]

(* "scaling rate (xadget frame : original xadget size)", "centering the    *)
(* xadget in frame" (xgg_xadget_apply_trans): in every frame, and at every *)
(* moment of a flip, the view is as large as fits and in the middle, and   *)
(* what lies in the view is drawn in the frame; so are bars in their boxes. *)
FitsFrame == Drawing =>
  /\ WithinBox
  /\ LET shown == {e \in Elems : Drawn(e)}
         boxes == [d \in 1..2 |-> {<<Left(e, d), Left(e, d) + elems[e].size[d]>> : e \in shown}]
         inView(d) == {b \in boxes[d] : 0 <= b[1] /\ b[2] <= view[d]}
     IN  \A f \in Anywhere :
           LET unit == 2 * Den(f)
           IN  /\ unit > 0
               /\ \E d \in 1..2 : OnScreen(f, d, view[d]) - OnScreen(f, d, 0) = unit * Extent(f, d)
               /\ \A d \in 1..2 : OnScreen(f, d, 0) - unit * f.lo[d] = unit * f.hi[d] - OnScreen(f, d, view[d])
               /\ \A d \in 1..2 : \A b \in inView(d) :
                    unit * f.lo[d] <= OnScreen(f, d, b[1]) /\ OnScreen(f, d, b[2]) <= unit * f.hi[d]

(* No element is drawn more opaque than it or one of its ancestors is      *)
(* asked to be, nor less when all are opaque; what is invisible is not     *)
(* drawn, and nothing in it.  Opacities are bytes, parents come first.     *)
FadesWithAncestors ==
  /\ TypeOK
  /\ \A e \in Elems : Drawing /\ Drawn(e) =>
       /\ \A a \in Line[e] : Asked(a, "opacity") => Alpha(e) <= asked[a]["opacity"].n
       /\ (\A a \in Line[e] : Asked(a, "opacity") => asked[a]["opacity"].n >= 255) => Alpha(e) = 255
       /\ \A a \in Line[e] : Asked(a, "visible") => asked[a]["visible"]

(* "relative value (%): query parent's value" (xgg_be_propop_xn_set): a    *)
(* size is the number, or the share of the parent's size, that was asked   *)
(* for last, and that of the image when none was.                          *)
SizesAsAsked == Drawing =>
  \A e \in Elems, d \in 1..2 :
    LET el == elems[e]
        whole == IF el.parent = 0 THEN view[d] ELSE elems[el.parent].size[d]
    IN  IF Asked(e, Sides[d])
          THEN LET v == asked[e][Sides[d]]
               IN  el.size[d] = IF v.percent THEN (whole * v.n) \div 100 ELSE v.n
          ELSE IF el.image # 0 THEN el.size[d] = el.image
          ELSE el.kind \in {"div", "label"} => el.size[d] = 0

(* A label shows the text between its tags, or the innerText it was given. *)
HasAskedText(e) == elems[e].text = IF Asked(e, "innerText") THEN asked[e]["innerText"] ELSE <<>>

(* A label shows what it was asked to, wherever text stands in a document  *)
(* (xgg_on_characterdata): none of it gets into another label than the one *)
(* it stands in, but for the one whose end tag it follows.                 *)
LabelsAsAsked == Drawing =>
  \A e \in Elems \ covered : elems[e].kind = "label" => HasAskedText(e)

(* What does not hold: text behind a label's end, as the line end of a     *)
(* document that is laid out in lines, leaves the label alone.             *)
CoveredAsAsked == Drawing =>
  \A e \in covered : elems[e].kind = "label" => HasAskedText(e)
=============================================================================
