-------------------------------- MODULE XDom --------------------------------
(***************************************************************************)
(* What scripts see of an HTTP response: the getters of XMLHttpRequest     *)
(* (xjse_xhr.c), the nodes that responseXML and DOMDocument.loadXML make   *)
(* of a document (xgg_dom.c), getElementsByTagName, and the Enumerator     *)
(* that walks over its result (xjse_jsutil.c).                             *)
(*                                                                         *)
(* A node is a number; 0 is the null pointer.  The XML parser is known by  *)
(* its callbacks: elements begin and end, and the document breaks off      *)
(* anywhere, as it is malformed or not complete.                           *)
(***************************************************************************)
EXTENDS Integers, Sequences, SequencesExt, FiniteSetsExt, Chains

CONSTANTS
  Xhrs,       (* XMLHttpRequest objects                                     *)
  DomDocs,    (* DOMDocument objects                                        *)
  Names,      (* names of elements                                          *)
  MaxNodes,   (* bound on the nodes that are ever made                      *)
  MaxElems,   (* XGG_NMAXELEMS                                              *)
  MaxLevel,   (* XGG_NMAXELEMLEVEL                                          *)
  None,
  Env         (* what documents and scripts do, see EnvKinds                *)

(***************************************************************************)
(* "stale": a document is read into an object whose last one broke off, or *)
(*   filled the table.                                                     *)
(* "deep": a document has more levels than the stack.                      *)
(* "early": responseXML is read before the response has come, or nodes are *)
(*   looked for in a DOMDocument that is empty.                            *)
(* "twice": the responseStream of one response is read more than once.     *)
(* "collect": what the script does not hold itself is garbage collected.   *)
(* "shrink": a collection gets shorter while an Enumerator walks over it.  *)
(***************************************************************************)
EnvKinds == {"stale", "deep", "early", "twice", "collect", "shrink"}

Objs == Xhrs \cup DomDocs
Nodes == 1 .. MaxNodes
Ptrs == 0 .. MaxNodes

ASSUME ObjsAssumption == Xhrs \cap DomDocs = {} /\ None \notin Objs
ASSUME SizesAssumption ==
  MaxNodes \in Nat \ {0} /\ MaxElems \in Nat \ {0} /\ MaxLevel \in Nat \ {0}
ASSUME EnvAssumption == Env \subseteq EnvKinds

VARIABLES
  size,       (* the nodes made so far are 1 .. size                        *)
  name, parent, first, next,   (* "__elemname" and XJSE_TREEELEM            *)
  dead,       (* nodes whose object has been collected                      *)
  nelems, apelems, level, stack, nodelist,   (* XJSE_XDOMPRIV; None is a    *)
              (* null ponodelist                                            *)
  reading,    (* the object whose document is being parsed, or None         *)
  path,       (* history: its open elements, 0 for one without a node       *)
  up,         (* history: the element a node is in, in the document         *)
  text,       (* pszresponsetext: "none", "held" or "freed"                 *)
  lost,       (* the fields of a response that something else was written to *)
  streams,    (* the responseStream objects of a request                    *)
  ended,      (* the script's context is being deleted                      *)
  loop,       (* the script's for loop with an Enumerator, or None          *)
  fault       (* the first access to memory that is not there               *)

tree == <<size, name, parent, first, next>>
xdom == <<nelems, apelems, level, stack, nodelist>>
response == <<text, lost, streams, ended>>
vars == <<tree, dead, xdom, reading, path, up, response, loop, fault>>

(* XMLHttpRequest's constructor sets -1, DOMDocument's leaves 0.           *)
Ground(o) == IF o \in Xhrs THEN -1 ELSE 0

Init ==
  /\ size = 0
  /\ name = [x \in Nodes |-> None]
  /\ parent = [x \in Nodes |-> 0]
  /\ first = [x \in Nodes |-> 0]
  /\ next = [x \in Nodes |-> 0]
  /\ dead = {}
  /\ nelems = [o \in Objs |-> 0]
  /\ apelems = [o \in Objs |-> [i \in 1 .. MaxElems |-> 0]]
  /\ level = [o \in Objs |-> Ground(o)]
  /\ stack = [o \in Objs |-> [l \in 0 .. MaxLevel - 1 |-> 0]]
  /\ nodelist = [o \in Objs |-> None]
  /\ reading = None
  /\ path = <<>>
  /\ up = [x \in Nodes |-> 0]
  /\ text = [o \in Xhrs |-> "none"]
  /\ lost = [o \in Xhrs |-> {}]
  /\ streams = [o \in Xhrs |-> 0]
  /\ ended = FALSE
  /\ loop = None
  /\ fault = "none"

Runs == fault = "none"
ScriptRuns == Runs /\ reading = None /\ ~ended

(* Between two calls of the script.                                        *)
Idle == ScriptRuns /\ loop = None

Stops(why) ==
  /\ fault' = why
  /\ UNCHANGED <<tree, dead, xdom, reading, path, up, response, loop>>

-----------------------------------------------------------------------------
(* The response                                                            *)

(* The fields of XJSE_XHRPRIV behind its XDOM, which the levels from       *)
(* MaxLevel on of apelemstack lie on.                                      *)
Fields == <<"status", "length", "type", "url", "text">>

ReadyState(o) == IF text[o] = "none" \/ "text" \in lost[o] THEN 0 ELSE 4

(* xpnet_butback_httpresult                                                *)
PutBack(o) ==
  /\ Idle
  /\ text[o] = "none"
  /\ text' = [text EXCEPT ![o] = "held"]
  /\ UNCHANGED <<tree, dead, xdom, reading, path, up, lost, streams, ended, loop, fault>>

(* responseText copies the text, which a stream may have freed.            *)
ResponseText(o) ==
  /\ ScriptRuns
  /\ ReadyState(o) = 4
  /\ IF text[o] = "freed" THEN Stops("text read after free") ELSE UNCHANGED vars

(* responseStream: the stream's private data is the text itself.           *)
ResponseStream(o) ==
  /\ ScriptRuns
  /\ ReadyState(o) = 4
  /\ streams[o] < IF "twice" \in Env THEN 2 ELSE 1
  /\ streams' = [streams EXCEPT ![o] = @ + 1]
  /\ UNCHANGED <<tree, dead, xdom, reading, path, up, text, lost, ended, loop, fault>>

(* xjse_xhrresstream_dtor                                                  *)
FinalizeStream(o) ==
  /\ Runs
  /\ ended \/ "collect" \in Env
  /\ streams[o] > 0
  /\ IF text[o] = "freed" THEN Stops("text freed twice") ELSE
       /\ text' = [text EXCEPT ![o] = "freed"]
       /\ streams' = [streams EXCEPT ![o] = @ - 1]
       /\ UNCHANGED <<tree, dead, xdom, reading, path, up, lost, ended, loop, fault>>

ContextEnds ==
  /\ Idle
  /\ ended' = TRUE
  /\ UNCHANGED <<tree, dead, xdom, reading, path, up, text, lost, streams, loop, fault>>

-----------------------------------------------------------------------------
(* Reading a document                                                      *)

MayRead(o) ==
  /\ ScriptRuns
  /\ "stale" \in Env \/ (level[o] = Ground(o) /\ apelems[o][MaxElems] = 0)

(* xjse_xdom_parsexml; the entries of apelems stay.                        *)
ParseXml(o) ==
  /\ MayRead(o)
  /\ reading' = o
  /\ nelems' = [nelems EXCEPT ![o] = 0]
  /\ nodelist' = [nodelist EXCEPT ![o] = <<>>]
  /\ UNCHANGED <<tree, dead, apelems, level, stack, path, up, response, loop, fault>>

(* DOMDocument.loadXML                                                     *)
LoadXml(o) == o \in DomDocs /\ ParseXml(o)

(* responseXML.  Without a text a parser is freed that was never created,  *)
(* and the root is looked for in a null table.                             *)
ResponseXml(o) ==
  /\ o \in Xhrs
  /\ ReadyState(o) = 4 \/ "early" \in Env
  /\ IF ReadyState(o) = 4 /\ text[o] = "held" THEN ParseXml(o)
     ELSE ScriptRuns /\ Stops("nothing to parse")

(* Mutant: the last sibling is not asked for its parent.                   *)
LastSiblingAnywhere(o, p) ==
  {i \in 1 .. MaxElems : apelems[o][i] # 0 /\ next[apelems[o][i]] = 0}

(* The entries up to the first null one: the search runs over these.       *)
Searched(o) == {i \in 1 .. MaxElems : \A j \in 1 .. i : apelems[o][j] # 0}

(* The entries that the search for the last child of p ends at.            *)
LastSibling(o, p) ==
  {i \in Searched(o) : parent[apelems[o][i]] = p /\ next[apelems[o][i]] = 0}

(* xjse_treeelem_family_set, for the new node x.                           *)
FamilySet(o, x) ==
  LET l == level'[o]
      p == stack[o][l - 1]
      last == LastSibling(o, p)
  IN  IF l <= 0 THEN UNCHANGED <<parent, first, next>> ELSE
        /\ parent' = [parent EXCEPT ![x] = p]
        /\ first' = IF p # 0 /\ first[p] = 0 THEN [first EXCEPT ![p] = x] ELSE first
        /\ next' = IF last = {} THEN next ELSE [next EXCEPT ![apelems[o][Min(last)]] = x]

(* The search passes the end of a full table, and takes nelemlevel, which  *)
(* follows it, for a pointer.                                              *)
PassesEnd(o) ==
  /\ level'[o] > 0
  /\ LastSibling(o, stack[o][level'[o] - 1]) = {}
  /\ Searched(o) = 1 .. MaxElems

(* A write to apelemstack[l].                                              *)
StackSet(o, l, x) ==
  IF l < MaxLevel
    THEN /\ stack' = [stack EXCEPT ![o][l] = x]
         /\ UNCHANGED <<lost, fault>>
    ELSE /\ UNCHANGED stack
         /\ IF o \in Xhrs
              THEN lost' = [lost EXCEPT ![o] = @ \cup {Fields[l - MaxLevel + 1]}] /\ UNCHANGED fault
              ELSE fault' = "write past the object" /\ UNCHANGED lost

Begins(o) ==
  /\ Runs /\ reading = o
  /\ path = <<>> => nodelist[o] = <<>>
  /\ level[o] + 1 < IF "deep" \in Env THEN MaxLevel + Len(Fields) ELSE MaxLevel

(* The new node x of the element n.                                        *)
NewNode(o, n, x) ==
  /\ size' = x
  /\ name' = [name EXCEPT ![x] = n]
  /\ nodelist' = [nodelist EXCEPT ![o] = Append(@, x)]
  /\ nelems' = [nelems EXCEPT ![o] = @ + 1]
  /\ apelems' = [apelems EXCEPT ![o][nelems[o] + 1] = x]
  /\ up' = [up EXCEPT ![x] = IF path = <<>> THEN 0 ELSE Last(path)]
  /\ path' = Append(path, x)

(* Mutant: one element too many passes the limit.                          *)
ExcessOneMore(o) == nelems[o] > MaxElems \/ level'[o] > MaxLevel

(* "elems excessed limit!"                                                 *)
Excess(o) == nelems[o] + 1 > MaxElems \/ level'[o] > MaxLevel

(* Mutant: an element that is refused does not count as a level.           *)
StartElementUncounted(o, n) ==
  /\ Begins(o)
  /\ IF nelems[o] + 1 > MaxElems
       THEN /\ path' = Append(path, 0)
            /\ UNCHANGED <<tree, xdom, up, lost, fault>>
       ELSE /\ size < MaxNodes
            /\ level' = [level EXCEPT ![o] = @ + 1]
            /\ NewNode(o, n, size + 1)
            /\ FamilySet(o, size + 1)
            /\ StackSet(o, level'[o], size + 1)
  /\ UNCHANGED <<dead, reading, text, streams, ended, loop>>

(* xjse_xdom_on_startelement                                               *)
StartElement(o, n) ==
  /\ Begins(o)
  /\ level' = [level EXCEPT ![o] = @ + 1]
  /\ IF Excess(o)
       THEN /\ path' = Append(path, 0)
            /\ UNCHANGED <<tree, nelems, apelems, stack, nodelist, up, lost, fault>>
     ELSE IF nelems[o] = MaxElems \/ PassesEnd(o)
       THEN /\ fault' = "past the end of apelems"
            /\ UNCHANGED <<tree, nelems, apelems, stack, nodelist, up, path, lost>>
     ELSE /\ size < MaxNodes
          /\ NewNode(o, n, size + 1)
          /\ FamilySet(o, size + 1)
          /\ StackSet(o, level'[o], size + 1)
  /\ UNCHANGED <<dead, reading, text, streams, ended, loop>>

(* xjse_xdom_on_endelement                                                 *)
EndElement(o) ==
  /\ Runs /\ reading = o /\ path # <<>>
  /\ StackSet(o, level[o], 0)
  /\ level' = [level EXCEPT ![o] = @ - 1]
  /\ path' = Front(path)
  /\ UNCHANGED <<tree, dead, nelems, apelems, nodelist, reading, up, text, streams, ended, loop>>

(* XML_Parse returns: the text is over, complete or not, or malformed.  An *)
(* error is only reported, and the call is a success.                      *)
ParseReturns(o) ==
  /\ Runs /\ reading = o
  /\ reading' = None
  /\ path' = <<>>
  /\ UNCHANGED <<tree, dead, xdom, up, response, loop, fault>>

-----------------------------------------------------------------------------
(* Scripts                                                                 *)

(* Mutant: the children of an element come after its younger siblings.     *)
SiblingsFirst(x, n) ==
  LET from[y \in Ptrs] ==
        IF y = 0 THEN <<>>
        ELSE (IF name[y] = n THEN <<y>> ELSE <<>>) \o from[next[y]] \o from[first[y]]
  IN  from[first[x]]

(* xgg_getelemsbytagname, from the first child of x.                       *)
GetElementsByTagName(x, n) ==
  LET from[y \in Ptrs] ==
        IF y = 0 THEN <<>>
        ELSE (IF name[y] = n THEN <<y>> ELSE <<>>) \o from[first[y]] \o from[next[y]]
  IN  from[first[x]]

(* The nodes below x in the document.                                      *)
Inside(x) ==
  LET in[y \in Ptrs] == y # 0 /\ (up[y] = x \/ in[up[y]])
  IN  {y \in 1 .. size : in[y]}

(* What a script expects: the elements of that name.                       *)
Named(x, n) == {y \in Inside(x) : name[y] = n}

(* element.getElementsByTagName(), and new Enumerator() on its result.  It *)
(* asks every object below x for its name.                                 *)
LoopBegins(x, n) ==
  /\ Idle
  /\ x \notin dead
  /\ IF Inside(x) \cap dead # {} THEN Stops("collected node") ELSE
       /\ loop' = [root |-> x, tag |-> n, list |-> GetElementsByTagName(x, n),
                   ncurrent |-> 0, seen |-> <<>>, cut |-> 0]
       /\ UNCHANGED <<tree, dead, xdom, reading, path, up, response, fault>>

(* document.getElementsByTagName()                                         *)
XdomLoopBegins(o, n) ==
  /\ o \in DomDocs
  /\ nodelist[o] # <<>>
  /\ nodelist[o] = None => "early" \in Env
  /\ IF nodelist[o] = None THEN ScriptRuns /\ Stops("no nodes")
     ELSE LoopBegins(nodelist[o][1], n)

AtEnd == loop.ncurrent = Len(loop.list)

Item ==
  IF loop.ncurrent < Len(loop.list) THEN loop.list[loop.ncurrent + 1] ELSE None

(* for(; !e.atEnd(); e.moveNext()) ... e.item() ...                        *)
LoopTurn ==
  /\ ScriptRuns /\ loop # None /\ ~AtEnd
  /\ loop.ncurrent <= MaxNodes
  /\ loop' = [loop EXCEPT !.seen = Append(@, Item), !.ncurrent = @ + 1]
  /\ UNCHANGED <<tree, dead, xdom, reading, path, up, response, fault>>

LoopEnds ==
  /\ ScriptRuns /\ loop # None /\ AtEnd
  /\ loop' = None
  /\ UNCHANGED <<tree, dead, xdom, reading, path, up, response, fault>>

(* The script takes the last item out of the collection; it is still to    *)
(* come, or "shrink" is allowed.                                           *)
Shrink ==
  /\ ScriptRuns /\ loop # None /\ loop.list # <<>>
  /\ AtEnd => "shrink" \in Env
  /\ loop' = [loop EXCEPT !.list = Front(@), !.cut = @ + 1]
  /\ UNCHANGED <<tree, dead, xdom, reading, path, up, response, fault>>

DocumentNodes ==
  UNION {ToSet(nodelist[o]) : o \in {d \in DomDocs : nodelist[d] # None}}

(* The tree a script has no use for any more is garbage collected.  With   *)
(* "collect" any node is that the script does not hold itself, as neither  *)
(* ponodelist nor apelems is known to the garbage collector.               *)
Collect(x) ==
  /\ Runs
  /\ x \in 1 .. size \ dead
  /\ "collect" \notin Env => Idle /\ up[x] = 0 /\ x \notin DocumentNodes
  /\ dead' = dead \cup {x} \cup Inside(x)
  /\ UNCHANGED <<tree, xdom, reading, path, up, response, loop, fault>>

-----------------------------------------------------------------------------
Next ==
  \/ \E o \in Xhrs : \/ PutBack(o) \/ ResponseText(o) \/ ResponseStream(o)
                     \/ FinalizeStream(o) \/ ResponseXml(o)
  \/ \E o \in DomDocs : LoadXml(o)
  \/ \E o \in Objs, n \in Names : StartElement(o, n)
  \/ \E o \in Objs : EndElement(o) \/ ParseReturns(o)
  \/ \E x \in 1 .. size, n \in Names : LoopBegins(x, n)
  \/ \E o \in DomDocs, n \in Names : XdomLoopBegins(o, n)
  \/ LoopTurn \/ LoopEnds \/ Shrink
  \/ \E x \in Nodes : Collect(x)
  \/ ContextEnds

Spec == Init /\ [][Next]_vars

-----------------------------------------------------------------------------
(* Properties                                                              *)

TypeOK ==
  /\ size \in 0 .. MaxNodes
  /\ parent \in [Nodes -> Ptrs] /\ first \in [Nodes -> Ptrs] /\ next \in [Nodes -> Ptrs]
  /\ dead \subseteq 1 .. size
  /\ \A o \in Objs :
       /\ nelems[o] \in 0 .. MaxElems
       /\ apelems[o] \in [1 .. MaxElems -> Ptrs]
       /\ level[o] \in Ground(o) .. MaxLevel + Len(Fields) - 1
       /\ stack[o] \in [0 .. MaxLevel - 1 -> Ptrs]
       /\ nodelist[o] = None \/ Len(nodelist[o]) \in {nelems[o]}
  /\ reading \in Objs \cup {None}
  /\ text \in [Xhrs -> {"none", "held", "freed"}]
  /\ streams \in [Xhrs -> 0 .. 2]

(* No getter, no parse and no finalizer touches memory that is not there,  *)
(* as long as scripts keep to what Env leaves out: a full table            *)
(* (xgg_dom.c:397), documents that break off, streams that are finalised.  *)
NoFault == fault = "none"

(* What for a well-behaved script comes of getElementsByTagName and        *)
(* Enumerator: its loop visits the elements of that name inside the        *)
(* element, once each, in the order of the document, whatever is read      *)
(* meanwhile (xgg_getelemsbytagname).                                      *)
LoopVisitsAll ==
  loop # None =>
    LET seen == loop.seen
        all == Named(loop.root, loop.tag)
    IN  /\ ToSet(seen) \subseteq all
        /\ \A i, j \in DOMAIN seen : i < j => seen[i] < seen[j]
        /\ \A i \in DOMAIN seen, y \in all : y < seen[i] => y \in ToSet(seen)
        /\ AtEnd => Len(seen) + loop.cut = Cardinality(all)

(* "elems excessed limit" (xgg_dom.c:399): a document that is too deep     *)
(* changes nothing of the response it is in.                               *)
ResponseKept == \A o \in Xhrs : lost[o] = {}

(* The nodes and their children as the pointers have them.                 *)
Roots == {y \in 1 .. size : parent[y] = 0}

Kids == [x \in Nodes |-> Chain(next, first[x], MaxNodes)]

Nested == INSTANCE NodeTree WITH roots <- Roots, kids <- Kids

(* xjse_xdom_on_startelement and family_set: each document becomes an      *)
(* ordered tree of its own, and the trees that scripts have got earlier    *)
(* stay as they are.                                                       *)
ImplementsNodes == Nested!TreeSpec
=============================================================================
