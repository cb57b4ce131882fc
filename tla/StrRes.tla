------------------------------- MODULE StrRes -------------------------------
(***************************************************************************)
(* The string resources of a gadget (xjse_fileio.c): the handlers that     *)
(* xjse_strres_load gives to the parser make a property of the global      *)
(* object, and of its object "strings", out of every element below         *)
(* <strings>.                                                              *)
(***************************************************************************)
EXTENDS XmlParse

CONSTANTS NameMax,    \* XJSE_STRRES_NMAX_ELEMNAME
          ValueMax    \* XJSE_STRRES_NMAX_ELEMVAL
ASSUME LimitsAssumption == NameMax \in Nat /\ ValueMax \in Nat

(* XJSE_STRLCTX: the name of the element, how much of its text has been    *)
(* taken, the characters of szelemval up to its end, and what is set.      *)
ContextInit == [name |-> <<>>, n |-> 0, val |-> <<>>, strings |-> <<>>]
Root == Text("strings")
Short(name) == SubSeq(name, 1, Min({Len(name), NameMax}))

StartElementGoesOn(c, name) == [c EXCEPT !.name = IF name = Root THEN <<>> ELSE Short(name)]
StartElement(c, name) == [c EXCEPT !.name = IF name = Root THEN <<>> ELSE Short(name), !.n = 0]
Stored(c) == (c.name :> c.val) @@ c.strings
EndElement(c, name) ==
  [c EXCEPT !.name = <<>>, !.n = 0, !.strings = IF name = Root THEN @ ELSE Stored(c)]
CharacterData(c, s) ==
  IF Len(s) + c.n > ValueMax THEN c
  ELSE [c EXCEPT !.val = SubSeq(@, 1, c.n) \o s, !.n = @ + Len(s)]

Handle(c, call) ==
  CASE call[1] = "start"   -> StartElement(c, call[2])
    [] call[1] = "end"     -> EndElement(c, call[2])
    [] call[1] = "text"    -> CharacterData(c, call[2])
    [] call[1] = "skipped" -> c
RECURSIVE HandleAll(_, _)
HandleAll(c, cs) == IF cs = <<>> THEN c ELSE HandleAll(Handle(c, Head(cs)), Tail(cs))

(* xjse_strres_load: the parser's steps, with the handlers called in them. *)
VARIABLE context
Load == Next /\ context' = HandleAll(context, calls')
LoadInit == Init /\ context = ContextInit
LoadSpec == LoadInit /\ [][Load]_<<vars, context>>

(***************************************************************************)
(* Properties                                                              *)
(***************************************************************************)
(* The element at i of the meaning holds a text and nothing else, and no   *)
(* later element has its name.                                             *)
Means == file.doc.meaning
Plain(i) ==
  /\ i + 2 <= Len(Means) /\ Means[i][1] = "start" /\ Means[i + 1][1] = "text" /\ Means[i + 2][1] = "end"
  /\ Means[i][2] # Root
  /\ \A j \in i + 1..Len(Means) : Means[j][1] = "start" => Short(Means[j][2]) # Short(Means[i][2])

(* A list of strings: below <strings> no element is in another.            *)
Named == {i \in 2..Len(Means) : Means[i][1] = "start"}
IsList == Means[1] = <<"start", Root, <<>>>> /\ \A i \in Named : \E j \in {i + 1, i + 2} :
            Means[j] = <<"end", Means[i][2]>> /\ (j = i + 2 => Means[i + 1][1] = "text")

(* In the end every element that holds a text of legal length has become a *)
(* string with that text, whatever pieces the parser handed it over in;    *)
(* and of a list nothing else has, not <strings> nor what is between two.  *)
StringsTaken ==
  TheAnswer = "ok" =>
    /\ \A i \in 1..Len(Means) - 2 :
         Plain(i) /\ Len(Means[i + 1][2]) <= ValueMax
           => /\ Short(Means[i][2]) \in DOMAIN context.strings
              /\ context.strings[Short(Means[i][2])] = Means[i + 1][2]
    /\ IsList => DOMAIN context.strings = {Short(Means[i][2]) : i \in Named}

(* An element without text becomes an empty string.                        *)
EmptyTaken ==
  TheAnswer = "ok" =>
    \A i \in 1..Len(Means) - 1 :
      Means[i][1] = "start" /\ Means[i][2] # Root /\ Means[i + 1] = <<"end", Means[i][2]>>
        /\ (\A j \in i + 1..Len(Means) : Means[j][1] = "start" => Short(Means[j][2]) # Short(Means[i][2]))
        => context.strings[Short(Means[i][2])] = <<>>

(* A text that is too long leaves the beginning of it, or nothing.         *)
LongCut ==
  TheAnswer = "ok" =>
    \A i \in 1..Len(Means) - 2 :
      Plain(i) => IsPrefix(context.strings[Short(Means[i][2])], Means[i + 1][2])

(* An error is reported with the same place every time.                    *)
SamePlace == file.reports = 2 /\ file.next # "report" => p.from.gen = buf.gen /\ p.position = Offset(p.event)
=============================================================================
