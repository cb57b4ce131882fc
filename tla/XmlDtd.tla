------------------------------- MODULE XmlDtd -------------------------------
(***************************************************************************)
(* What a parser of expat keeps of a document's declarations (the DTD of   *)
(* expat/xmlparse.c) and what it computes from them: the values of         *)
(* entities, and the attributes of a tag with their references replaced,   *)
(* their white space normalised and their defaults added.                  *)
(***************************************************************************)
EXTENDS XmlRole

(* general: the entities, text of an internal one, binary when it names a  *)
(* notation; keep: declarations still count; paramRefs: there may be some  *)
(* that were not read; foreign: the program's leave to refer to undeclared *)
(* entities has not been taken yet (XML_UseForeignDTD); system: the        *)
(* document names an external subset.  decl, elem, att, cdata and id       *)
(* belong to the declaration being read, connector to its groups.          *)
DtdInit ==
  [general |-> <<>>, keep |-> TRUE, paramRefs |-> FALSE, standalone |-> FALSE, foreign |-> TRUE,
   system |-> FALSE, defaults |-> <<>>, tokenized |-> {}, decl |-> <<>>, elem |-> <<>>, att |-> <<>>,
   cdata |-> FALSE, id |-> FALSE, connector |-> <<>>]

Undeclared == [text |-> <<>>, internal |-> FALSE, binary |-> FALSE]
MustBeDeclared(d) == ~ d.paramRefs \/ d.standalone

(* What a reference to the entity is answered with, when it is not to be   *)
(* replaced: an error, or "skip" when it may be declared out of sight.     *)
Refusal(d, name, open, mustBe) ==
  CASE name \notin DOMAIN d.general -> IF mustBe THEN "UNDEFINED_ENTITY" ELSE "skip"
    [] name \in open -> "RECURSIVE_ENTITY_REF"
    [] name \in DOMAIN d.general /\ d.general[name].binary -> "BINARY_ENTITY_REF"
    [] OTHER -> ""

Value(error, val) == [error |-> error, val |-> val]

(* The value of an attribute: x from p on, behind what acc holds already.  *)
(* How it is read: with which declarations, whether blanks stay, whether   *)
(* entities must be declared, and inside which entities.                   *)
How(d, isCdata, mustBe, open) == [d |-> d, isCdata |-> isCdata, mustBe |-> mustBe, open |-> open]
EndsInBlank(acc) == acc = <<>> \/ acc[Len(acc)] = " "
Blanked(how, acc) == IF ~ how.isCdata /\ EndsInBlank(acc) THEN acc ELSE Append(acc, " ")

RECURSIVE AppendAttributeValue(_, _, _, _), AppendToken(_, _, _, _, _), AppendEntity(_, _, _, _, _)
AppendAttributeValue(how, x, p, acc) == AppendToken(how, x, p, AttributeValueTok(x, p, Len(x) + 1), acc)
AppendToken(how, x, p, t, acc) ==
  LET n == CharRefNumber(Span(x, p, t.next)) IN
  CASE t.tok = "NONE" -> Value("", acc)
    [] t.tok \in {"INVALID", "PARTIAL"} -> Value("INVALID_TOKEN", acc)
    [] t.tok = "DATA_CHARS" -> AppendAttributeValue(how, x, t.next, acc \o Span(x, p, t.next))
    [] t.tok \in {"TRAILING_CR", "ATTRIBUTE_VALUE_S", "DATA_NEWLINE"} ->
         AppendAttributeValue(how, x, t.next, Blanked(how, acc))
    [] t.tok = "CHAR_REF" ->
         IF n < 0 THEN Value("BAD_CHAR_REF", acc)
         ELSE AppendAttributeValue(how, x, t.next, IF n = 32 THEN Blanked(how, acc) ELSE acc \o Utf8Encode(n))
    [] t.tok = "ENTITY_REF" -> AppendEntity(how, x, t.next, Span(x, p + 1, t.next - 1), acc)
    [] OTHER -> Value("UNEXPECTED_STATE", acc)
AppendEntity(how, x, next, name, acc) ==
  LET no == Refusal(how.d, name, how.open, how.mustBe) IN
  IF PredefinedEntityName(name) # "" THEN AppendAttributeValue(how, x, next, Append(acc, PredefinedEntityName(name)))
  ELSE IF no = "skip" THEN AppendAttributeValue(how, x, next, acc)
  ELSE IF no # "" THEN Value(no, acc)
  ELSE IF ~ how.d.general[name].internal THEN Value("ATTRIBUTE_EXTERNAL_ENTITY_REF", acc)
  ELSE LET inner == AppendAttributeValue([how EXCEPT !.open = @ \cup {name}], how.d.general[name].text, 1, acc)
       IN IF inner.error # "" THEN inner ELSE AppendAttributeValue(how, x, next, inner.val)

StoreAttributeValue(d, v, isCdata, mustBe, open) ==
  LET r == AppendAttributeValue(How(d, isCdata, mustBe, open), v, 1, <<>>)
  IN IF r.error = "" /\ ~ isCdata /\ r.val # <<>> /\ EndsInBlank(r.val)
     THEN Value("", SubSeq(r.val, 1, Len(r.val) - 1)) ELSE r

(* The text of an entity: references to characters are replaced when it is *)
(* declared, the others when it is used.                                   *)
RECURSIVE StoreEntityValue(_, _, _), StoreToken(_, _, _, _)
StoreEntityValue(x, p, acc) == StoreToken(x, p, EntityValueTok(x, p, Len(x) + 1), acc)
StoreToken(x, p, t, acc) ==
  LET n == CharRefNumber(Span(x, p, t.next)) IN
  CASE t.tok = "NONE" -> Value("", acc)
    [] t.tok \in {"ENTITY_REF", "DATA_CHARS"} -> StoreEntityValue(x, t.next, acc \o Span(x, p, t.next))
    [] t.tok \in {"TRAILING_CR", "DATA_NEWLINE"} -> StoreEntityValue(x, t.next, Append(acc, "\n"))
    [] t.tok = "CHAR_REF" -> IF n < 0 THEN Value("BAD_CHAR_REF", acc)
                             ELSE StoreEntityValue(x, t.next, acc \o (IF n = 13 THEN <<"CR">> ELSE Utf8Encode(n)))
    [] t.tok = "PARAM_ENTITY_REF" -> Value("PARAM_ENTITY_REF", acc)
    [] t.tok \in {"PARTIAL", "INVALID"} -> Value("INVALID_TOKEN", acc)
    [] OTHER -> Value("UNEXPECTED_STATE", acc)

(* The attributes declared for an element, in the order of declaration.    *)
DefaultsOf(d, elem) == IF elem \in DOMAIN d.defaults THEN d.defaults[elem] ELSE <<>>
DefineAttribute(d, given, val, isId) ==
  LET before == DefaultsOf(d, d.elem)
      one == [name |-> d.att, given |-> given, val |-> val, cdata |-> d.cdata]
  IN IF (given \/ isId) /\ \E i \in DOMAIN before : before[i].name = d.att THEN d
     ELSE [d EXCEPT !.defaults = (d.elem :> Append(before, one)) @@ @,
                    !.tokenized = IF d.cdata THEN @ ELSE @ \cup {d.att}]

(* Whether the values of an attribute of elem keep their blanks.           *)
IsCdata(d, elem, att) ==
  LET ds == DefaultsOf(d, elem)
      hits == {i \in DOMAIN ds : ds[i].name = att}
  IN IF att \in d.tokenized /\ hits # {} THEN ds[Min(hits)].cdata ELSE TRUE

(* storeAtts: the attributes of a tag as the program is told them, up to   *)
(* the first that is wrong.                                                *)
ValuesOf(d, elem, given, open) ==
  [i \in DOMAIN given |->
     IF given[i].normalized THEN Value("", given[i].val)
     ELSE StoreAttributeValue(d, given[i].val, IsCdata(d, elem, given[i].name), MustBeDeclared(d), open)]
Added(ds, names) ==
  SelectSeq([i \in DOMAIN ds |-> [i |-> i, d |-> ds[i]]],
    LAMBDA r : r.d.given /\ r.d.name \notin names /\ \A j \in 1..r.i - 1 : ds[j].given => ds[j].name # r.d.name)
WithDefaults(given, val, added) ==
  LET Twice(i) == \E j \in 1..i - 1 : given[j].name = given[i].name
      wrong == {i \in DOMAIN given : Twice(i) \/ val[i].error # ""}
  IN IF wrong # {}
     THEN Value(IF Twice(Min(wrong)) THEN "DUPLICATE_ATTRIBUTE" ELSE val[Min(wrong)].error, <<>>)
     ELSE Value("", [i \in DOMAIN given |-> <<given[i].name, val[i].val>>]
                      \o [i \in DOMAIN added |-> <<added[i].d.name, added[i].d.val>>])
AttsOf(d, elem, given, open) ==
  WithDefaults(given, ValuesOf(d, elem, given, open),
               Added(DefaultsOf(d, elem), {given[i].name : i \in DOMAIN given}))
StoreAtts(d, elem, tagText, open) == AttsOf(d, elem, GetAtts(tagText), open)
=============================================================================
