------------------------------ MODULE XmlRole ------------------------------
(***************************************************************************)
(* The grammar of the prolog of a document (expat/xmlrole.c): what a token *)
(* is for, given the handler that stands for what came before it.  Only    *)
(* the handlers that the document itself can reach: no parser of the       *)
(* program reads an external subset.                                       *)
(***************************************************************************)
EXTENDS Integers, Sequences, FiniteSets, TLC, XmlTok

(* A rule of a handler: the token, the word it must be ("" for any), the   *)
(* role it has and the handler that follows.                               *)
R(tok, role, next) == [tok |-> tok, word |-> "", role |-> role, next |-> next]
W(tok, word, role, next) == [tok |-> tok, word |-> word, role |-> role, next |-> next]
Blank(role, h) == R("PROLOG_S", role, h)

Misc(h, next) ==
  {Blank("NONE", next), R("PI", "PI", next), R("COMMENT", "COMMENT", next),
   R("INSTANCE_START", "INSTANCE_START", "error")}
Doctype(h) == W("DECL_OPEN", "DOCTYPE", "DOCTYPE_NONE", "doctype0")

PrologHandlers ==
  [prolog0 |-> Misc("prolog0", "prolog1")
                 \cup {R("XML_DECL", "XML_DECL", "prolog1"), R("BOM", "NONE", "prolog0"), Doctype("prolog0")},
   prolog1 |-> Misc("prolog1", "prolog1") \cup {R("BOM", "NONE", "prolog1"), Doctype("prolog1")},
   prolog2 |-> Misc("prolog2", "prolog2")]

DoctypeEnd(h) ==
  {Blank("DOCTYPE_NONE", h), R("OPEN_BRACKET", "DOCTYPE_INTERNAL_SUBSET", "internalSubset"),
   R("DECL_CLOSE", "DOCTYPE_CLOSE", "prolog2")}
DoctypeHandlers ==
  [doctype0 |-> {Blank("DOCTYPE_NONE", "doctype0"), R("NAME", "DOCTYPE_NAME", "doctype1")},
   doctype1 |-> DoctypeEnd("doctype1")
                  \cup {W("NAME", "SYSTEM", "DOCTYPE_NONE", "doctype3"), W("NAME", "PUBLIC", "DOCTYPE_NONE", "doctype2")},
   doctype2 |-> {Blank("DOCTYPE_NONE", "doctype2"), R("LITERAL", "DOCTYPE_PUBLIC_ID", "doctype3")},
   doctype3 |-> {Blank("DOCTYPE_NONE", "doctype3"), R("LITERAL", "DOCTYPE_SYSTEM_ID", "doctype4")},
   doctype4 |-> DoctypeEnd("doctype4"),
   doctype5 |-> {Blank("DOCTYPE_NONE", "doctype5"), R("DECL_CLOSE", "DOCTYPE_CLOSE", "prolog2")},
   internalSubset |->
     {Blank("NONE", "internalSubset"), R("PI", "PI", "internalSubset"), R("COMMENT", "COMMENT", "internalSubset"),
      W("DECL_OPEN", "ENTITY", "ENTITY_NONE", "entity0"), W("DECL_OPEN", "ATTLIST", "ATTLIST_NONE", "attlist0"),
      W("DECL_OPEN", "ELEMENT", "ELEMENT_NONE", "element0"), W("DECL_OPEN", "NOTATION", "NOTATION_NONE", "notation0"),
      R("PARAM_ENTITY_REF", "PARAM_ENTITY_REF", "internalSubset"),
      R("CLOSE_BRACKET", "DOCTYPE_NONE", "doctype5")}]

(* <!ENTITY name "value">, <!ENTITY name SYSTEM "..."> and the same for    *)
(* the parameter entities, from entity7 on.                                *)
External(h, public, system, none) ==
  {Blank(none, h), W("NAME", "SYSTEM", none, system), W("NAME", "PUBLIC", none, public)}
EntityHandlers ==
  [entity0 |-> {Blank("ENTITY_NONE", "entity0"), R("PERCENT", "ENTITY_NONE", "entity1"),
                R("NAME", "GENERAL_ENTITY_NAME", "entity2")},
   entity1 |-> {Blank("ENTITY_NONE", "entity1"), R("NAME", "PARAM_ENTITY_NAME", "entity7")},
   entity2 |-> External("entity2", "entity3", "entity4", "ENTITY_NONE")
                 \cup {R("LITERAL", "ENTITY_VALUE", "closeEntity")},
   entity3 |-> {Blank("ENTITY_NONE", "entity3"), R("LITERAL", "ENTITY_PUBLIC_ID", "entity4")},
   entity4 |-> {Blank("ENTITY_NONE", "entity4"), R("LITERAL", "ENTITY_SYSTEM_ID", "entity5")},
   entity5 |-> {Blank("ENTITY_NONE", "entity5"), R("DECL_CLOSE", "ENTITY_COMPLETE", "internalSubset"),
                W("NAME", "NDATA", "ENTITY_NONE", "entity6")},
   entity6 |-> {Blank("ENTITY_NONE", "entity6"), R("NAME", "ENTITY_NOTATION_NAME", "closeEntity")},
   entity7 |-> External("entity7", "entity8", "entity9", "ENTITY_NONE")
                 \cup {R("LITERAL", "ENTITY_VALUE", "closeEntity")},
   entity8 |-> {Blank("ENTITY_NONE", "entity8"), R("LITERAL", "ENTITY_PUBLIC_ID", "entity9")},
   entity9 |-> {Blank("ENTITY_NONE", "entity9"), R("LITERAL", "ENTITY_SYSTEM_ID", "entity10")},
   entity10 |-> {Blank("ENTITY_NONE", "entity10"), R("DECL_CLOSE", "ENTITY_COMPLETE", "internalSubset")}]

NotationHandlers ==
  [notation0 |-> {Blank("NOTATION_NONE", "notation0"), R("NAME", "NOTATION_NAME", "notation1")},
   notation1 |-> External("notation1", "notation2", "notation3", "NOTATION_NONE"),
   notation2 |-> {Blank("NOTATION_NONE", "notation2"), R("LITERAL", "NOTATION_PUBLIC_ID", "notation4")},
   notation3 |-> {Blank("NOTATION_NONE", "notation3"), R("LITERAL", "NOTATION_SYSTEM_ID", "closeNotation")},
   notation4 |-> {Blank("NOTATION_NONE", "notation4"), R("LITERAL", "NOTATION_SYSTEM_ID", "closeNotation"),
                  R("DECL_CLOSE", "NOTATION_NO_SYSTEM_ID", "internalSubset")}]

(* <!ATTLIST element name type default ...>                                *)
AttTypes == {"CDATA", "ID", "IDREF", "IDREFS", "ENTITY", "ENTITIES", "NMTOKEN", "NMTOKENS"}
AttlistHandlers ==
  [attlist0 |-> {Blank("ATTLIST_NONE", "attlist0"), R("NAME", "ATTLIST_ELEMENT_NAME", "attlist1")},
   attlist1 |-> {Blank("ATTLIST_NONE", "attlist1"), R("DECL_CLOSE", "ATTLIST_NONE", "internalSubset"),
                 R("NAME", "ATTRIBUTE_NAME", "attlist2")},
   attlist2 |-> {W("NAME", t, "ATTRIBUTE_TYPE_" \o t, "attlist8") : t \in AttTypes}
                  \cup {Blank("ATTLIST_NONE", "attlist2"), W("NAME", "NOTATION", "ATTLIST_NONE", "attlist5"),
                        R("OPEN_PAREN", "ATTLIST_NONE", "attlist3")},
   attlist3 |-> {Blank("ATTLIST_NONE", "attlist3"), R("NMTOKEN", "ATTRIBUTE_ENUM_VALUE", "attlist4"),
                 R("NAME", "ATTRIBUTE_ENUM_VALUE", "attlist4")},
   attlist4 |-> {Blank("ATTLIST_NONE", "attlist4"), R("CLOSE_PAREN", "ATTLIST_NONE", "attlist8"),
                 R("OR", "ATTLIST_NONE", "attlist3")},
   attlist5 |-> {Blank("ATTLIST_NONE", "attlist5"), R("OPEN_PAREN", "ATTLIST_NONE", "attlist6")},
   attlist6 |-> {Blank("ATTLIST_NONE", "attlist6"), R("NAME", "ATTRIBUTE_NOTATION_VALUE", "attlist7")},
   attlist7 |-> {Blank("ATTLIST_NONE", "attlist7"), R("CLOSE_PAREN", "ATTLIST_NONE", "attlist8"),
                 R("OR", "ATTLIST_NONE", "attlist6")},
   attlist8 |-> {Blank("ATTLIST_NONE", "attlist8"), R("LITERAL", "DEFAULT_ATTRIBUTE_VALUE", "attlist1"),
                 W("POUND_NAME", "IMPLIED", "IMPLIED_ATTRIBUTE_VALUE", "attlist1"),
                 W("POUND_NAME", "REQUIRED", "REQUIRED_ATTRIBUTE_VALUE", "attlist1"),
                 W("POUND_NAME", "FIXED", "ATTLIST_NONE", "attlist9")},
   attlist9 |-> {Blank("ATTLIST_NONE", "attlist9"), R("LITERAL", "FIXED_ATTRIBUTE_VALUE", "attlist1")}]

(* <!ELEMENT name (...)>.  Groups are counted in level; the rules of       *)
(* element7 that close one lead to closeElement when it was the last.      *)
Quantified == {<<"", "">>, <<"_QUESTION", "_OPT">>, <<"_ASTERISK", "_REP">>, <<"_PLUS", "_PLUS">>}
Particle == {R("NAME" \o q[1], "CONTENT_ELEMENT" \o q[2], "element7") : q \in Quantified}
ElementHandlers ==
  [element0 |-> {Blank("ELEMENT_NONE", "element0"), R("NAME", "ELEMENT_NAME", "element1")},
   element1 |-> {Blank("ELEMENT_NONE", "element1"), R("OPEN_PAREN", "GROUP_OPEN", "element2"),
                 W("NAME", "EMPTY", "CONTENT_EMPTY", "closeElement"), W("NAME", "ANY", "CONTENT_ANY", "closeElement")},
   element2 |-> Particle \cup
                {Blank("ELEMENT_NONE", "element2"), W("POUND_NAME", "PCDATA", "CONTENT_PCDATA", "element3"),
                 R("OPEN_PAREN", "GROUP_OPEN", "element6")},
   element3 |-> {Blank("ELEMENT_NONE", "element3"), R("CLOSE_PAREN", "GROUP_CLOSE", "closeElement"),
                 R("CLOSE_PAREN_ASTERISK", "GROUP_CLOSE_REP", "closeElement"), R("OR", "ELEMENT_NONE", "element4")},
   element4 |-> {Blank("ELEMENT_NONE", "element4"), R("NAME", "CONTENT_ELEMENT", "element5")},
   element5 |-> {Blank("ELEMENT_NONE", "element5"),
                 R("CLOSE_PAREN_ASTERISK", "GROUP_CLOSE_REP", "closeElement"), R("OR", "ELEMENT_NONE", "element4")},
   element6 |-> Particle \cup {Blank("ELEMENT_NONE", "element6"), R("OPEN_PAREN", "GROUP_OPEN", "element6")},
   element7 |-> {R("CLOSE_PAREN" \o q[1], "GROUP_CLOSE" \o q[2], "element7") : q \in Quantified} \cup
                {Blank("ELEMENT_NONE", "element7"), R("COMMA", "GROUP_SEQUENCE", "element6"),
                 R("OR", "GROUP_CHOICE", "element6")}]

(* Behind the last part of a declaration.                                  *)
Close(h, none) == {Blank(none, h), R("DECL_CLOSE", none, "internalSubset")}
CloseHandlers ==
  [closeEntity |-> Close("closeEntity", "ENTITY_NONE"), closeNotation |-> Close("closeNotation", "NOTATION_NONE"),
   closeElement |-> Close("closeElement", "ELEMENT_NONE")]

Handlers == PrologHandlers @@ DoctypeHandlers @@ EntityHandlers @@ NotationHandlers @@ AttlistHandlers
              @@ ElementHandlers @@ CloseHandlers

(* How deep in groups a content model is after a token.                    *)
Level(h, level, role) ==
  CASE h = "element1" /\ role = "GROUP_OPEN" -> 1
    [] h \in {"element2", "element6"} /\ role = "GROUP_OPEN" -> level + 1
    [] h = "element7" /\ role \in {"GROUP_CLOSE" \o q[2] : q \in Quantified} -> level - 1
    [] OTHER -> level

(* The word of a token: behind "<!", behind "#", or all of it.             *)
WordOf(tok, text) ==
  CASE tok = "DECL_OPEN"  -> SubSeq(text, 3, Len(text))
    [] tok = "POUND_NAME" -> SubSeq(text, 2, Len(text))
    [] OTHER              -> text

(* XmlTokenRole: the role of tok and the next state.  After an error, and  *)
(* after the first tag, every token has the role NONE.                     *)
Applying(h, tok, word) == {r \in Handlers[h] : r.tok = tok /\ (r.word = "" \/ Chars(r.word) = word)}
Taken(state, r, level) ==
  [role |-> r.role,
   state |-> [handler |-> IF state.handler = "element7" /\ r.next = "element7" /\ r.tok # "PROLOG_S" /\ level = 0
                          THEN "closeElement" ELSE r.next,
              level |-> level]]
RoleAmong(state, rules) ==
  IF rules = {} THEN [role |-> "ERROR", state |-> [state EXCEPT !.handler = "error"]]
  ELSE LET r == CHOOSE q \in rules : TRUE IN Taken(state, r, Level(state.handler, state.level, r.role))
TokenRole(state, tok, text) ==
  IF state.handler = "error" THEN [role |-> "NONE", state |-> state]
  ELSE RoleAmong(state, Applying(state.handler, tok, WordOf(tok, text)))
PrologStateInit == [handler |-> "prolog0", level |-> 0]
=============================================================================
