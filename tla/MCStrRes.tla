------------------------------ MODULE MCStrRes ------------------------------
(***************************************************************************)
(* Documents for the parser: a prolog, the element <s> with up to two      *)
(* pieces in it, and what comes behind; and string resources.  A piece is a text with the events *)
(* it means; a wrong one also has the error that it is.                    *)
(***************************************************************************)
EXTENDS StrRes

Txt(s) == <<"text", Text(s)>>
St(name) == <<"start", Text(name), <<>>>>
StA(name, atts) == <<"start", Text(name), [i \in DOMAIN atts |-> <<Text(atts[i][1]), Text(atts[i][2])>>]>>
En(name) == <<"end", Text(name)>>
Skip(name) == <<"skipped", Text(name)>>
Elem(name, s) == <<St(name), Txt(s), En(name)>>
Good(s, events) == [text |-> Text(s), events |-> events, error |-> "ok"]
Raw(bytes, events) == [text |-> bytes, events |-> events, error |-> "ok"]
Bad(s, events, error) == [text |-> Text(s), events |-> events, error |-> error]

(* Pieces of content that mean the same whatever was declared.             *)
Pieces ==
  { Good("<a>xy</a>", Elem("a", "xy")), Good("<b></b>", <<St("b"), En("b")>>),
    Good("t", <<Txt("t")>>), Good("]] ", <<Txt("]] ")>>), Good("]", <<Txt("]")>>),
    Good("\r\n\r", <<Txt("\n\n")>>), Good("&#65;&#x0a;&lt;", <<Txt("A\n<")>>),
    Good("<abc k='v'  j=\"&amp;&#32; ]\" />", <<StA("abc", <<<<"k", "v">>, <<"j", "&  ]">>>>), En("abc")>>),
    Good("<![CDATA[<a>\r]]]>", <<Txt("<a>\n]")>>), Good("<!--<a>- --><?pi a??>", <<>>),
    Good("<a><b>x</b>y</a\n>", <<St("a"), St("b"), Txt("x"), En("b"), Txt("y"), En("a")>>),
    Good("<a>x&#33;y<!---->zw</a>", Elem("a", "x!yzw")),
    Good("<abcd>x</abcd>", Elem("abcd", "x")),
    Raw(<<"<", "L2", "TR", ">", "L3", "TR", "BF", "<", "/", "L2", "TR", ">">>,
        <<<<"start", <<"L2", "TR">>, <<>>>>, <<"text", <<"L3", "TR", "BF">>>>, <<"end", <<"L2", "TR">>>>>>) }

(* Pieces that are wrong everywhere.                                       *)
WrongPieces ==
  { Bad("]]>", <<Txt("]]")>>, "INVALID_TOKEN"), Bad("</b>", <<>>, "TAG_MISMATCH"),
    Bad("<ab>x</abc>", <<St("ab"), Txt("x")>>, "TAG_MISMATCH"), Bad("<a k='1' k='2'></a>", <<>>, "DUPLICATE_ATTRIBUTE"),
    Bad("&#0;", <<>>, "BAD_CHAR_REF"), Bad("<a k='&#x110000;'/>", <<>>, "BAD_CHAR_REF"),
    Bad("<?xml version='1.0'?>", <<>>, "MISPLACED_XML_PI"), Bad("<a k='<'/>", <<>>, "INVALID_TOKEN"),
    Bad("<?XML ?>", <<>>, "INVALID_TOKEN"), Bad("<![cdata[x]]>", <<>>, "INVALID_TOKEN"),
    [Raw(<<"TR">>, <<>>) EXCEPT !.error = "INVALID_TOKEN"],
    [Raw(<<"<", "!", "[", "C", "D", "A", "T", "A", "[", "L2", "x">>, <<>>) EXCEPT !.error = "INVALID_TOKEN"] }

(* Prologs, with the pieces that show what they are for.                   *)
Setting(prolog, pieces) == [prolog |-> prolog, pieces |-> pieces, error |-> "ok"]
Unknown == Good("&u;", <<Skip("u")>>)
Settings ==
  { Setting(<<"EF", "BB", "BF">> \o Text("<!--") \o <<"L2", "TR">> \o Text("-->"), {Unknown}),
    Setting(Text("<?xml version='1.0' encoding=\"UTF-8\"?>\r\n <!--c--> <?pi?>"), {Unknown}),
    Setting(Text("<?xml version = '1.0' standalone='yes'?>"), {Bad("&u;", <<>>, "UNDEFINED_ENTITY")}),
    Setting(Text("<!DOCTYPE s[<!ENTITY e \"x<b>y</b>&#38;lt;\"><!ENTITY f '&e;&#13;]'><!ENTITY g \"&h;\"><!ENTITY h \"&g;\"><!ENTITY o \"<b>\"><!ENTITY c '</s>'><!ENTITY e \"2\"><!ENTITY lt '2'><!ENTITY i 'p\tq'><!ENTITY j '&#38;l'><!ENTITY k '&#13;'>]>"),
      { Good("&e;", <<Txt("x"), St("b"), Txt("y"), En("b"), Txt("<")>>),
        Good("&f;", <<Txt("x"), St("b"), Txt("y"), En("b"), Txt("<\r]")>>),
        Good("<a k='&i;&lt;'>&i;</a>", <<StA("a", <<<<"k", "p q<">>>>), Txt("p\tq"), En("a")>>),
        Good("&k;", <<Txt("\r")>>), Good("<a k='&k;x'/>", <<StA("a", <<<<"k", " x">>>>), En("a")>>), Bad("<a k='&f;'/>", <<>>, "INVALID_TOKEN"), Bad("<a>&o;</a>", <<St("a"), St("b")>>, "ASYNC_ENTITY"),
        Bad("&g;", <<>>, "RECURSIVE_ENTITY_REF"), Bad("<a k='&g;'/>", <<>>, "RECURSIVE_ENTITY_REF"),
        Bad("&c;", <<>>, "ASYNC_ENTITY"), Bad("&j;", <<>>, "UNCLOSED_TOKEN"), Unknown }),
    Setting(Text("<!DOCTYPE s [ <!ATTLIST a k NMTOKENS ' u  v ' l CDATA #IMPLIED m ID #REQUIRED n (x|y) 'x'><!ATTLIST a k CDATA 'z' o CDATA #FIXED '&#65;' p NOTATION (n|o) #IMPLIED>] >\n"),
      { Good("<a/>", <<StA("a", <<<<"k", "u v">>, <<"n", "x">>, <<"o", "A">>>>), En("a")>>),
        Good("<a k=' p  q&#32;' n='y'></a>", <<StA("a", <<<<"k", "p q">>, <<"n", "y">>, <<"o", "A">>>>), En("a")>>),
        Good("<b k=' p '/>", <<StA("b", <<<<"k", " p ">>>>), En("b")>>) }),
    Setting(Text("<!DOCTYPE s SYSTEM \"d\" [%p;<!ENTITY e 'x'><!ATTLIST a k CDATA 'z'>]>"),
      { Good("&e;", <<Skip("e")>>), Good("<a k='v&e;'/>", <<StA("a", <<<<"k", "v">>>>), En("a")>>) }),
    Setting(Text("<?xml version='1.0' standalone='yes'?><!DOCTYPE s [%p;<!ENTITY e 'x'>]>"), { Good("&e;", <<Txt("x")>>) }),
    Setting(Text("<!DOCTYPE s PUBLIC 'i' \"d\" [<!ELEMENT s (#PCDATA|a)*><!ELEMENT a ((b , c)?|d+)><!ELEMENT b EMPTY><!NOTATION n PUBLIC \"x\"><!NOTATION n SYSTEM 'x'><!ENTITY u SYSTEM \"u\" NDATA n><!ENTITY v PUBLIC \"v\" \"v\"><!ENTITY % p 'x'><!ENTITY % q SYSTEM 'x'><!-- c --><?p?>]>"),
      { Bad("&u;", <<>>, "BINARY_ENTITY_REF"), Good("&v;", <<>>),
        Bad("<a k='&v;'/>", <<>>, "ATTRIBUTE_EXTERNAL_ENTITY_REF") }) }

(* Prologs that are wrong themselves.                                      *)
WrongProlog(s, error) == [prolog |-> Text(s), pieces |-> {}, error |-> error]
WrongSettings ==
  { WrongProlog("<!DOCTYPE s [<!ELEMENT a (b,c|d)>]>", "SYNTAX"), WrongProlog("<?xml versio='1'?>", "XML_DECL"),
    WrongProlog(" <?xml version='1.0'?>", "MISPLACED_XML_PI"), WrongProlog("<!DOCTYPE s [<!ENTITY e '%p;'>]>", "PARAM_ENTITY_REF"),
    WrongProlog("<!DOCTYPE s [<!ENTITY e %p; 'x'>]>", "PARAM_ENTITY_REF"), WrongProlog("<!DOCTYPE s PUBLIC '{' 'd'>", "PUBLICID"),
    WrongProlog("<!DOCTYPE s [<!NOTATION n PUBLIC '{'>]>", "PUBLICID"), WrongProlog("<!DOCTYPE s [<!ATTLIST a k CDATA '&u;'>]>", "UNDEFINED_ENTITY"),
    WrongProlog("<!DOCTYPE s [<!ENTITY e '&#0;'>]>", "BAD_CHAR_REF"), WrongProlog("<!DOCTYPE s [<!ENTITY e '%'>]>", "UNEXPECTED_STATE"),
    WrongProlog("<!DOCTYPE s [<!ATTLIST a (b) 'c'>]>", "SYNTAX"), WrongProlog("x", "INVALID_TOKEN") }

(* The events of pieces up to the first that is wrong, texts joined.       *)
Together(pieces) ==
  LET wrong == Min({Len(pieces) + 1} \cup {i \in DOMAIN pieces : pieces[i].error # "ok"})
      all == FlattenSeq([i \in 1..Min({wrong, Len(pieces)}) |-> pieces[i].events])
  IN [text |-> FlattenSeq([i \in DOMAIN pieces |-> pieces[i].text]),
      meaning |-> JoinedAll(<<>>, all),
      verdict |-> IF wrong > Len(pieces) THEN "ok" ELSE pieces[wrong].error]

Epilogs == {Good("", <<>>), Good("\r", <<>>), Good(" \n<!--c--><?pi?>\r", <<>>)}
WrongEpilogs ==
  {Bad("x", <<>>, "JUNK_AFTER_DOC_ELEMENT"), Bad("<a/>", <<>>, "JUNK_AFTER_DOC_ELEMENT"),
   Bad(" <!-", <<>>, "UNCLOSED_TOKEN"), Bad("&", <<>>, "INVALID_TOKEN")}
DocumentOf(root, set, pieces, epilog) ==
  Together(<<[text |-> set.prolog, events |-> <<>>, error |-> set.error], Good("<" \o root \o ">", <<St(root)>>)>>
             \o pieces \o <<Good("</" \o root \o ">", <<En(root)>>), epilog>>)
Document(set, pieces, epilog) == DocumentOf("s", set, pieces, epilog)
Plainly == Setting(<<>>, {})
NoEpilog == Good("", <<>>)

(* The beginnings of a document, as long as they are not the whole.        *)
CutsOf(d) == {[d EXCEPT !.text = SubSeq(d.text, 1, n), !.verdict = "cut"] : n \in 0..Len(d.text) - 1}

ShortDocs ==
  {Document(Plainly, <<x, y>>, NoEpilog) : x \in Pieces, y \in Pieces \cup WrongPieces}
    \cup {Document(Plainly, <<Unknown, x>>, e) : x \in Pieces, e \in Epilogs}
    \cup {Document(Plainly, <<>>, e) : e \in Epilogs \cup WrongEpilogs}
DeclaringDocs ==
  UNION {{Document(set, <<x, y>>, NoEpilog) : x \in set.pieces, y \in set.pieces} : set \in Settings}
    \cup UNION {{Document(set, <<x>>, NoEpilog) : x \in set.pieces} : set \in Settings}
    \cup {Document(set, <<>>, NoEpilog) : set \in WrongSettings}
CutDocs ==
  UNION {CutsOf(d) : d \in {Document(Plainly, <<x, Good("t", <<Txt("t")>>)>>, NoEpilog) : x \in Pieces}
                             \cup {Document(set, <<>>, NoEpilog) : set \in Settings}}

(* strings.xml: three strings, each on a line of its own.                  *)
Line(piece) == <<Good("\r\n ", <<Txt("\n ")>>), piece>>
Resources ==
  { Good("<a>xy</a>", Elem("a", "xy")), Good("<b>z</b>", Elem("b", "z")), Good("<b></b>", <<St("b"), En("b")>>),
    Good("<abcd>x&amp;y</abcd>", Elem("abcd", "x&y")), Good("<abce>vwxyz</abce>", Elem("abce", "vwxyz")),
    Good("<a>x<b>y</b>z</a>", <<St("a"), Txt("x"), St("b"), Txt("y"), En("b"), Txt("z"), En("a")>>),
    Good("<a>x<strings>y</strings></a>", <<St("a"), Txt("x"), St("strings"), Txt("y"), En("strings"), En("a")>>) }
ResourceDocs ==
  {DocumentOf("strings", Plainly, Line(x) \o Line(y) \o Line(z), Good("\n", <<>>)) :
     x \in {Good("<c>u</c>", Elem("c", "u"))}, y \in Resources, z \in Resources}

MCDocs == ResourceDocs \cup ShortDocs \cup DeclaringDocs \cup CutDocs
=============================================================================
