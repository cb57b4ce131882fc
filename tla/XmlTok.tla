------------------------------- MODULE XmlTok -------------------------------
(***************************************************************************)
(* The scanners of expat (expat/xmltok_impl.c) for the encoding that every *)
(* parser of the program has, UTF-8 without name spaces.  A text is a      *)
(* sequence of bytes: an ASCII byte is the string of its character, the    *)
(* others are "L2" (leads a letter of two bytes), "L3" (leads a sign of    *)
(* three), "EF", "BB", "BF" (a byte order mark) and "TR" (any trail).       *)
(* "CR" is a carriage return in the text of an entity: there the tables    *)
(* are those of iasciitab.h, for which it is a blank and ends no line.     *)
(*                                                                         *)
(* A scanner is a table: the states stand for the places in the C          *)
(* functions where the next byte is looked at, a rule is a case of the     *)
(* switch there.  The first rule whose set holds the byte applies; where   *)
(* none does the token is invalid, as in every default of the code.        *)
(***************************************************************************)
EXTENDS Integers, Sequences, FiniteSetsExt, SequencesExt, TLC

Chars(s) == [i \in 1..Len(s) |-> SubSeq(s, i, i)]
SetOf(s) == {SubSeq(s, i, i) : i \in 1..Len(s)}
Text(s) == Chars(s)

(* Bytes and characters (asciitab.h, utf8tab.h).  A character of several   *)
(* bytes is "letter" or "sign" when it is whole, "cut" when the text ends  *)
(* in it, "bad" when a byte that follows is no trail.                      *)
Trails == {"TR", "BB", "BF"}
LeadLen == ("L2" :> 2) @@ ("L3" :> 3) @@ ("EF" :> 3)
Hex == SetOf("abcdefABCDEF")
Digit == SetOf("0123456789")
NmStrt == SetOf("ghijklmnopqrstuvwxyzGHIJKLMNOPQRSTUVWXYZ_:") \cup Hex
NameStart == NmStrt \cup {"letter"}
NameChar == NameStart \cup Digit \cup SetOf(".-")
White == SetOf(" \t\r\n") \cup {"CR"}
Quote == SetOf("\"'")
Signs == SetOf("<>&!?/=;#%()[]|,+*$@^~{}")
Broken == {"bad", "trail"}
Default == {"any"}

CharAt(x, p, e) ==
  IF x[p] \in DOMAIN LeadLen
  THEN LET n == LeadLen[x[p]] IN
       [len |-> n,
        kind |-> IF e - p < n THEN "cut"
                 ELSE IF \E i \in p + 1..p + n - 1 : x[i] \notin Trails THEN "bad"
                 ELSE IF n = 2 THEN "letter" ELSE "sign"]
  ELSE [len |-> 1, kind |-> IF x[p] \in Trails THEN "trail" ELSE x[p]]

(* What a rule does: read the character and go on in another state, go on  *)
(* there without reading, or end the token behind the character, before    *)
(* it, or one byte before it.                                              *)
Go(set, q) == <<set, "go", q>>
Stay(set, q) == <<set, "stay", q>>
Tok(set, t) == <<set, "tok", t>>
At(set, t) == <<set, "at", t>>
Back(set, t) == <<set, "back", t>>
Cut == At({"cut"}, "PARTIAL_CHAR")
Invalid == At(Broken, "INVALID")

(* <!-- -->; p is behind "<!-" in com0.                                    *)
CommentRules ==
  [com0 |-> <<Go({"-"}, "com")>>,
   com  |-> <<Cut, Invalid, Go({"-"}, "com1"), Go(Default, "com")>>,
   com1 |-> <<Go({"-"}, "com2"), Stay(Default, "com")>>,
   com2 |-> <<Tok({">"}, "COMMENT")>>]

(* Declarations, behind "<!".                                              *)
DeclRules ==
  [decl  |-> <<Go({"-"}, "com0"), Tok({"["}, "COND_SECT_OPEN"), Go(NmStrt, "decln")>>,
   decln |-> <<Go({"%"}, "declp"), At(White, "DECL_OPEN"), Go(NmStrt, "decln")>>,
   declp |-> <<At(White \cup {"%"}, "INVALID"), Back(Default, "DECL_OPEN")>>]

(* Processing instructions, behind "<?".  The states from pi to pixml      *)
(* follow how much of "xml" the target has been so far: a target that is   *)
(* "xml" in other letters is not allowed.                                  *)
PiBody(tok, name) ==
  (name :> <<Cut, Invalid, Go({"?"}, name \o "q"), Go(Default, name)>>)
    @@ (name \o "q" :> <<Tok({">"}, tok), Stay(Default, name)>>)
    @@ (name \o "end" :> <<Tok({">"}, tok)>>)
PiTarget(exact, other, exactNext, otherNext) ==
  <<Cut, Go(exact, exactNext), Go(other, otherNext), Go(NameChar, "pin"),
    Go(White, "body"), Go({"?"}, "bodyend")>>
PiRules ==
  [pi    |-> <<Cut, Go({"x"}, "pix"), Go({"X"}, "piX"), Go(NameStart, "pin")>>,
   pin   |-> <<Cut, Go(NameChar, "pin"), Go(White, "body"), Go({"?"}, "bodyend")>>,
   pix   |-> PiTarget({"m"}, {"M"}, "pixm", "piXM"),
   piX   |-> PiTarget({}, {"m", "M"}, "pin", "piXM"),
   pixm  |-> PiTarget({"l"}, {"L"}, "pixml", "piXML"),
   piXM  |-> PiTarget({}, {"l", "L"}, "pin", "piXML"),
   pixml |-> <<Cut, Go(NameChar, "pin"), Go(White, "xdecl"), Go({"?"}, "xdeclend")>>,
   piXML |-> <<Cut, Go(NameChar, "pin")>>]
    @@ PiBody("PI", "body") @@ PiBody("XML_DECL", "xdecl")

(* What stands in a CDATA section.                                         *)
CdataRules ==
  [cdata   |-> <<Cut, Invalid, Go({"]"}, "cdata1"), Go({"\r"}, "cdatacr"),
                 Tok({"\n"}, "DATA_NEWLINE"), Go(Default, "cdatas")>>,
   cdata1  |-> <<Go({"]"}, "cdata2"), Stay(Default, "cdatas")>>,
   cdata2  |-> <<Tok({">"}, "CDATA_SECT_CLOSE"), Back(Default, "DATA_CHARS")>>,
   cdatacr |-> <<Tok({"\n"}, "DATA_NEWLINE"), At(Default, "DATA_NEWLINE")>>,
   cdatas  |-> <<At(Broken \cup {"cut", "\r", "\n", "]"}, "DATA_CHARS"), Go(Default, "cdatas")>>]

EndTagRules ==
  [end  |-> <<Cut, Go(NameStart, "endn")>>,
   endn |-> <<Cut, Go(NameChar, "endn"), Go(White, "ends"), Tok({">"}, "END_TAG")>>,
   ends |-> <<Go(White, "ends"), Tok({">"}, "END_TAG")>>]

(* References, behind "&": as tokens, and within the value of an attribute *)
(* of a tag, where scanning goes on in the state back.                     *)
RefRules(ref, back) ==
  LET Done(t) == IF back = "" THEN Tok({";"}, t) ELSE Go({";"}, back)
  IN (ref :> <<Cut, Go(NameStart, ref \o "n"), Go({"#"}, ref \o "c")>>)
       @@ (ref \o "n" :> <<Cut, Go(NameChar, ref \o "n"), Done("ENTITY_REF")>>)
       @@ (ref \o "c" :> <<Go({"x"}, ref \o "h"), Go(Digit, ref \o "d")>>)
       @@ (ref \o "d" :> <<Go(Digit, ref \o "d"), Done("CHAR_REF")>>)
       @@ (ref \o "h" :> <<Go(Digit \cup Hex, ref \o "x")>>)
       @@ (ref \o "x" :> <<Go(Digit \cup Hex, ref \o "x"), Done("CHAR_REF")>>)

(* The attributes of a tag, from the name of the first one on.             *)
InTag == <<Cut, Go(NameStart, "att"), Go(White, "tags"), Tok({">"}, "START_TAG"), Go({"/"}, "tage")>>
ValueRules(q, val) ==
  (val :> <<Go({q}, "valend"), Cut, Invalid, Go({"&"}, val \o "r"), At({"<"}, "INVALID"),
            Go(Default, val)>>) @@ RefRules(val \o "r", val)
AttsRules ==
  [att    |-> <<Cut, Go(NameChar, "att"), Go(White, "atts"), Go({"="}, "eq")>>,
   atts   |-> <<Go({"="}, "eq"), Go(White, "atts")>>,
   eq     |-> <<Go({"\""}, "val1"), Go({"'"}, "val2"), Go(White, "eq")>>,
   valend |-> <<Go(White, "tags"), Go({"/"}, "tage"), Tok({">"}, "START_TAG")>>,
   tage   |-> <<Tok({">"}, "EMPTY_ELEMENT")>>]
    @@ ValueRules("\"", "val1") @@ ValueRules("'", "val2")

(* Behind "<" in content.                                                  *)
LtRules ==
  [lt   |-> <<Cut, Go(NameStart, "tag"), Go({"!"}, "ltx"), Go({"?"}, "pi"), Go({"/"}, "end")>>,
   ltx  |-> <<Go({"-"}, "com0"), Go({"["}, "cdataopen")>>,
   tag  |-> <<Cut, Go(NameChar, "tag"), Go(White, "tags"), Tok({">"}, "START_TAG"), Go({"/"}, "tage")>>,
   tags |-> InTag]

(* Content.  The data ends before what could be the end of a CDATA section *)
(* when the text does: "]]>" is not allowed in it.                         *)
ContentRules ==
  [content |-> <<Go({"<"}, "lt"), Go({"&"}, "ref"), Go({"\r"}, "cr"), Tok({"\n"}, "DATA_NEWLINE"),
                 Go({"]"}, "rsqb"), Cut, Invalid, Go(Default, "data")>>,
   cr      |-> <<Tok({"\n"}, "DATA_NEWLINE"), At(Default, "DATA_NEWLINE")>>,
   rsqb    |-> <<Go({"]"}, "rsqb2"), Stay(Default, "data")>>,
   rsqb2   |-> <<At({">"}, "INVALID"), Go({"]"}, "data2"), Stay(Default, "data")>>,
   data    |-> <<At(Broken \cup {"cut", "<", "&", "\r", "\n"}, "DATA_CHARS"),
                 Go({"]"}, "data1"), Go(Default, "data")>>,
   data1   |-> <<Go({"]"}, "data2"), Stay(Default, "data")>>,
   data2   |-> <<At({">"}, "INVALID"), Go({"]"}, "data2"), Stay(Default, "data")>>]
    @@ RefRules("ref", "")

(* The prolog: parameter entities, names behind "#", literals.             *)
PercentRules ==
  [pct  |-> <<Cut, Go(NameStart, "pctn"), At(White \cup {"%"}, "PERCENT")>>,
   pctn |-> <<Cut, Go(NameChar, "pctn"), Tok({";"}, "PARAM_ENTITY_REF")>>]
PoundRules ==
  [pound  |-> <<Cut, Go(NameStart, "poundn")>>,
   poundn |-> <<Cut, Go(NameChar, "poundn"), At(White \cup SetOf(")>%|"), "POUND_NAME")>>]
LiteralRules ==
  [lit1   |-> <<Cut, Invalid, Go({"\""}, "litend"), Go(Default, "lit1")>>,
   lit2   |-> <<Cut, Invalid, Go({"'"}, "litend"), Go(Default, "lit2")>>,
   litend |-> <<At(White \cup SetOf(">%["), "LITERAL")>>]

(* The prolog's tokens that begin with a sign, and white space, of which a *)
(* last carriage return is left for the next piece of text.                *)
PrologRules ==
  [prolog |-> <<Go({"\""}, "lit1"), Go({"'"}, "lit2"), Go({"<"}, "plt"), Go({"\r"}, "pcr"),
                Go(White, "ps"), Go({"%"}, "pct"), Tok({","}, "COMMA"), Tok({"["}, "OPEN_BRACKET"),
                Go({"]"}, "prsqb"), Tok({"("}, "OPEN_PAREN"), Go({")"}, "prpar"), Tok({"|"}, "OR"),
                Tok({">"}, "DECL_CLOSE"), Go({"#"}, "pound"), Cut, Go(NameStart, "pname"),
                Go(NameChar, "pnmtoken")>>,
   plt    |-> <<Go({"!"}, "decl"), Go({"?"}, "pi"),
                Back(NameStart \cup {"sign", "bad", "cut"}, "INSTANCE_START")>>,
   pcr    |-> <<Stay(Default, "ps")>>,
   ps     |-> <<Go({"\r"}, "pscr"), Go(White, "ps"), At(Default, "PROLOG_S")>>,
   pscr   |-> <<Stay(Default, "ps")>>,
   prsqb  |-> <<Go({"]"}, "prsqb2"), At(Default, "CLOSE_BRACKET")>>,
   prsqb2 |-> <<Tok({">"}, "COND_SECT_CLOSE"), Back(Default, "CLOSE_BRACKET")>>,
   prpar  |-> <<Tok({"*"}, "CLOSE_PAREN_ASTERISK"), Tok({"?"}, "CLOSE_PAREN_QUESTION"),
                Tok({"+"}, "CLOSE_PAREN_PLUS"), At(White \cup SetOf(">,|)"), "CLOSE_PAREN")>>]

(* Names and name tokens of the prolog.                                    *)
AfterName == White \cup SetOf(">),|[%")
PrologNameRules ==
  [pname    |-> <<Cut, Go(NameChar, "pname"), At(AfterName, "NAME"), Tok({"+"}, "NAME_PLUS"),
                  Tok({"*"}, "NAME_ASTERISK"), Tok({"?"}, "NAME_QUESTION")>>,
   pnmtoken |-> <<Cut, Go(NameChar, "pnmtoken"), At(AfterName, "NMTOKEN")>>]

(* The values of attributes and of entities, taken apart.                  *)
AttributeValueRules ==
  [attval |-> <<Go({"&"}, "ref"), At({"<"}, "INVALID"), Tok({"\n"}, "DATA_NEWLINE"), Go({"\r"}, "cr"),
                Tok(White, "ATTRIBUTE_VALUE_S"), Go(Default, "attvals")>>,
   attvals |-> <<At(White \cup {"&"}, "DATA_CHARS"), At({"<"}, "INVALID"), Go(Default, "attvals")>>]
EntityValueRules ==
  [entval |-> <<Go({"&"}, "ref"), Go({"%"}, "entpct"), Tok({"\n"}, "DATA_NEWLINE"), Go({"\r"}, "cr"),
                Go(Default, "entvals")>>,
   entvals |-> <<At(SetOf("&%\r\n"), "DATA_CHARS"), Go(Default, "entvals")>>,
   entpct |-> <<Cut, Go(NameStart, "pctn")>>]

Rules == CommentRules @@ DeclRules @@ PiRules @@ CdataRules @@ EndTagRules @@ AttsRules @@ LtRules
           @@ ContentRules @@ PercentRules @@ PoundRules @@ LiteralRules @@ PrologRules
           @@ PrologNameRules @@ AttributeValueRules @@ EntityValueRules

(* Where the text ends: the token may be whole but longer in a longer text *)
(* (open; the code returns its negative), some bytes may be given back,    *)
(* and everywhere else the token is partial.                               *)
Whole(t, back) == [tok |-> t, back |-> back, open |-> FALSE]
Open(t) == [tok |-> t, back |-> 0, open |-> TRUE]
Ends ==
  [content |-> Whole("NONE", 0), cdata |-> Whole("NONE", 0), prolog |-> Whole("NONE", 0),
   attval |-> Whole("NONE", 0), entval |-> Whole("NONE", 0),
   cr |-> Whole("TRAILING_CR", 0), rsqb |-> Whole("TRAILING_RSQB", 0), rsqb2 |-> Whole("TRAILING_RSQB", 0),
   data |-> Whole("DATA_CHARS", 0), data1 |-> Whole("DATA_CHARS", 1), data2 |-> Whole("DATA_CHARS", 2),
   cdatas |-> Whole("DATA_CHARS", 0), attvals |-> Whole("DATA_CHARS", 0), entvals |-> Whole("DATA_CHARS", 0),
   ps |-> Whole("PROLOG_S", 0), pscr |-> Whole("PROLOG_S", 1), pcr |-> Open("PROLOG_S"),
   prsqb |-> Open("CLOSE_BRACKET"), prpar |-> Open("CLOSE_PAREN"), pct |-> Open("PERCENT"),
   entpct |-> Open("PERCENT"), poundn |-> Open("POUND_NAME"), litend |-> Open("LITERAL"),
   pname |-> Open("NAME"), pnmtoken |-> Open("NMTOKEN")]
EndOf(q) == IF q \in DOMAIN Ends THEN Ends[q] ELSE Whole("PARTIAL", 0)

(* The first rule of a state that applies to a character.                 *)
Applies(rule, c) == rule[1] = Default \/ c \in rule[1]
RuleFor(rules, c) ==
  LET hits == {i \in DOMAIN rules : Applies(rules[i], c)}
  IN IF hits = {} THEN At({}, "INVALID") ELSE rules[Min(hits)]

Found(t, next) == [tok |-> t, next |-> next, open |-> FALSE]

(* "CDATA[" is compared only once all of it is there.                      *)
ScanCdataOpen(x, p, e) ==
  IF e - p < 6 THEN Found("PARTIAL", e)
  ELSE IF SubSeq(x, p, p + 5) = Text("CDATA[") THEN Found("CDATA_SECT_OPEN", p + 6)
  ELSE Found("INVALID", p)

EndsWith(end, e) == [tok |-> end.tok, next |-> e - end.back, open |-> end.open]
RECURSIVE Scan(_, _, _, _), Apply(_, _, _, _, _)
Scan(q, x, p, e) ==
  IF q = "cdataopen" THEN ScanCdataOpen(x, p, e)
  ELSE IF p = e THEN EndsWith(EndOf(q), e)
  ELSE Apply(RuleFor(Rules[q], CharAt(x, p, e).kind), x, p, CharAt(x, p, e).len, e)
Apply(r, x, p, len, e) ==
  CASE r[2] = "go"   -> Scan(r[3], x, p + len, e)
    [] r[2] = "stay" -> Scan(r[3], x, p, e)
    [] r[2] = "tok"  -> Found(r[3], p + len)
    [] r[2] = "at"   -> Found(r[3], p)
    [] r[2] = "back" -> Found(r[3], p - 1)

(* The scanners the parser calls, on the bytes of x from p up to e.        *)
ContentTok(x, p, e) == Scan("content", x, p, e)
CdataSectionTok(x, p, e) == Scan("cdata", x, p, e)
PrologTok(x, p, e) == Scan("prolog", x, p, e)
AttributeValueTok(x, p, e) == Scan("attval", x, p, e)
EntityValueTok(x, p, e) == Scan("entval", x, p, e)

(* The first token of a document: a byte order mark, or what the prolog    *)
(* has, once enough is there to tell.                                      *)
Undecided(x, p, e) ==
  \/ p + 1 = e /\ x[p] \in {"EF", "<"}
  \/ p + 2 = e /\ SubSeq(x, p, p + 1) = <<"EF", "BB">>
InitScan(x, p, e) ==
  CASE p = e -> Found("NONE", p)
    [] Undecided(x, p, e) -> Found("PARTIAL", p)
    [] p + 2 < e /\ SubSeq(x, p, p + 2) = <<"EF", "BB", "BF">> -> Found("BOM", p + 3)
    [] OTHER -> PrologTok(x, p, e)

(***************************************************************************)
(* What is read out of a token that has been found.                        *)
(***************************************************************************)
Span(x, p, e) == SubSeq(x, p, e - 1)

(* The end of the name at p.                                               *)
NameEnd(x, p) ==
  Min({i \in p..Len(x) + 1 : i = Len(x) + 1 \/ x[i] \notin NameChar \cup DOMAIN LeadLen \cup Trails})
NameAt(x, p) == Span(x, p, NameEnd(x, p))

SkipSpace(x, p) == Min({i \in p..Len(x) + 1 : i = Len(x) + 1 \/ x[i] \notin White})
FindByte(x, p, set) == Min({i \in p..Len(x) + 1 : i = Len(x) + 1 \/ x[i] \in set})

(* A value needs no normalisation when it has no reference and no white    *)
(* space but single blanks inside.                                         *)
Normalized(v) ==
  /\ \A i \in DOMAIN v : v[i] # "&" /\ v[i] \notin White \ {" "}
  /\ \A i \in DOMAIN v : v[i] = " " => 1 < i /\ i < Len(v) /\ v[i + 1] # " "

(* The attributes of the tag x, which is whole and well formed.            *)
RECURSIVE AttsFrom(_, _)
AttsFrom(x, p) ==
  LET s == SkipSpace(x, p) IN
  IF x[s] \in SetOf("/>") THEN <<>>
  ELSE LET open == FindByte(x, s, Quote)
           close == FindByte(x, open + 1, {x[open]})
           val == Span(x, open + 1, close)
       IN <<[name |-> NameAt(x, s), val |-> val, normalized |-> Normalized(val)]>> \o AttsFrom(x, close + 1)
GetAtts(x) == AttsFrom(x, NameEnd(x, 2))

PredefinedEntityName(name) ==
  CASE name = Text("lt")   -> "<"
    [] name = Text("gt")   -> ">"
    [] name = Text("amp")  -> "&"
    [] name = Text("quot") -> "\""
    [] name = Text("apos") -> "'"
    [] OTHER               -> ""

(* The number of a character reference (x is all of it), or -1.            *)
MaxChar == 1114112
DigitValue(c) ==
  LET ds == Chars("0123456789abcdef")
      caps == Chars("0123456789ABCDEF")
  IN CHOOSE n \in 0..15 : ds[n + 1] = c \/ caps[n + 1] = c
RECURSIVE Number(_, _, _)
Number(ds, base, n) ==
  IF n >= MaxChar THEN -1
  ELSE IF ds = <<>> THEN n
  ELSE Number(Tail(ds), base, n * base + DigitValue(Head(ds)))
CheckCharRefNumber(n) ==
  IF (n \div 256) \in 216..223 \/ n \in {65534, 65535} \/ (n < 32 /\ n \notin {9, 10, 13}) THEN -1 ELSE n
CharRefNumber(x) ==
  CheckCharRefNumber(IF x[3] = "x" THEN Number(Span(x, 4, Len(x)), 16, 0)
                     ELSE Number(Span(x, 3, Len(x)), 10, 0))

(* The bytes of a character, as far as the texts here tell them apart.     *)
Printable == Chars(" !\"#$%&'()*+,-./0123456789:;<=>?@ABCDEFGHIJKLMNOPQRSTUVWXYZ")
Utf8Encode(n) ==
  CASE n = 9  -> <<"\t">>
    [] n = 10 -> <<"\n">>
    [] n = 13 -> <<"\r">>
    [] n \in 32..90 -> <<Printable[n - 31]>>
    [] n \in 128..2047 -> <<"L2", "TR">>
    [] n \in 2048..65535 -> <<"L3", "TR", "TR">>
    [] OTHER -> <<"~">>

IsPublicId(lit) ==
  \A i \in 2..Len(lit) - 1 :
    lit[i] \in (NmStrt \cup Digit \cup SetOf("-.'()+,/=?\r\n;!*%#$@ "))

(***************************************************************************)
(* The XML declaration x, which is whole: a version, then maybe an         *)
(* encoding, then maybe whether the document stands alone.                 *)
(***************************************************************************)
Letter == SetOf("abcdefghijklmnopqrstuvwxyzABCDEFGHIJKLMNOPQRSTUVWXYZ")

(* One name="value" from p, behind white space: none when only white space *)
(* is left, bad when it is something else.                                 *)
PseudoAttribute(x, p, e) ==
  LET s == Min({SkipSpace(x, p), e})
      n == Min({FindByte(x, s, White \cup {"="}), e})
      eq == Min({SkipSpace(x, n), e})
      q == Min({SkipSpace(x, eq + 1), e})
      close == Min({FindByte(x, q + 1, {x[q]}), e})
      val == Span(x, q + 1, close)
  IN CASE p = e -> [kind |-> "none"]
       [] p < e /\ x[p] \notin White -> [kind |-> "bad"]
       [] p < e /\ s = e -> [kind |-> "none"]
       [] p < e /\ s < e /\ ( \/ n = s \/ eq = e \/ x[eq] # "=" \/ q = e \/ x[q] \notin Quote \/ close = e
                             \/ ~ ToSet(val) \subseteq Letter \cup Digit \cup SetOf("._-"))
            -> [kind |-> "bad"]
       [] OTHER -> [kind |-> "att", name |-> Span(x, s, n), val |-> val, next |-> close + 1]

(* The declaration from the attribute a on, which may be the last one, one *)
(* behind the version, or the first.                                       *)
Standalone(a, x, e) ==
  CASE a.kind = "none" -> "unknown"
    [] a.kind = "att" /\ a.name = Text("standalone")
         /\ a.val \in {Text("yes"), Text("no")} /\ SkipSpace(x, a.next) >= e
         -> IF a.val = Text("yes") THEN "yes" ELSE "no"
    [] OTHER -> "bad"
AfterVersion(a, x, e) ==
  IF a.kind = "att" /\ a.name = Text("encoding")
  THEN IF a.val = <<>> \/ Head(a.val) \notin Letter THEN "bad" ELSE Standalone(PseudoAttribute(x, a.next, e), x, e)
  ELSE Standalone(a, x, e)
Version(a, x, e) ==
  IF a.kind # "att" THEN "bad"
  ELSE IF a.name # Text("version") THEN "bad" ELSE AfterVersion(PseudoAttribute(x, a.next, e), x, e)
ParseXmlDecl(x) == Version(PseudoAttribute(x, 6, Len(x) - 1), x, Len(x) - 1)
=============================================================================
