------------------------------ MODULE XmlParse ------------------------------
(***************************************************************************)
(* Reading a document: the loop of xjse_parse_xmlfile, which gives a file  *)
(* to the parser unit by unit, and the parser (expat/xmlparse.c), which    *)
(* keeps what it cannot use yet and calls the program's handlers.          *)
(*                                                                         *)
(* Every call of XML_Parse is the step Read, then one step for each token, *)
(* then the step that ends the call: the token that needs more text, the   *)
(* end of the document or an error, which the step Report reports.  In the *)
(* code the unit, the least size of the buffer and the context that is     *)
(* kept in it are all 1024 bytes; here they are all unit.                  *)
(***************************************************************************)
EXTENDS XmlDtd

CONSTANTS Docs,   \* the documents: [text, meaning, verdict], see XmlReader
          Units   \* the sizes of a unit
ASSUME UnitsAssumption == Units \subseteq Nat \ {0}

VARIABLES file,     \* the document, the unit, how much has been read, what the loop does next
          buf,      \* the parser's buffer: which, its size, what is in it, bufferPtr
          p,        \* processor, state of the prolog, error, eventPtr, positionPtr and position
          frames,   \* the call of the processor and, above it, those for open entities
          tags,     \* tagStack
          dtd,      \* what has been declared
          calls,    \* the calls of handlers that the last step made
          told      \* all that the handlers have been told, neighbouring texts joined
vars == <<file, buf, p, frames, tags, dtd, calls, told>>

(* A place in the buffer; the buffer it is in may be gone.                 *)
Place(at) == [gen |-> buf.gen, at |-> at]
Nowhere == [gen |-> 0, at |-> 0]

Init ==
  /\ \E d \in Docs, u \in Units : file = [doc |-> d, unit |-> u, fed |-> 0, next |-> "read", reports |-> 0]
  /\ buf = [gen |-> 0, lim |-> 0, mem |-> <<>>, ptr |-> 1]
  /\ p = [proc |-> "prolog", init |-> TRUE, cdata |-> FALSE, role |-> PrologStateInit, final |-> FALSE,
          finished |-> FALSE, error |-> "", event |-> Nowhere, from |-> Nowhere, position |-> 0]
  /\ frames = <<>> /\ tags = <<>> /\ dtd = DtdInit /\ calls = <<>> /\ told = <<>>

(* The handlers are called.                                                *)
TextCall(bytes) == <<"text", [i \in DOMAIN bytes |-> IF bytes[i] = "CR" THEN "\r" ELSE bytes[i]]>>
Joined(events, call) ==
  IF call[1] = "text" /\ events # <<>> /\ events[Len(events)][1] = "text"
  THEN [events EXCEPT ![Len(events)] = TextCall(@[2] \o call[2])] ELSE Append(events, call)
RECURSIVE JoinedAll(_, _)
JoinedAll(events, cs) == IF cs = <<>> THEN events ELSE JoinedAll(Joined(events, Head(cs)), Tail(cs))
Tells(cs) == calls' = cs /\ told' = JoinedAll(told, cs)
Tell(call) == Tells(<<call>>)
Quiet == Tells(<<>>)

(***************************************************************************)
(* The buffer                                                              *)
(***************************************************************************)
RECURSIVE Doubled(_, _)
Doubled(size, needed) == IF 2 * size >= needed THEN 2 * size ELSE Doubled(2 * size, needed)

(* Room for len more bytes: what has been parsed gives way but for the     *)
(* context, or a larger buffer takes over.                                 *)
GetBuffer(b, len) ==
  LET parsed == b.ptr - 1
      keep == Min({parsed, file.unit})
      needed == len + Len(b.mem) - parsed + keep
      kept == [b EXCEPT !.mem = SubSeq(b.mem, b.ptr - keep, Len(b.mem)), !.ptr = keep + 1]
      left == b.lim - parsed
  IN CASE len <= b.lim - Len(b.mem) -> b
       [] len > b.lim - Len(b.mem) /\ needed <= b.lim -> kept
       [] OTHER -> [kept EXCEPT !.gen = b.gen + 1,
                                !.lim = Doubled(IF left = 0 THEN file.unit ELSE left, needed)]

(* XML_Parse up to the call of the processor.  Without text there is only  *)
(* something to do when it is the last call.                               *)
Read ==
  /\ file.next = "read"
  /\ LET len == Min({file.unit, Len(file.doc.text) - file.fed})
         piece == SubSeq(file.doc.text, file.fed + 1, file.fed + len)
         b == IF len = 0 THEN buf ELSE GetBuffer(buf, len)
     IN /\ buf' = [b EXCEPT !.mem = @ \o piece]
        /\ file' = [file EXCEPT !.fed = @ + len, !.next = IF p.proc = "error" THEN "report" ELSE "parse"]
        /\ p' = [p EXCEPT !.final = len < file.unit, !.from = [gen |-> b.gen, at |-> b.ptr]]
        /\ frames' = IF p.proc = "error" THEN <<>> ELSE <<[entity |-> <<>>, s |-> b.ptr, level |-> 0]>>
        /\ UNCHANGED <<tags, dtd>> /\ Quiet

(***************************************************************************)
(* The call of the processor: where it is, and how it goes on and ends.    *)
(***************************************************************************)
Depth == Len(frames)
Top == frames[Depth]
Source == IF Depth = 1 THEN buf.mem ELSE dtd.general[Top.entity].text
End == Len(Source) + 1
HaveMore == Depth = 1 /\ ~ p.final
OpenEntities == {frames[i].entity : i \in 2..Depth}
TokenText(t) == Span(Source, Top.s, t.next)

GoTo(next) == frames' = [frames EXCEPT ![Depth].s = next] /\ UNCHANGED <<file, buf>>
Going(next) == GoTo(next) /\ UNCHANGED p

(* The name of an open tag as it stands in the text, which an end tag must *)
(* repeat: in the buffer until the call ends, then in the tag's own copy.  *)
RawName(tag) ==
  IF tag.where # "buffer" THEN tag.raw
  ELSE IF tag.place.gen # buf.gen THEN <<>>
  ELSE SubSeq(buf.mem, tag.place.at, tag.place.at + Len(tag.name) - 1)

StoreNoRawNames == tags
StoreRawNames ==
  LET stored == Max({0} \cup {i \in DOMAIN tags : tags[i].where = "own"})
  IN [i \in DOMAIN tags |->
        IF i <= stored THEN tags[i] ELSE [tags[i] EXCEPT !.where = "own", !.raw = RawName(tags[i])]]

(* XmlUpdatePosition: how much of the document lies before the place.      *)
Passed(q, place) == [q EXCEPT !.position = @ + place.at - q.from.at, !.from = place]

ReturnUncounted(q, s) ==
  /\ buf' = [buf EXCEPT !.ptr = s]
  /\ frames' = <<>>
  /\ tags' = IF q.proc = "content" THEN StoreRawNames ELSE tags
  /\ p' = [q EXCEPT !.finished = p.final]
  /\ file' = [file EXCEPT !.next = IF p.final THEN "done" ELSE "read"]

(* The processor returns without an error and leaves the text from s on.   *)
Return(q, s) ==
  /\ buf' = [buf EXCEPT !.ptr = s]
  /\ frames' = <<>>
  /\ tags' = IF q.proc = "content" THEN StoreRawNames ELSE tags
  /\ p' = IF p.final THEN [q EXCEPT !.finished = TRUE] ELSE Passed(q, Place(s))
  /\ file' = [file EXCEPT !.next = IF p.final THEN "done" ELSE "read"]

Fail(code, at) ==
  /\ p' = [p EXCEPT !.proc = "error", !.error = code, !.event = Place(IF Depth = 1 THEN at ELSE frames[1].s)]
  /\ frames' = <<>>
  /\ file' = [file EXCEPT !.next = "report"]
  /\ UNCHANGED buf

(* An error in a token, which is shown at a place within it.               *)
FailWithin(code, t) == \E at \in Top.s..t.next : Fail(code, at)

(* The error is reported with the position of eventPtr, counted from       *)
(* positionPtr on if that is not behind it.  Where they are in different   *)
(* buffers either may be found, and any text counted.                      *)
Report ==
  /\ file.next = "report"
  /\ file' = [file EXCEPT !.next = IF p.final THEN "done" ELSE "read", !.reports = Min({2, @ + 1})]
  /\ \/ p.event.gen = p.from.gen /\ p' = IF p.event.at >= p.from.at THEN Passed(p, p.event) ELSE p
     \/ p.event.gen # p.from.gen /\ p' \in {p, [p EXCEPT !.position = -1, !.from = p.event]}
  /\ UNCHANGED <<buf, frames, tags, dtd>> /\ Quiet

(***************************************************************************)
(* Content (doContent)                                                     *)
(***************************************************************************)
Parsing(proc) == file.next = "parse" /\ p.proc = proc
InContent == Parsing("content") /\ ~ p.cdata
ContentToken == ContentTok(Source, Top.s, End)
Silent == UNCHANGED <<tags, dtd>> /\ Quiet

(* The text is used up: in the document more may come, and what may be     *)
(* part of something longer waits for it; an entity ends, and must have    *)
(* closed what it opened.                                                  *)
LeaveEntity ==
  /\ frames' = [SubSeq(frames, 1, Depth - 1) EXCEPT ![Depth - 1].s = @ + Len(Top.entity) + 2]
  /\ UNCHANGED <<file, buf, p>>
NoMoreTextUnchecked(at) == IF Top.level = 0 THEN Fail("NO_ELEMENTS", at) ELSE LeaveEntity
NoMoreText(at) ==
  CASE Top.level = 0 -> Fail("NO_ELEMENTS", at)
    [] Top.level > 0 /\ Len(tags) # Top.level -> Fail("ASYNC_ENTITY", at)
    [] OTHER -> LeaveEntity
TextEnds(t) ==
  /\ t.tok \in {"NONE", "PARTIAL", "PARTIAL_CHAR", "TRAILING_CR", "TRAILING_RSQB"}
  /\ IF HaveMore THEN Return(p, Top.s) /\ UNCHANGED dtd /\ Quiet
     ELSE CASE t.tok = "PARTIAL"       -> Fail("UNCLOSED_TOKEN", Top.s) /\ Silent
            [] t.tok = "PARTIAL_CHAR"  -> Fail("PARTIAL_CHAR", Top.s) /\ Silent
            [] t.tok = "NONE"          -> NoMoreText(Top.s) /\ Silent
            [] t.tok = "TRAILING_CR"   -> NoMoreText(Top.s) /\ Tell(TextCall(<<"\n">>)) /\ UNCHANGED <<tags, dtd>>
            [] t.tok = "TRAILING_RSQB" -> NoMoreText(End) /\ Tell(TextCall(Span(Source, Top.s, End)))
                                            /\ UNCHANGED <<tags, dtd>>

WrongContent(t) ==
  /\ t.tok \in {"INVALID", "XML_DECL"}
  /\ IF t.tok = "INVALID" THEN Fail("INVALID_TOKEN", t.next) ELSE Fail("MISPLACED_XML_PI", Top.s)
  /\ Silent

Characters(t) ==
  /\ t.tok \in {"DATA_CHARS", "DATA_NEWLINE"}
  /\ Tell(TextCall(IF t.tok = "DATA_NEWLINE" THEN <<"\n">> ELSE TokenText(t)))
  /\ Going(t.next) /\ UNCHANGED <<tags, dtd>>

CharRef(t) ==
  /\ t.tok = "CHAR_REF"
  /\ LET n == CharRefNumber(TokenText(t)) IN
     IF n < 0 THEN Fail("BAD_CHAR_REF", Top.s) /\ Silent
     ELSE Tell(TextCall(Utf8Encode(n))) /\ Going(t.next) /\ UNCHANGED <<tags, dtd>>

(* An internal entity is read in a frame of its own.                       *)
EntityRef(t) ==
  /\ t.tok = "ENTITY_REF"
  /\ LET name == Span(Source, Top.s + 1, t.next - 1)
         ch == PredefinedEntityName(name)
         no == Refusal(dtd, name, OpenEntities, MustBeDeclared(dtd))
     IN IF ch # "" THEN Tell(TextCall(<<ch>>)) /\ Going(t.next) /\ UNCHANGED <<tags, dtd>>
        ELSE IF no = "skip" THEN Tell(<<"skipped", name>>) /\ Going(t.next) /\ UNCHANGED <<tags, dtd>>
        ELSE IF no # "" THEN Fail(no, Top.s) /\ Silent
        ELSE IF dtd.general[name].internal
        THEN /\ frames' = Append(frames, [entity |-> name, s |-> 1, level |-> Len(tags)])
             /\ Silent /\ UNCHANGED <<file, buf, p>>
        ELSE Going(t.next) /\ Silent

StartTag(t) ==
  /\ t.tok = "START_TAG"
  /\ LET name == NameAt(Source, Top.s + 1) IN
     \E atts \in {StoreAtts(dtd, name, TokenText(t), OpenEntities)} :
        /\ tags' = Append(tags, [name |-> name, raw |-> name, place |-> Place(Top.s + 1),
                                 where |-> IF Depth = 1 THEN "buffer" ELSE "entity"])
        /\ IF atts.error # "" THEN FailWithin(atts.error, t) /\ UNCHANGED dtd /\ Quiet
           ELSE Tell(<<"start", name, atts.val>>) /\ Going(t.next) /\ UNCHANGED dtd

(* Behind the end of the outermost element the epilog begins.              *)
ElementEnds(left, next) ==
  GoTo(next) /\ p' = [p EXCEPT !.proc = IF left = 0 THEN "epilog" ELSE @]

EmptyElement(t) ==
  /\ t.tok = "EMPTY_ELEMENT"
  /\ LET name == NameAt(Source, Top.s + 1) IN
     \E atts \in {StoreAtts(dtd, name, TokenText(t), OpenEntities)} :
        IF atts.error # "" THEN FailWithin(atts.error, t) /\ Silent
        ELSE /\ Tells(<< <<"start", name, atts.val>>, <<"end", name>> >>)
             /\ ElementEnds(Len(tags), t.next) /\ UNCHANGED <<tags, dtd>>

EndTag(t) ==
  /\ t.tok = "END_TAG"
  /\ IF Len(tags) = Top.level THEN Fail("ASYNC_ENTITY", Top.s) /\ Silent
     ELSE LET tag == tags[Len(tags)] IN
          /\ tags' = SubSeq(tags, 1, Len(tags) - 1)
          /\ IF NameAt(Source, Top.s + 2) # RawName(tag)
             THEN Fail("TAG_MISMATCH", Top.s + 2) /\ UNCHANGED dtd /\ Quiet
             ELSE Tell(<<"end", tag.name>>) /\ ElementEnds(Len(tags) - 1, t.next) /\ UNCHANGED dtd

(* Comments and processing instructions have no handler.                   *)
Skipped(t) == t.tok \in {"COMMENT", "PI"} /\ Going(t.next) /\ Silent

CdataOpen(t) ==
  /\ t.tok = "CDATA_SECT_OPEN"
  /\ p' = [p EXCEPT !.cdata = TRUE] /\ GoTo(t.next) /\ Silent

Content ==
  /\ InContent
  /\ \E t \in {ContentToken} :
     \/ TextEnds(t) \/ WrongContent(t) \/ Characters(t) \/ CharRef(t) \/ EntityRef(t)
     \/ StartTag(t) \/ EmptyElement(t) \/ EndTag(t) \/ Skipped(t) \/ CdataOpen(t)

(* Within a CDATA section (doCdataSection).                                *)
Cdata ==
  /\ Parsing("content") /\ p.cdata
  /\ \E t \in {CdataSectionTok(Source, Top.s, End)} :
     \/ (t.tok = "CDATA_SECT_CLOSE" /\ p' = [p EXCEPT !.cdata = FALSE] /\ GoTo(t.next) /\ Silent)
     \/ Characters(t)
     \/ (t.tok = "INVALID" /\ Fail("INVALID_TOKEN", t.next) /\ Silent)
     \/ /\ t.tok \in {"NONE", "PARTIAL", "PARTIAL_CHAR"}
        /\ IF HaveMore THEN Return(p, Top.s) /\ UNCHANGED dtd /\ Quiet
           ELSE Fail(IF t.tok = "PARTIAL_CHAR" THEN t.tok ELSE "UNCLOSED_CDATA_SECTION", Top.s) /\ Silent

(* Behind the document's element (epilogProcessor).                        *)
Epilog ==
  /\ Parsing("epilog")
  /\ \E t \in {PrologTok(Source, Top.s, End)} :
     IF (t.tok = "PROLOG_S" /\ t.open) \/ t.tok = "NONE"
     THEN Return(p, t.next) /\ UNCHANGED dtd /\ Quiet
     ELSE IF t.tok \in {"PROLOG_S", "PI", "COMMENT"} THEN Going(t.next) /\ Silent
     ELSE IF t.tok = "INVALID" THEN Fail("INVALID_TOKEN", t.next) /\ Silent
     ELSE IF t.tok \notin {"PARTIAL", "PARTIAL_CHAR"} THEN Fail("JUNK_AFTER_DOC_ELEMENT", Top.s) /\ Silent
     ELSE IF HaveMore THEN Return(p, Top.s) /\ UNCHANGED dtd /\ Quiet
     ELSE Fail(IF t.tok = "PARTIAL" THEN "UNCLOSED_TOKEN" ELSE t.tok, Top.s) /\ Silent

(***************************************************************************)
(* The prolog (doProlog): a token, its role, and what it changes.          *)
(***************************************************************************)
PrologToken == IF p.init THEN InitScan(Source, Top.s, End) ELSE PrologTok(Source, Top.s, End)
Incomplete(t) == t.open \/ t.tok \in {"NONE", "PARTIAL", "PARTIAL_CHAR"}

(* What a token that may become longer is taken for when no more text      *)
(* comes, and the state once its role is known.                            *)
Sure(t) == IF t.open THEN [t EXCEPT !.next = End] ELSE t
Role(t) == TokenRole(p.role, t.tok, TokenText(t))
Known(r) == [p EXCEPT !.role = r.state, !.init = FALSE]

PrologEnds(t) ==
  IF HaveMore /\ t.tok # "INVALID"
  THEN Return([p EXCEPT !.init = @ /\ (Top.s = End \/ Undecided(Source, Top.s, End))], Top.s)
         /\ UNCHANGED dtd /\ Quiet
  ELSE /\ Silent
       /\ CASE t.tok = "INVALID" -> Fail("INVALID_TOKEN", t.next)
            [] t.tok = "PARTIAL" -> Fail("UNCLOSED_TOKEN", Top.s)
            [] t.tok = "PARTIAL_CHAR" -> Fail("PARTIAL_CHAR", Top.s)
            [] t.tok = "NONE" -> Fail("NO_ELEMENTS", Top.s)

(* The step of a role that changes the declarations to d.                  *)
Declared(t, r, d) ==
  /\ dtd' = d /\ p' = Known(r) /\ GoTo(t.next) /\ UNCHANGED tags /\ Quiet
Refused(code, t) == FailWithin(code, t) /\ Silent
Misplaced(code) == Fail(code, Top.s) /\ Silent
Inner(t) == Span(Source, Top.s + 1, t.next - 1)

XmlDecl(t, r) ==
  /\ r.role = "XML_DECL"
  /\ \E standalone \in {ParseXmlDecl(TokenText(t))} :
     IF standalone = "bad" THEN Refused("XML_DECL", t)
     ELSE Declared(t, r, [dtd EXCEPT !.standalone = @ \/ standalone = "yes"])

(* An external subset is named, here or by the leave that the program      *)
(* gave: none is read, so entities may be declared out of sight.           *)
ExternalSubset(t, r) ==
  /\ r.role \in {"DOCTYPE_PUBLIC_ID", "DOCTYPE_SYSTEM_ID"}
  /\ IF r.role = "DOCTYPE_PUBLIC_ID" /\ ~ IsPublicId(TokenText(t)) THEN Refused("PUBLICID", t)
     ELSE Declared(t, r, [dtd EXCEPT !.foreign = FALSE, !.paramRefs = TRUE,
                                     !.system = @ \/ r.role = "DOCTYPE_SYSTEM_ID"])
DoctypeClose(t, r) ==
  /\ r.role = "DOCTYPE_CLOSE"
  /\ Declared(t, r, [dtd EXCEPT !.paramRefs = @ \/ dtd.system \/ dtd.foreign, !.foreign = FALSE])
InstanceStart(t, r) ==
  /\ r.role = "INSTANCE_START"
  /\ dtd' = [dtd EXCEPT !.paramRefs = @ \/ dtd.foreign]
  /\ p' = [Known(r) EXCEPT !.proc = "content"]
  /\ UNCHANGED <<file, buf, frames, tags>> /\ Quiet

(* Attribute lists.                                                        *)
AttlistPart(t, r) ==
  \/ r.role = "ATTLIST_ELEMENT_NAME" /\ Declared(t, r, [dtd EXCEPT !.elem = TokenText(t)])
  \/ r.role = "ATTRIBUTE_NAME"
       /\ Declared(t, r, [dtd EXCEPT !.att = TokenText(t), !.cdata = FALSE, !.id = FALSE])
  \/ r.role \in {"ATTRIBUTE_TYPE_" \o a : a \in AttTypes}
       /\ Declared(t, r, [dtd EXCEPT !.cdata = @ \/ r.role = "ATTRIBUTE_TYPE_CDATA",
                                     !.id = @ \/ r.role = "ATTRIBUTE_TYPE_ID"])
NoDefault(t, r) ==
  /\ r.role \in {"IMPLIED_ATTRIBUTE_VALUE", "REQUIRED_ATTRIBUTE_VALUE"}
  /\ Declared(t, r, IF dtd.keep THEN DefineAttribute(dtd, FALSE, <<>>, dtd.id) ELSE dtd)
DefaultValue(t, r) ==
  /\ r.role \in {"DEFAULT_ATTRIBUTE_VALUE", "FIXED_ATTRIBUTE_VALUE"}
  /\ \E v \in {StoreAttributeValue(dtd, Inner(t), dtd.cdata, MustBeDeclared(dtd), OpenEntities)} :
     IF ~ dtd.keep THEN Declared(t, r, dtd)
     ELSE IF v.error # "" THEN Refused(v.error, t)
     ELSE Declared(t, r, DefineAttribute(dtd, TRUE, v.val, FALSE))

(* Entities: the first declaration of a name counts, as long as            *)
(* declarations count.  Parameter entities are never replaced, so nothing  *)
(* needs to be known of theirs.                                            *)
EntityName(t, r) ==
  /\ r.role \in {"GENERAL_ENTITY_NAME", "PARAM_ENTITY_NAME"}
  /\ LET name == TokenText(t)
         new == /\ r.role = "GENERAL_ENTITY_NAME" /\ PredefinedEntityName(name) = ""
                /\ dtd.keep /\ name \notin DOMAIN dtd.general
     IN Declared(t, r, IF new THEN [dtd EXCEPT !.decl = name, !.general = (name :> Undeclared) @@ @]
                       ELSE [dtd EXCEPT !.decl = <<>>])
EntityValue(t, r) ==
  /\ r.role = "ENTITY_VALUE"
  /\ \E v \in {StoreEntityValue(Inner(t), 1, <<>>)} :
     IF ~ dtd.keep THEN Declared(t, r, dtd)
     ELSE IF v.error # "" THEN Refused(v.error, t)
     ELSE IF dtd.decl = <<>> THEN Declared(t, r, dtd)
     ELSE Declared(t, r, [dtd EXCEPT !.general[dtd.decl].text = v.val, !.general[dtd.decl].internal = TRUE])
EntityNotation(t, r) ==
  /\ r.role = "ENTITY_NOTATION_NAME"
  /\ Declared(t, r, IF dtd.keep /\ dtd.decl # <<>> THEN [dtd EXCEPT !.general[dtd.decl].binary = TRUE] ELSE dtd)
PublicId(t, r) ==
  /\ r.role \in {"ENTITY_PUBLIC_ID", "NOTATION_PUBLIC_ID"}
  /\ IF IsPublicId(TokenText(t)) THEN Declared(t, r, dtd) ELSE Refused("PUBLICID", t)

(* A parameter entity is not read: from here on nothing more that the      *)
(* document declares counts, unless it says that it stands alone.          *)
ParamEntityRef(t, r) ==
  /\ r.role = "PARAM_ENTITY_REF"
  /\ Declared(t, r, [dtd EXCEPT !.paramRefs = TRUE, !.keep = dtd.standalone])

(* Content models: the parts of a group are joined by one sign only.       *)
Group(t, r) ==
  LET level == r.state.level
      sign == [GROUP_OPEN |-> "", GROUP_SEQUENCE |-> ",", GROUP_CHOICE |-> "|"]
  IN /\ r.role \in DOMAIN sign
     /\ IF r.role # "GROUP_OPEN" /\ dtd.connector[level] \notin {"", sign[r.role]} THEN Misplaced("SYNTAX")
        ELSE Declared(t, r, [dtd EXCEPT !.connector = (level :> sign[r.role]) @@ @])

RoleError(t, r) ==
  /\ r.role = "ERROR"
  /\ Misplaced(CASE t.tok = "PARAM_ENTITY_REF" -> "PARAM_ENTITY_REF"
               [] t.tok = "XML_DECL" -> "MISPLACED_XML_PI"
               [] OTHER -> "SYNTAX")

(* The roles that change nothing when no handler waits for them.           *)
Telling ==
  {"XML_DECL", "DOCTYPE_PUBLIC_ID", "DOCTYPE_SYSTEM_ID", "DOCTYPE_CLOSE", "INSTANCE_START",
   "ATTLIST_ELEMENT_NAME", "ATTRIBUTE_NAME", "IMPLIED_ATTRIBUTE_VALUE", "REQUIRED_ATTRIBUTE_VALUE",
   "DEFAULT_ATTRIBUTE_VALUE", "FIXED_ATTRIBUTE_VALUE", "GENERAL_ENTITY_NAME", "PARAM_ENTITY_NAME",
   "ENTITY_VALUE", "ENTITY_NOTATION_NAME", "ENTITY_PUBLIC_ID", "NOTATION_PUBLIC_ID", "PARAM_ENTITY_REF",
   "GROUP_OPEN", "GROUP_SEQUENCE", "GROUP_CHOICE", "ERROR"} \cup {"ATTRIBUTE_TYPE_" \o a : a \in AttTypes}
OtherRole(t, r) == r.role \notin Telling /\ Declared(t, r, dtd)

Prolog ==
  /\ Parsing("prolog")
  /\ \E t0 \in {PrologToken} :
     LET t == Sure(t0) IN
     \E r \in {Role(t)} :
        IF t0.tok = "INVALID" \/ (Incomplete(t0) /\ (HaveMore \/ ~ t0.open)) THEN PrologEnds(t0)
        ELSE \/ XmlDecl(t, r) \/ ExternalSubset(t, r) \/ DoctypeClose(t, r) \/ InstanceStart(t, r)
             \/ AttlistPart(t, r) \/ NoDefault(t, r) \/ DefaultValue(t, r)
             \/ EntityName(t, r) \/ EntityValue(t, r) \/ EntityNotation(t, r) \/ PublicId(t, r)
             \/ ParamEntityRef(t, r) \/ Group(t, r) \/ RoleError(t, r) \/ OtherRole(t, r)

Finished == file.next = "done" /\ UNCHANGED vars
Next == Read \/ Report \/ Prolog \/ Content \/ Cdata \/ Epilog \/ Finished
Spec == Init /\ [][Next]_vars

(***************************************************************************)
(* Properties                                                              *)
(***************************************************************************)
TypeOK ==
  /\ file.next \in {"read", "parse", "report", "done"} /\ file.fed \in 0..Len(file.doc.text)
  /\ buf.ptr \in 1..Len(buf.mem) + 1 /\ Len(buf.mem) <= buf.lim
  /\ p.proc \in {"prolog", "content", "epilog", "error"} /\ p.cdata \in BOOLEAN
  /\ (frames # <<>>) = (file.next = "parse")
  /\ \A i \in DOMAIN frames : /\ (frames[i].entity = <<>>) = (i = 1)
                              /\ frames[i].level \in 0..Len(tags)
  /\ \A i \in DOMAIN tags : tags[i].where \in {"buffer", "entity", "own"}
  /\ \A i \in DOMAIN calls : calls[i][1] \in {"start", "end", "text", "skipped"}

(* An open tag's name can be read as long as the tag may be closed: the    *)
(* text it was found in may have been overwritten or freed by then, so it  *)
(* has been stored at the end of the call (storeRawNames, xmlparse.c:1967, *)
(* and the context XML_GetBuffer keeps).                                   *)
RawNamesLive ==
  p.proc # "error" => \A i \in DOMAIN tags : RawName(tags[i]) = tags[i].name

(* The position counted so far is the one of the place it was counted to,  *)
(* whatever became of the buffer, and the first report of an error gives   *)
(* the place of the error (xjse_expat_error_report).  The pointers it is   *)
(* counted with stay in the buffer, the open tags in their entities.       *)
Offset(place) == file.fed - (Len(buf.mem) + 1 - place.at)
PositionRight ==
  /\ TypeOK
  /\ file.fed > 0 /\ file.reports = 0 => p.position = Offset(p.from)
  /\ file.reports = 1 /\ file.next # "report" => p.position = Offset(p.event)

(* The parser and the loop around it do what XmlReader promises.           *)
TheAnswer == IF p.error # "" THEN p.error ELSE IF p.finished THEN "ok" ELSE "none"
Reader == INSTANCE XmlReader WITH doc <- file.doc, answer <- TheAnswer
ImplementsReader == Reader!Spec
=============================================================================
