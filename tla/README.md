# Cyeonna: TLA+ models of the xadget engine

Cyeonna runs *xadgets* (desktop gadgets written in XML and JavaScript) on a PSP or a Linux desktop.
This directory holds TLA+ modules that model the parts of it in which something can go wrong in time or
in order, TLC configurations that check them on small instances, and proofs checked by TLAPS.

## 1. Inventory

There are two threads. The **main thread** runs `xtk_mainloop`: in every turn it completes a flip
animation, handles keys and menu, calls back the scripts of completed HTTP jobs
(`xjse_xpnet_do_queue`), renders every xadget and fires at most one timer per xadget. The **xpnet
thread** connects to the access point and performs HTTP requests. They share `XPNETCTX` without a lock.

| component | state | operations | interacts with | hard because | correct when |
|---|---|---|---|---|---|
| xpnet (`xjse_xpnet.c`) | 4 job slots, `flags`, `nap`, `napconstatus`, the thread | queue a job, execute it, call back, reset, cleanup | scripts, menu, network | two threads without locks, restarts, timeouts, failures | a slot and a response belong to one request; a job is called back at most once, on a live object; at most one thread; stop requests return |
| XMLHttpRequest (`xjse_xhr.c`) | private data: url, result, the nodes of `responseXML` | open, send, finalizer, response getters | xpnet, DOM, garbage collector | shared pointers | the object outlives its job; a response is freed once |
| DOM of a response (`xgg_dom.c`) | a table of 64 nodes, a stack of 8 levels, links | read a document, find elements by name | parser, scripts | read again and again into the same tables, fixed bounds | the nodes are the document's tree |
| main loop, menu commands (`main.c`) | array of 4 contexts, exit flag | profile switch, AP choice, exit | all | order of deletion and reset | nothing of an old profile is used |
| timers (`xjse.c`, `main.c`, `xgg.c`) | 8 slots per context | setTimeout, setInterval, beginAnimation, clear*, fire, reset | scripts | a callback changes the table under the loop; slot reuse; at most one per loop | a one-shot fires once; a cleared timer does not fire; every due timer fires |
| profiles, flipping (`xjse.c`, `xtk_ui.c`) | frame sets, offset, animation times | load, flip, complete | contexts, menu | animation against profile switch, fixed arrays | positions always come from an existing frame set |
| menu (`xtk_ui.c`) | levels, item lists, focus, animation | toggle, move, select | main loop | animation in progress while keys arrive | level and focus in range |
| image cache (`xtk_img.c`, elements) | 120 entries with reference counts | load, attach, detach | elements | full table, failing loads | count = number of holders |
| element tree (`xgg.c`) | linked lists, level stack, focus list | parse, append, insert, remove | scripts | re-entrant changes, fixed bounds | a tree; each element linked once |
| string resources (`xjse_fileio.c`) | name and text of the element that is being read | load | parser, scripts | text comes in pieces | every string found by its name, with its whole text |
| XML parser (`expat/`, used through `xjse_parse_xmlfile` and `xjse_parse_xmlstring`) | buffer, open tags, open entities, declarations, position | read 1024 bytes, take a token, report an error | handlers of profiles, gadgets, strings, DOM | a unit ends anywhere; the buffer moves under pointers into it | what handlers are told is the document, whatever the units |
| script utilities (`xjse_jsutil.c`), options (`xgg_options.c`) | enumerator position, map | parse colour and size; enumerate; put, get | scripts | collections that change | every element visited once |
| gadget elements (`xgg_basicelement.c`, `xgg_img.c`, `xgg_label.c`, ...) | size, place, opacity, image, text | made by tags and fragments, set by attributes and scripts, drawn in every turn | tree, images, profiles | a size depends on what another element was at the time; text goes to the last tag | each is drawn as it was asked to be |
| host and plugin objects (`xgg_system.c`, `xgg_plugin*.c`), expat glue, debug | - | single calls | - | - | - |
| vendored (the rest of `expat/`, `intrafont/`, `js_1.6/`, `pspinc/`, `Linux.OBJ/`, `libjsprx/`), `unused_snippets.c` | not the program's own code | | | | |

## 2. Modules

| module | models | state and actions |
|---|---|---|
| `XpNet` | `xjse_xpnet.c`, `open`/`send`/finalizer of `xjse_xhr.c`, the commands of `main.c` that use them | one action per stretch of code between two accesses to shared memory that another thread could notice: `pc` is where the xpnet thread is in `xpnet_cb_thread`, `mpc` where the main thread is in `xjse_xpnet_do_queue`, `_reset`, `_cleanup` |
| `XpJobs`, `XpNetRefinement` | what the network layer promises to scripts, and the mapping that shows it | `holder` and `phase` of each call of `send()`; no threads, flags or connections |
| `XpNetInv` | inductive invariants of `XpNet` | - |
| `Timers` | the timer table of `xjse.c`, the script functions of `xgg.c`, `cb_once_on_loop` of `main.c` | `timer` is `XJSECTX.timers`, `cur` the slot `ptimer1` points to; a callback is in progress between `Fire` and `StringReturns`/`FunctionReturns`, and scripts run there |
| `ElemTree`, `ElemFocus` | `xgg.c`: linking, the level stack, append, insert, remove; the order of the focus | `parent`, `first`, `next` are the pointers of `XJSE_TREEELEM`; `stack`, `level`, `sibling` are `apelemstack`, `nelemlevel`, `pdirectsibling` |
| `Chains` | pointers that lead from one entry of a table to the next | `Chain`, with what the proofs about `ElemTree` and `XDom` need to know of it |
| `DomTree` | the ordered tree scripts expect | `kids[p]`: a sequence |
| `XDom` | the getters of `xjse_xhr.c`, `xgg_dom.c`, the Enumerator of `xjse_jsutil.c` | `nelems`, `apelems`, `level`, `stack`, `nodelist` are `XJSE_XDOMPRIV`; the parser is known by its callbacks (`StartElement`, `EndElement`, `ParseReturns`) |
| `NodeTree` | what reading promises: trees of nodes that only grow at their end | `roots`, and `kids[x]`: a sequence |
| `XmlTok` | `xmltok_impl.c`, `xmltok.c`: the scanners, attributes, character references | operators; a scanner is a set of rules over classes of bytes |
| `XmlRole` | `xmlrole.c`: the grammar of the prolog | each handler is a set of rules: token, word, role, next handler |
| `XmlDtd` | what `xmlparse.c` keeps of declarations, and the values of attributes and entities | operators |
| `XmlParse` | `xjse_parse_xmlfile`, `XML_ParseBuffer`, `XML_GetBuffer`, `doProlog`, `doContent`, `doCdataSection`, `epilogProcessor`, the report of errors | `buf` is the buffer with `bufferPtr`, `frames` the processor's call and those for open entities, `tags` is `tagStack`; one step per token |
| `XmlReader` | what reading a document promises | `told`, `answer`; no units, buffers or tokens |
| `StrRes` (extends `XmlParse`) | `xjse_strres_load` and its handlers | `context` is `XJSE_STRLCTX` |
| `Pixbufs` | `xtk_img.c` and the image setters of the three elements that have images | `buf` with its `urefcnt`, `cache` is `appixbufcache`, `field` the elements' pointers |
| `Elements` | the handlers of `xgg.c`, the setters of the elements, `xgg_xadget_apply_trans` and what the renderers draw | `elems` are the elements' private data, `current` is `XGGPARSECTX.pobjcurrent`, `open` the tags; `asked`, `behind` and `covered` are histories; drawing is operators |
| `Profiles` | the expat callbacks of `xjse.c` that read a profile | `xctx` is `XADGPROFREADCTX`; one action per tag |
| `Ui` (extends `Profiles`) | `xtk_mainloop`, flips, the menu, `cb_on_menuitem`, profile switch, exit | `at` is the stage of the loop's turn (`Stages`, the order of the PSP's key handler); ages stand for time stamps |
| `MC*` | values for TLC | - |
| `Chains`, `XpNetProofs`, `ElemTreeProofs`, `TimersProofs`, `UiProofs`, `PixbufsProofs`, `ElementsProofs`, `XDomProofs` | theorems, see section 6 | - |

Modules are composed where components share state: `XpNet` has both threads, the scripts and the commands
of the menu that stop the thread; `Ui` extends `Profiles`; `ElemFocus` extends `ElemTree`; `StrRes` extends
`XmlParse`, which extends `XmlDtd`, `XmlRole` and `XmlTok`. `Timers`, `ElemTree`, `Elements`, `XDom` and `Pixbufs` share nothing with the others but the point of the
loop at which they run; `XDom` and `StrRes` stand on the two sides of the parser's handlers: `XmlReader` says what the one relies on and the other shows.

Each module has a constant `Env`, a set of the things that users, scripts, files or the network may do and the
code does not handle (or is not obliged to). The properties hold for the `Env` of the run that checks them;
switching on one more kind gives a counterexample in the configurations named `*_v_*`. So the passing runs
say under which conditions the program is correct, and the others that each condition is needed.

### Choices that a reader of the code should know

- **XpNet.** The main thread's `flags |= EXIT` is one step: only the xpnet thread's read-modify-write is
  split (`"tornFlags"`). `XPNETFLAG_INITCONN` is never set and is left out. `NextSlot` and the search for an
  empty slot are single steps, because only the main thread fills slots. The wait of 40 x 100 ms
  can run out only if no thread lives, or one is in a network call and `"slowNet"` allows it to stay there.
  `nap` is 0 (offline) or 1. The first packet may contain the body or not; `recv` failing (-1) and headers longer than the
  buffer are left out. `Threads` bounds the restarts, and each call in `Reqs` is made at most once.
- **Timers.** Time is relative to now, and -1 is all of the past, so that it needs no bound. A negative delay becomes
  a huge unsigned number in `xjse_timer_add`, passes the test against the minimum, and the sum wraps into the
  past: `Granted`. The contexts take turns in the pass; one of them ending the pass early (`TurnLost`) is all that another
  one notices. `"none"` as a body stands for a call without a callback, which `xgg.c:453` lets through.
  `runs`, `age`, `value`, `cleared`, `old`, `kind`, `id` are histories.
- **ElemTree.** An element is its index in `apelems`, 0 is null. `xgg_apelems_find` is modelled as it is: the "elder" it returns
  is the element itself. Documents deeper than the level stack are left out: what the write past
  `apelemstack` does depends on the layout of memory. A parse may break off anywhere (`ParseFails`), with the level and the stack left as they are.
- **Pixbufs.** `urefcnt` is an unsigned number of `RefWidth` bits and wraps. Buffers of failed loads are abandoned, not freed, and a
  `<progressbar>`'s finalizer frees nothing: both are recorded in `leaked`, and the last conjunct of `RefsExact` says that
  nothing else leaks. A jpeg that cannot be decoded counts as loaded by the code; pixels are not modelled.
- **Elements.** An element has the parent that `ElemTree` says it has. Coordinates are integers; a place on the screen is multiplied by the denominator of the
  scale and by 2, so that the centre of a frame is an integer too; the instances divide without rest wherever the code would keep a fraction that is compared with 0. A flip goes
  through `FlipSteps` places of the sine. A property that the code reads by its own name in each class (`src`, `image`, `emptyImage`) is one name. `asked` has what the documents and scripts
  asked for last, in their own terms, so that the properties compare the drawing with the wish and not with the field. A line end behind `</label>` is text as well and replaces the label's:
  `covered` has the labels this has happened to, and `LabelsAsAsked` says that it happens to no other. A conversion that fails leaves the
  variable as it was (`ToInt32`): in memory that was never set it may be any of `Junk`.
- **XDom.** Levels past the stack are written to what follows it in the 32-bit layout of `XJSE_XHRPRIV` (`Fields`), the fields of the response:
  `lost` says which. Nodes whose objects nothing roots may be collected (`"collect"`). The passing run reads a document again and again as long as the last
  one was complete; `MaxNodes` bounds the nodes that are ever made. Attributes become properties of script objects and are left out.
- **XmlTok to StrRes.** `XJSE_NREADUNIT`, `INIT_BUFFER_SIZE` and `XML_CONTEXT_BYTES` are all 1024 and here all `unit`; a unit longer than the
  document is the single call of `xjse_parse_xmlstring`. Bytes are characters or classes of bytes (`"L2"`, `"L3"` lead, `"TR"` trails); `"CR"` is the
  carriage return that `&#13;` puts into an entity, which is not a line end. The place of an error in a tag or a declaration may be anywhere
  in it (`FailWithin`), because the code sets `eventPtr` inside helpers that report different places. Parameter entities are never read, as the program sets no handler for them. A document comes with what it means and the verdict it deserves
  (`MCStrRes` composes both from pieces), so that nothing of the parser is its own reference. The verdicts and the
  events of all documents and units in `MCStrRes` were also compared with those of the C code.
- **Profiles, Ui.** `fault` becomes non-`"none"` at the first access through a null or dangling pointer or past a table, and the
  program stops there. Frames are numbers, without coordinates. The Linux build's one key per event is a
  subset of the PSP's key handler, in which every key may be pressed in one turn. Time is counted in rendered frames,
  and may pass as well before the two readings of the clock that matter (`Tick`). Tags in a profile do not nest.

## 3. Runs

| run | bounds | shows |
|---|---|---|
| `xpnet_safety` | 2 slots, 3 requests, 2 threads, failing and closing connections | `ThreadGoneAfterWait`, `SlotHeld`, `OwnResponse`, `CalledOnce`, `CallBackLive`; `ImplementsJobs`: the abstract job table is implemented. 572 000 states |
| `xpnet_live` | 2 slots, 2 requests, 2 threads, no failures | `JobCompletes`, `AnswerDelivered`. 160 000 states |
| `xpnet_stop` | 1 slot, 1 request, 2 threads, everything in `Env` | `StopReturns`: neither a profile switch nor the exit hangs, whatever has become of the thread. 390 000 states |
| `timers` | 2 slots, 2 calls with scripts, functions or nothing to call, profile switches, events that cannot be read; scripts set no timer after clearing the one that runs, and clear none that is over | `Kept` (no timer is lost, an animation ends at its end value), `RunsOnce`, `Paced`, `TakenBackSilent`, `EveryTimerFires`. 331 000 states |
| `tree_edits` | 5 elements, 2 of them listening, 3 levels | `OpenPath`, `RemovedGone`, `FocusOrder`; `ImplementsTree`: the pointers are the ordered tree. 265 000 states |
| `images_cache` | 3 fields, 2 files and a stream, 2 entries, 4 buffers | `RefsExact` (counts are the holders, nothing else leaks), `CacheSound` (one copy of each name), `ShowsAsked`. 187 000 states |
| `response_nodes` | a request, a DOMDocument, documents of up to 4 elements on 3 levels, 4 nodes | `NoFault`, `LoopVisitsAll`; `ImplementsNodes`: the nodes are the documents' trees. 882 000 states |
| `xml_strings` | 1831 documents (49 of them string resources), units of 1, 2, 7 bytes and all | `RawNamesLive`, `PositionRight`, `StringsTaken`; `ImplementsReader`: the handlers are told the document. 761 000 states |
| `elements` | 3 elements, 3 settings or texts, 2 frames, flips of 2 steps | `FitsFrame`, `FadesWithAncestors`, `SizesAsAsked`, `LabelsAsAsked`. 1 142 000 states |
| `ui_keys` | 3 xadgets, 2 framesets, menu of 3 levels, lists of 1 and 2 | `NoFault`, `Ring` (the front xadget has the focus, each has a frame of its own, the table has no holes), `FocusOnItem`, `TurnsByOne`, `EveryFlipLands`. 349 000 states |
| `xpnet_v_putback`, `timers_v_replace` | as small as the case needs | the findings of section 5 |

Every module's type invariant is checked in one of its passing runs, alone or as the first conjunct of `OpenPath`, `RefsExact`, `PositionRight`, `Ring` or `FadesWithAncestors`.

**Why the bounds are enough.** Slots: two make the difference between "this slot" and "another slot", and full
tables, searches that skip a slot, and reuse all happen; three requests on two slots make one be refused or reuse a
slot. Threads: two are the old and the new one of a switch, and a third would only repeat this.
Timers: two slots of which the lower one may starve the higher; two calls, the second of which may take a slot that the first has left, or set its own from the first one's callback (three calls at once are covered by the proofs of section 6, but for liveness).
Elements: five on three levels give a parent with three children, a grandchild and a reused end
of the chain; the table fills up; two elements that listen are the right and the wrong one for the focus (`FewListen`; `FocusOrderAlways` has no bound). Images: three names on two entries overflow the table, and four buffers are one
more than the fields. Xadgets: three is the least number for which turning left and turning right differ; the menu has the
code's own three levels and default list, and lists of one and two items differ in whether the focus can move. Elements to draw: three make a grandchild,
for which a parent and an ancestor differ; three settings are an image, a size and an opacity, or a bar's image, range and value; the two frames are limited by different sides of the view. Nodes: four in a table of four on three levels fill both, and a second document
meets what the first left. Documents: every kind of token, declaration and error of `XmlParse` occurs, alone and behind
each other kind of piece; with units of 1 and 2 every token is cut everywhere, 7 keeps some whole, and all documents with a prolog are also broken off after every byte. String resources have three strings on lines of their own, one of them repeated, nested, empty, too long or the same as another after `NameMax` characters. `FlipDura`, `MenuDura`
and `DpadRein` of one frame distinguish before, at and after the limit, which is all the code compares.

**Symmetry** is used only in safety runs, over values (requests, calls, buffers, threads) that the specification treats alike.

**Deadlock** is checked in every run but those of `Ui`, where the program stops at its end or at a fault, of `Elements`, where everything has been set, and of `XDom`, where the context ends; in `XpNet` the ended program is `Terminated`.

## 4. Fairness

- `XpNet`: `WF` of each thread and of the main thread. Both are preemptively scheduled and sleep at
  every poll. No fairness for scripts, the user or the garbage collector: nobody must press a key or send a request. Without `"slowNet"` a network
  call returns, as the code's own timeouts and the peer make it do; `StopReturns` does not rely on that.
- `Timers`: `WF` of the loop's turn and of the clock.
- `XmlParse`, `XDom`, `Elements`: none; that reading a document ends is not checked (deadlock is: a document that is not done has a next step).
- `Ui`: `WF(Step)`, the loop. Time passes in `Render`, which waits for the screen's vertical blank (200 ms on Linux); no key need ever be pressed or released. `Tick` needs no fairness.

## 5. Findings and other counterexamples

Two disagreements between the code and what it says are runs (`expect: violation`):

1. `xpnet_v_putback` (`main.c:234`): on a profile switch the script contexts, with their XMLHttpRequests, are deleted before
   `xjse_xpnet_reset` stops the thread; a response that ends in between is written to freed private data.
2. `timers_v_replace` (`main.c:168`): after a callback the loop looks at the slot, not at the timer it fired. A callback that
   clears its own interval and sets a timeout loses the new timer.

Every kind that is not in the `Env` of a passing run has a counterexample: add the kind to `Env` in that run's configuration and keep the property alone. The hazards of these kinds are therefore shown by this table; the runs show that the properties hold as long as they stay away.

| run | kind | property | what happens |
|---|---|---|---|
| `xpnet_safety` | `slowNet` | `ThreadGoneAfterWait` | the wait ends after 4 s and counts as success (`xjse_xpnet.c:54, 524`): two threads work on one table |
| `xpnet_safety` | `tornFlags` | `ThreadGoneAfterWait` | `EXIT` set by the main thread is lost in the thread's update of `flags` (264) |
| `xpnet_safety` | `collect` | `CallBackLive` | a queued job does not keep its object from the garbage collector (437) |
| `xpnet_safety` | none, but `Owner <- OneXhr` | `OwnResponse` | two calls of `send()` of one object: the first's response is shown as the second's (`xjse_xpnet.c:434`) |
| `xpnet_live` | `netFailure` | `JobCompletes` | one failed request ends the thread (318); jobs after it stay queued |
| `xpnet_live` | `earlyClose` | `JobCompletes` | a connection that closes without a byte leaves its slot taken (704) |
| `tree_edits` | `remove` | `RemovedGone` | `removeElement()` of a child that is not the first one does nothing (`xgg.c:501`) |
| `tree_edits` | `insert` | `ImplementsTree` | a second element inserted before the same one loses the first (`xgg.c:115`) |
| `timers` | `replace`, `staleId` | `Kept` | see above, and `timers_v_stale` below |
| `tree_edits` | `wrapper`, `reentrant` (with `MaxParses = 2`) | `OpenPath`, `ImplementsTree` | what is in an element without object is linked to whatever the stack holds; a `<script>` that appends moves the level of the document around it (`xgg.c:179, 592`) |
| `images_cache` | `newData` | `ShowsAsked` | new data under an old name is not shown (`xgg_basicelement.c:435`) |
| `ui_keys` | `midflip` | `NoFault` | a profile that is chosen within 300 ms of a flip is drawn through a null pointer (`xgg_basicelement.c:343`) |
| `ui_keys` | `turned` | `NoFault`, `Ring` | `nflipoffset` outlives the profile (`xjse.c:418`) |
| `ui_keys` | `narrow` | `FocusOnItem` | the focused index outlives the list (`xtk_ui.c:515`) |
| `ui_keys` | `edge` | `TurnsByOne` | a second flip before the first one is completed (`xtk_ui.c:433`) |
| `ui_keys` | `many` | `NoFault` | the end tag of an xadget too many loads a context past the table (`xjse.c:547`) |
| `ui_keys` | `noMemory` | `NoFault`, `Ring` | an xadget whose context could not be made is loaded at its end tag all the same, and leaves a hole in the table (`xjse.c:547`) |
| `ui_keys` | `empty` | `NoFault`, `Ring` | without xadgets a turn divides by their number (`xtk_ui.c:448`), and a click finds none |
| `ui_keys` | `noFrames`, `broken` | `NoFault` | the frames of the first frameset are copied when there is none (`xjse.c:614`); an `onopen` is run for an xadget that the file broke off in |
| `ui_keys` | `missing` | `NoFault` | the `onopen` of a gadget without `main.xml` is looked up in freed memory (`xjse.c:547`) |
| `elements` | `badSize` | `SizesAsAsked` | a size that is no number is read from uninitialised memory (`xgg_basicelement.c:213`) |
| `elements` | `ofView` | `SizesAsAsked` | percentages of the view fail (221) |
| `elements` | `resize`, `otherImage` | `SizesAsAsked` | percentages do not follow the parent; a second image is stretched to the size of the first (`xgg_img.c:66`) |
| `elements` | `zeroSize` | `SizesAsAsked` | a side that was set to 0 counts as not set, and gets the size of the next image (`xgg_img.c:66`) |
| `elements` | `overOpaque` | `FadesWithAncestors` | an opacity of 256 is not cut to 255 but starts from 0 again, and one with a percent sign is what was in memory (`xgg_basicelement.c:189`) |
| `elements` | `fadeText`, `hide` | `FadesWithAncestors` | labels do not fade (`xgg_label.c:167`); labels, bars and what is in a `<div>` do not hide |
| `elements` | `barMin` | `FitsFrame` | the value of a bar is not counted from its least value (`xgg_progressbar.c:99`) |
| `elements` | `badView` | `FitsFrame` | the frame is divided by the size of a view that has none (`xgg_basicelement.c:365`) |
| `elements` | `pieces` | `LabelsAsAsked` | a label keeps the last piece of its text (`xgg.c:256`) |
| `elements` | none, but `CoveredAsAsked` for `LabelsAsAsked` | `CoveredAsAsked` | a label shows the text behind it, even a line end (`xgg.c:256`) |
| `response_nodes` | `stale` | `ImplementsNodes`, `NoFault` | after a document that broke off, or filled the table, the next one starts at its level, with its entries (`xgg_dom.c:467`) |
| `response_nodes` | `early` | `NoFault` | `responseXML` before the response, or a search in an empty DOMDocument, follows a null pointer |
| `response_nodes` | `twice` | `NoFault` | two `responseStream`s share a buffer that the finalizer of each frees (`xjse_xhr.c:96, 153`) |
| `response_nodes` | `collect` | `NoFault` | nodes are not rooted while a document is read or a loop runs (`xgg_dom.c:476`) |
| `response_nodes` | `shrink` | `LoopVisitsAll` | an Enumerator over a collection that has become shorter never ends (`xjse_jsutil.c:228`) |

Other counterexamples have a configuration of their own, which can be checked with `tlc -config <file> MC<module>`:

| configuration | property | what happens |
|---|---|---|
| `xpnet_v_exit` | `ExitClearedByThread` | a thread that has died leaves `EXIT` to the main thread (525), although a comment says the thread does it |
| `xpnet_v_rule` | `OnlyThreadConnects` | at the exit the main thread disconnects (503) |
| `timers_v_negative` | `Paced` | a negative delay is due at once (`xjse.c:203`) |
| `timers_v_stale` | `ClearsOwn` | the identifier of a timer that is over clears its slot's new owner (`xgg.c:711`) |
| `timers_v_slow` | `EveryTimerFires` | turns longer than the minimum timeout starve the higher slots (`xjse.c:255`) |
| `tree_v_insert` | `InsertsBefore` | the predecessor in `apelems` is taken for the elder sibling (`xgg.c:115`) |
| `response_v_deep` | `ResponseKept` | the end tags of a document nine levels deep clear the fields of the response (`xgg_dom.c:449`) |
| `xml_v_empty` | `EmptyTaken` | a string resource without text keeps the text of the one before (`xjse_fileio.c:184`) |
| `xml_v_long` | `LongCut` | of a string that is too long a middle piece may be dropped, depending on the units (`xjse_fileio.c:197`) |
| `xml_v_place` | `SamePlace` | after an error the loop goes on (`xjse_fileio.c:265`), and later reports count the position from a buffer that may be gone |

Smaller hazards of the code that no property covers: `open()` frees the url of a job of the same object
(`xjse_xhr.c:206`, modelled by `FreeUrls`); timers'
functions and unnamed elements are not rooted (`xjse.c:210`, `xgg.c:156`); an unreadable `event` ends the pass for all xadgets
(`main.c:116`, modelled by `TurnLost`); documents nine levels deep write past the stack (`xgg.c:127`); removed elements are
still drawn (`main.c:66`); a failing last `onopen` ends the program at its start (`xjse.c:626`); the exit frees the toolkit before the contexts
whose images are in it (`main.c:359`); `xjse_js_compilefile` says success when it has failed, with the script pointer not set and the file left open
(`xjse_fileio.c:305`).

## 6. Proofs

All theorems hold for every value of the constants that satisfies the named assumptions.

**`XpNetProofs`.**
`TypeCorrect` proves `TypeOK` in every environment. `TypeOK` is not inductive: an action writes `state[at[t]]`, so
that `at[t]` must be in range wherever the thread has found a job; `IndexInv` adds this.
`StopProtocol` proves `ThreadGoneAfterWait`, and that at most one thread lives (`OneThread`), assuming that neither `"slowNet"` nor
`"tornFlags"` is in `Env`. The argument is `ExitInv`: only an exiting thread takes `EXIT` away, and the main thread alone
sets it; so while it waits, the absence of `EXIT` means that the thread is gone, and only then it starts another one.
`ThreadFrame` and `ThreadFlags` say what any step of a thread leaves alone.

The jobs (with the same two assumptions on `Env`; the invariants are in `XpNetInv`).
`SlotStaysHeld` proves `SlotHeld` from `OwnershipInv`: a thread changes only the slot it holds, along EMPTY - SENDREADY -
SENT - RESPREADY, and the main thread only slots nobody holds. `MarkSlot`, which would break this, runs when no thread does: here
the stop protocol is needed.
`CalledAtMostOnce` proves `CalledOnce` from `JobInv`: a taken slot stands for one accepted call of `send()`, no two for the same,
and its script has been called only if it is being called now.
`CalledObjectExists` proves `CallBackLive` from `LiveInv`, without `"collect"`: after a profile switch a slot may stand for a deleted
object only until `MarkSlot` has passed it. (The table in section 5 has the counterexample with `"collect"`.)
`ResponsesNeverMix` proves `OwnResponse` from `ResponseInv`, for a request per object; `ResponseInv` itself says that
the bytes an object holds come from requests made on it, whichever they are.

The refinement, under the same two assumptions (together `Calm`):
`JobsImplemented` proves `ImplementsJobs`, the refinement of `XpJobs` by the threads, the table and the flags. `PhaseTaken` and `PhaseOver`
say what the mapping makes of a request with and without a slot; each action is then a step of `XpJobs`, or changes neither `Holder` nor `Phase`.
`JobInv` is what makes the mapping a function (one slot for a request); `CallInv` adds that a request that is being called back has been counted.

**`TimersProofs`.**
`TypeCorrect` proves `TypeOK` together with `TableInv` (a call has one slot, whose flags say what it is).
`RunsOnceAlways` proves `RunsOnce` for all scripts: by `OnceInv` a timeout that has been fired is in the table only until its turn
ends, and what a script has put in its place has not been fired.
`NothingLost` proves `Kept` without `"replace"` and `"staleId"`: by `FiringInv` the slot of the fired timer is its own or empty
while the callback runs, and by `EndInv` an animation stops recurring only in the turn that gives it its end value.
`TakenBackStaysSilent` proves the action property `TakenBackSilent` from `StandingInv`: a call with a slot stands.
`PacedAlways` proves `Paced` without `"replace"` and `"staleId"`, for delays in `Nat`: by `PaceInv` what is left of a waiting timer's time and its age make up at least the minimum, and what the loop has
found is due.

**`UiProofs`.**
`FocusStaysOnItem` proves `FocusOnItem` without `"narrow"`. It is not inductive, as it says nothing of the lists while the menu is closed:
`MenuInv` adds that level 1 keeps the default list, that level 2 is the topmost that is ever opened (so the clamp at `xtk_ui.c:479`,
which lets a level past the table through, is never reached), and that the focus of a list is kept in order
before its level is opened.
`RingAlways` proves `Ring` for any number of xadgets, when profiles have xadgets, files and memory and are not chosen in mid-flip or in a turned ring (`Ordered`).
In `RingInv`, `TableInv` says that the contexts fill the table from its start, `ReadInv` which of those being read are there already, and `PlaceInv` that xadget *i*
has, or is flipping to, frame (*i* + offset) mod *n*; that two xadgets never share a frame is then arithmetic (`FrameIs`).
`NeverFaults` proves `NoFault` with nothing in `Env` but `"edge"`, from `RingInv` and the fact that the context of an open tag has an entry of the table.
`FlipsTurnByOne` proves the action property `TurnsByOne` from `TurnInv`: all xadgets that flip go the same one place.

**`PixbufsProofs`.**
`RefsExactAlways`, `CacheSoundAlways`: in every environment, for all numbers of fields, names, buffers and entries and every width of the counter, as long
as no buffer gets more references than it can count (`MaxRefs`). `CountsRight` says for each buffer that it is freed if and only if nothing uses it, and counted by its holders' number, or by more once a `<progressbar>` has forgotten
it; `CacheRight` that a name is in the table once and that, before the table overflows, all that is held is in it.
`ShowsAskedAlways` proves `ShowsAsked` without `"newData"`, by `DataRight`.

**`ElementsProofs`**, over `DocInv` (elements have the shape, the parents and the open tags the parser gives them):
`LabelsAsAskedAlways` without `"pieces"`: a current label is open, or `behind` has it (`LabelInv`).
`SizesAsAskedAlways` without `"badSize"`, `"ofView"`, `"resize"`, `"otherImage"` and `"zeroSize"`: `SizeInv` says of each side whether it is what was asked for, of the parent's size *now*, or the image's.
`FitsFrameAlways` without `"badView"` and `"barMin"`, for frames whose corners are in order (the reader of profiles does not check that): the scale is the smaller of two quotients, so that each side fits, through all steps of a flip.
`FadesWithAncestorsAlways` without `"overOpaque"`, `"fadeText"` and `"hide"`: the recursive functions `Line` (the ancestors of an element) and `Blend` (the product of opacities) are shown to exist
and to be bounded by the opacity of each element they go through.

**`XDomProofs`.**
`TypeAlways` proves `TypeOK` in every environment; `ReadInv` adds that the level of the object that is read is at least the number of open elements, so that no end tag takes it below its ground.
`NoFaultAlways` proves `NoFault` for well-behaved documents and scripts (`Sound`: none of `"stale"`, `"deep"`, `"early"`, `"twice"`, `"collect"`). By `SafeInv` the table that
a document is read into has a null entry until its count is full, so that no search passes its end; and what is in a living element lives (`DeadInv`), which `AliveInside` carries from parents to all that is inside.
`LoopVisitsAllAlways` proves `LoopVisitsAll` without `"stale"`, `"deep"` and `"shrink"`. `LinksInv` says that `first` and `next` are the document's links and that the numbers of nodes are
its order (what lies between an element and something inside it is inside it). What keeps it when a node is made is `Opened`: the table of the object that is read has the newest nodes, one by one, the stack has the open elements,
and all nodes since the start tag of an open element are inside it; so the entry at which `xjse_treeelem_family_set` stops is the last child. From `LinksInv`, `Walked` shows by induction
from the last node to the first that the recursion lists what is below a node in order, and `LoopInv` that an element a loop stands on is not open, so that documents that are read meanwhile do not change it (`InsideKept`).
`ImplementsNodesAlways` proves the refinement `ImplementsNodes` without `"stale"` and `"deep"`, from the same invariant: the entry that the search stops at is the end of the chain of siblings in the element the new node is in, so that chain gets the new node
at its end (`ChainLonger`), and the chains of all other elements do not come past that entry (`ChainApart`, `KidsGrow`). Roots may be linked to the roots of earlier documents, as the search looks at old entries too; no child is.
The recursive function in `Inside` is shown to exist as the least set that is closed under being a child, and the induction over ancestors is the choice of a least counterexample (`LeastNumber`).

**`ElemTreeProofs`.**
`OpenPathAlways` proves `OpenPath` without `"wrapper"` and `"reentrant"`, whatever is inserted and removed. `PathInv` gives the stack what lies below the open elements as well, the element a fragment goes into, and says that an
element without object can be open in the middle only when `apelems` is full, so that nothing is linked below it. The depth of an element is the length of a chain of pointers; `DepthKept` shows, from
parents being older than their children, that a new entry changes no depth and has its parent's plus one.
The other three need that the code's assumptions about the order of `apelems` are met (`Env = {}`). `FamilyInv` says of each element that all that were ever made its children are one chain of siblings, of which the first ones, and
no others, have been removed; this is what `children()` does not show, and what the search for the last sibling depends on (`xgg.c:102`). It is kept by appending at the end of the chain
(`FamilyAppend`), inserting behind the elder sibling (`FamilyInsert`) and removing the first child (`FamilyRemoved`).
`RemovedGoneAlways` proves `RemovedGone` from it; `ImplementsTreeAlways` proves the refinement `ImplementsTree`: `ChildrenAppend`, `ChildrenInsert` and `ChildrenRemoved` say what a step on the pointers does to the
sequence `children()` returns, `ContainerIs` that the top of the stack is the tree's innermost open element, and `EditInv` that `pdirectsibling` belongs to the document that is read.
`FocusOrderAlways` proves `FocusOrder` under the same condition. `FindExists` shows that the recursion of `xgg_find_nextendnode` ends: a first child and a younger sibling have fewer elements below and beside them (`All`)
than the element itself has (`RanksExist`). `Before` is an order (`BeforeApart`: of siblings an element is in one only), which puts what is below an element before it and both before what is beside it (`AllParts`); `Right` says what
the search from any sibling on returns, whether the focused element is met or not, and `JoinedRight` is its induction step: what it finds below, at, and beside an element.
`Chains` proves that the recursive function in `Chain` exists and when a chain is the same, longer by one, or another, after an entry of the table has changed.

The assumptions on `Env` are those of the runs, kind by kind: for each of them the table in section 5 has a counterexample.

**Induction.** The provers cannot use the library's induction theorems, whose parameter is an operator. Nodes, elements and levels are numbers, so the proofs take the least number of
a set of counterexamples (`LeastNumber`), and a recursive function is handled by exhibiting one that satisfies its equation.

**Only model-checked**: liveness; the refinement `ImplementsReader`;
and everything about the parser (`RawNamesLive`, `PositionRight`, `StringsTaken`), which rests on recursive operators. All other properties of the passing runs are proved.

## 7. Not modelled

Drawing beyond the place, the part and the opacity of what is drawn (rotation, fonts, colours on the screen, boundary boxes), decoding of images, sockets and HTTP parsing beyond success and failure, the creation of script contexts and objects (SpiderMonkey),
captions, attributes of elements of a response as script properties, options, the debug output and the kernel extension. The start of the program is modelled from the first profile on.

Of `expat`: name spaces, external and parameter entities that are read, the handlers of declarations, comments and processing instructions, encodings other
than UTF-8, suspending and resuming, exhausted memory, and its own hash tables and string pools. The program sets none of those handlers and all of its files are UTF-8.

Half of the repository's lines cannot be modelled, because they hold no behaviour: the headers of SpiderMonkey, libpng, zlib and libjpeg (`js_1.6/`, `pspinc/`, 17 600 lines), the tables and
macros of `expat`'s headers, class tables of script objects, code that is compiled out (`unused_snippets.c`, `#if 0`). Of what remains
the modules cover the parts with state or order in them; the others are calls into the graphics, network and file libraries, one after the other.

## 8. Plan

Done, in this order: the job table and its threads (the only concurrency), timers (callbacks change the
table under the loop), the tree, images, profiles and the loop, the DOM of responses with the getters of XMLHttpRequest, the XML parser and the string resources, the elements as they are drawn. Next:

1. `Elements`: rotation about a pin.
2. The exit with the image table; documents in UTF-16, whose characters a unit may cut.
