--------------------------------- MODULE Ui ---------------------------------
(***************************************************************************)
(* The main thread's loop (xtk_ui.c, main.c): the xadgets of a profile     *)
(* change places in the frames of the screen, a menu of levels is opened   *)
(* and closed, and its commands load another profile.                      *)
(*                                                                         *)
(* Time is counted in rendered frames.  An age is the time since an event, *)
(* -1 where the code has reset its time stamp to 0.                        *)
(***************************************************************************)
EXTENDS Profiles, Sequences

CONSTANTS
  NMaxMenuLevel,  (* XTKC_NMAX_MENULEVEL                                    *)
  NMaxMenuItems,  (* XTKC_NMAX_MENUITEMS                                    *)
  FlipDura,       (* XTKC_FLIPDURA                                          *)
  MenuDura,       (* XTKC_MENUDURA                                          *)
  DpadRein,       (* XTKC_DPADREIN                                          *)
  ListSizes,      (* how many profiles or access points there are           *)
  None

DefaultItems == <<"click", "enumprofs", "enumwlanaps", "test01", "exit">>

ASSUME MenuAssumption ==
  /\ NMaxMenuLevel \in Nat /\ NMaxMenuLevel > 2
  /\ NMaxMenuItems \in Nat /\ Len(DefaultItems) <= NMaxMenuItems
  /\ ListSizes \subseteq 1 .. NMaxMenuItems
ASSUME TimeAssumption ==
  FlipDura \in Nat \ {0} /\ MenuDura \in Nat \ {0} /\ DpadRein \in Nat
ASSUME NoneAssumption == None \notin Xadgets \cup [frame : Xadgets, flipto : {None} \cup Xadgets]

VARIABLES
  at,           (* what the loop does next: see Stages                      *)
  caller,       (* who loads the profile: main() or the menu                *)
  ctxs,         (* apjsectx: xadgconf and pxadgconfflipto, by frame         *)
  nflipoffset, flipAge,
  umenulevel, apmenuitems, aumenuitem, menuAge,
  dpadAge,      (* tdpadlast                                                *)
  exiting       (* XTKCTXFLG_EXIT                                           *)

flip == <<nflipoffset, flipAge>>
menu == <<umenulevel, apmenuitems, aumenuitem, menuAge>>
keys == <<dpadAge, exiting>>
loader == <<xctx, caller>>
vars == <<xctx, fault, at, caller, ctxs, nflipoffset, flipAge, umenulevel,
          apmenuitems, aumenuitem, menuAge, dpadAge, exiting>>

(* The loop completes a flip, asks for each key, and renders.              *)
Stages == <<"top", "ltrigger", "rtrigger", "triangle", "square", "circle",
            "left", "up", "down", "render">>
After == [s \in {Stages[k] : k \in 1 .. Len(Stages)} |->
           LET k == CHOOSE k \in 1 .. Len(Stages) : Stages[k] = s
           IN  IF k = Len(Stages) THEN "top" ELSE Stages[k + 1]]

Levels == 0 .. NMaxMenuLevel - 1
NoList == <<"null">>
Lists == {[k \in 1 .. n |-> cmd] : n \in ListSizes, cmd \in {"selectprof", "selectwlanap"}}

(* Items that are not set have the command XTK_MICMD_NONE.                 *)
Cmd(l, u) == IF u < Len(apmenuitems[l]) THEN apmenuitems[l][u + 1] ELSE "none"

MenuIsOpened == umenulevel > 0

(* The entries of apjsectx before the first one that is null.              *)
Loaded == {i \in Xadgets : \A j \in 0 .. i : ctxs[j] # None}
NXadgets == Cardinality(Loaded)

(* The context that gets clicks and the focus.                             *)
HasFront == nflipoffset \in Xadgets /\ ctxs[nflipoffset] # None

Init ==
  /\ xctx = EmptyXctx
  /\ fault = "none"
  /\ at = "load" /\ caller = "main"
  /\ ctxs = [i \in Xadgets |-> None]
  /\ nflipoffset = 0 /\ flipAge = -1
  /\ umenulevel = 0 /\ menuAge = -1
  /\ apmenuitems = [l \in Levels |-> IF l = 1 THEN DefaultItems ELSE NoList]
  /\ aumenuitem = [l \in Levels |-> 0]
  /\ dpadAge = DpadRein + 1
  /\ exiting = FALSE

Crash(where) ==
  /\ FaultIn(where)
  /\ UNCHANGED <<at, caller, ctxs, flip, menu, keys>>

Runs(stage) == fault = "none" /\ at = stage

Proceed == at' = After[at] /\ UNCHANGED <<fault, loader>>

-----------------------------------------------------------------------------
(* Loading a profile                                                       *)

Callback ==
  /\ Runs("load")
  /\ ReadTag
  /\ UNCHANGED <<at, caller, ctxs, flip, menu, keys>>

(* Where the program goes on: main() ends when the load has failed.        *)
LoadReturns(success) ==
  /\ at' = IF caller = "menu" THEN "left" ELSE IF success THEN "top" ELSE "cleanup"
  /\ xctx' = EmptyXctx
  /\ UNCHANGED <<fault, caller, flip, menu, keys>>

(* The file cannot be opened.                                              *)
OpenFails ==
  /\ Runs("load") /\ xctx = EmptyXctx
  /\ caller = "main" \/ "empty" \in Env
  /\ LoadReturns(FALSE)
  /\ UNCHANGED ctxs

(* A new context is in its own frame and has nowhere to flip to.           *)
Published(i) == [frame |-> i, flipto |-> None]

(* The end of the file: the contexts are placed and run their onopen, the  *)
(* last of which decides about the result.                                 *)
Publish ==
  /\ Runs("load") /\ MayEnd
  /\ IF \/ Made # {} /\ xctx.uidxframeset = 0
        \/ \E i \in Made : xctx.apxjsectx[i] # "read"
     THEN Crash("xjse_xadgprof_load")
     ELSE /\ \E success \in IF Made = {} THEN {TRUE} ELSE BOOLEAN : LoadReturns(success)
          /\ ctxs' = [i \in Xadgets |-> IF i \in Made THEN Published(i) ELSE ctxs[i]]

-----------------------------------------------------------------------------
(* Flipping: xtk_xadgets_flip and the top of xtk_mainloop                  *)

(* Mutant: the time stamp of the flip is kept.                             *)
CompleteKeepsTime ==
  /\ Runs("top") /\ flipAge > FlipDura
  /\ ctxs' = [i \in Xadgets |-> IF i \in Loaded
                                THEN [ctxs[i] EXCEPT !.frame = ctxs[i].flipto] ELSE ctxs[i]]
  /\ Proceed
  /\ UNCHANGED <<flip, menu, keys>>

(* A flip that has lasted longer than its time is completed.               *)
Complete ==
  /\ Runs("top") /\ flipAge > FlipDura
  /\ IF \E i \in Loaded : ctxs[i].flipto = None
     THEN Crash("xtk_mainloop")
     ELSE /\ ctxs' = [i \in Xadgets |-> IF i \in Loaded
                                        THEN [ctxs[i] EXCEPT !.frame = ctxs[i].flipto]
                                        ELSE ctxs[i]]
          /\ flipAge' = -1
          /\ Proceed
          /\ UNCHANGED <<nflipoffset, menu, keys>>

NothingToComplete ==
  /\ Runs("top") /\ flipAge <= FlipDura
  /\ Proceed
  /\ UNCHANGED <<ctxs, flip, menu, keys>>

(* The index of the context that comes to the front.                       *)
Offset(n) ==
  LET m == IF nflipoffset + n < 0 THEN NXadgets - 1 ELSE nflipoffset + n
  IN  IF m >= NXadgets THEN m % NXadgets ELSE m

(* Mutant: the other way round.                                            *)
FrameOfAnti(i, off) == (i + off) % NXadgets

FrameOf(i, off) == (i + NXadgets - off) % NXadgets

(* Mutant: a flip under way does not refuse another one.                   *)
NeverTooEarly == FALSE

TooEarly == flipAge >= 0 /\ flipAge < FlipDura

Flip(n) ==
  \/ TooEarly /\ Proceed /\ UNCHANGED <<ctxs, flip, menu, keys>>
  \/ /\ ~TooEarly
     /\ flipAge < FlipDura \/ "edge" \in Env
     /\ IF NXadgets = 0 /\ nflipoffset + n >= 0
        THEN Crash("xtk_xadgets_flip")
        ELSE /\ nflipoffset' = Offset(n)
             /\ ctxs' = [i \in Xadgets |->
                          IF i \in Loaded
                          THEN [ctxs[i] EXCEPT !.flipto = FrameOf(i, Offset(n))]
                          ELSE ctxs[i]]
             /\ flipAge' = 0
             /\ Proceed
             /\ UNCHANGED <<menu, keys>>

LeftTrigger == Runs("ltrigger") /\ Flip(-1)
RightTrigger == Runs("rtrigger") /\ Flip(1)

-----------------------------------------------------------------------------
(* The menu                                                                *)

MenuMoves == menuAge # -1 /\ menuAge < MenuDura

Target(n) ==
  IF n > 0 /\ umenulevel + n > NMaxMenuLevel THEN NMaxMenuLevel ELSE umenulevel + n

(* The default list of level 1 is never freed.                             *)
MenulistFree(lists, l) == IF l = 1 THEN lists ELSE [lists EXCEPT ![l] = NoList]

(* xtk_menulist_set: the list that is there is freed first.                *)
MenulistSet(lists, l, list) == [MenulistFree(lists, l) EXCEPT ![l] = list]

(* Mutant: a level is opened whether it has a list or not.                 *)
MenuToggleAnyway(lists, n) ==
  IF MenuMoves
  THEN apmenuitems' = lists /\ UNCHANGED <<umenulevel, menuAge>>
  ELSE /\ umenulevel' = Target(n)
       /\ apmenuitems' = IF n < 0 THEN MenulistFree(lists, umenulevel) ELSE lists
       /\ menuAge' = 0

(* xtk_menu_toggle, over the lists as they are then: a level that has no   *)
(* list is not opened; the list of one that is left is freed, the default  *)
(* one excepted.                                                           *)
MenuToggle(lists, n) ==
  IF MenuMoves \/ (n > 0 /\ lists[Target(n)] = NoList)
  THEN apmenuitems' = lists /\ UNCHANGED <<umenulevel, menuAge>>
  ELSE /\ umenulevel' = Target(n)
       /\ apmenuitems' = IF n < 0 THEN MenulistFree(lists, umenulevel) ELSE lists
       /\ menuAge' = 0

Triangle ==
  /\ Runs("triangle")
  /\ MenuToggle(apmenuitems, IF MenuIsOpened THEN -1 ELSE 1)
  /\ Proceed
  /\ UNCHANGED <<ctxs, flip, aumenuitem, keys>>

Square ==
  /\ Runs("square")
  /\ IF MenuIsOpened THEN MenuToggle(apmenuitems, -1) ELSE UNCHANGED menu
  /\ Proceed
  /\ UNCHANGED <<ctxs, flip, aumenuitem, keys>>

(* Mutant: the focus goes past the last item of a list.                    *)
MenuItemOffsetPast(n) ==
  /\ Runs(IF n < 0 THEN "up" ELSE "down")
  /\ dpadAge >= DpadRein /\ MenuIsOpened
  /\ LET u == aumenuitem[umenulevel] + n IN
       /\ u \in 0 .. NMaxMenuItems - 1
       /\ aumenuitem' = [aumenuitem EXCEPT ![umenulevel] = u]
  /\ dpadAge' = 0
  /\ Proceed
  /\ UNCHANGED <<ctxs, flip, umenulevel, apmenuitems, menuAge, exiting>>

(* xtk_menuitem_offset, where it moves the focus.                          *)
MenuItemOffset(n) ==
  /\ Runs(IF n < 0 THEN "up" ELSE "down")
  /\ dpadAge >= DpadRein /\ MenuIsOpened
  /\ LET u == aumenuitem[umenulevel] + n IN
       /\ u \in 0 .. NMaxMenuItems - 1
       /\ Cmd(umenulevel, u) # "none"
       /\ aumenuitem' = [aumenuitem EXCEPT ![umenulevel] = u]
  /\ dpadAge' = 0
  /\ Proceed
  /\ UNCHANGED <<ctxs, flip, umenulevel, apmenuitems, menuAge, exiting>>

-----------------------------------------------------------------------------
(* The circle or the cross: a click, or cb_on_menuitem                     *)

Command == Cmd(umenulevel, aumenuitem[umenulevel])

Chosen(cmds) == Runs("circle") /\ MenuIsOpened /\ Command \in cmds

(* xjse_xadget_click runs a script of the xadget in front.                 *)
Click ==
  /\ Runs("circle") /\ ~MenuIsOpened
  /\ IF HasFront THEN Proceed /\ UNCHANGED <<ctxs, flip, menu, keys>>
                 ELSE Crash("xjse_xadget_click")

(* "click", "test01" and no item at all do nothing.                        *)
ChooseNothing ==
  /\ Chosen({"click", "test01", "none", "null"})
  /\ IF apmenuitems[umenulevel] = NoList
     THEN Crash("cb_on_menuitem")
     ELSE Proceed /\ UNCHANGED <<ctxs, flip, menu, keys>>

(* The list of the level above is made and opened.  The profiles' one is   *)
(* null when their directory cannot be read.                               *)
ChooseEnum ==
  /\ Chosen({"enumprofs", "enumwlanaps"})
  /\ IF Command = "enumwlanaps" /\ ctxs[0] = None
     THEN Crash("cb_on_menuitem")
     ELSE /\ \E list \in Lists \cup {NoList} :
               /\ list[1] \in IF Command = "enumprofs" THEN {"selectprof", "null"}
                                                       ELSE {"selectwlanap"}
               /\ list = NoList \/ aumenuitem[2] < Len(list) \/ "narrow" \in Env
               /\ MenuToggle(MenulistSet(apmenuitems, 2, list), 1)
          /\ Proceed
          /\ UNCHANGED <<ctxs, flip, aumenuitem, keys>>

(* All contexts are deleted before the profile is read.                    *)
ChooseProfile ==
  /\ Chosen({"selectprof"})
  /\ flipAge = -1 \/ "midflip" \in Env
  /\ nflipoffset = 0 \/ "turned" \in Env
  /\ IF \A i \in Xadgets : ctxs[i] = None
     THEN Crash("xjse_xpnet_reset")
     ELSE /\ ctxs' = [i \in Xadgets |-> None]
          /\ at' = "load" /\ caller' = "menu" /\ xctx' = EmptyXctx
          /\ UNCHANGED <<fault, flip, menu, keys>>

ChooseAccessPoint ==
  /\ Chosen({"selectwlanap"})
  /\ IF ctxs[0] = None THEN Crash("cb_on_menuitem")
                       ELSE Proceed /\ UNCHANGED <<ctxs, flip, menu, keys>>

ChooseExit ==
  /\ Chosen({"exit"})
  /\ exiting' = TRUE
  /\ Proceed
  /\ UNCHANGED <<ctxs, flip, menu, dpadAge>>

-----------------------------------------------------------------------------
(* The rest of the loop                                                    *)

(* The left key moves the focus of the xadget in front to its next element *)
FocusNext ==
  /\ Runs("left") /\ dpadAge > DpadRein
  /\ IF HasFront
     THEN dpadAge' = 0 /\ Proceed /\ UNCHANGED <<ctxs, flip, menu, exiting>>
     ELSE Crash("xjse_xadget_focus_next")

(* A key is not pressed, or too soon after the last one to be noticed.     *)
NoKey ==
  /\ fault = "none" /\ at \in DOMAIN After \ {"top", "render"}
  /\ Proceed
  /\ UNCHANGED <<ctxs, flip, menu, keys>>

(* The age a time stamp has one frame later, up to where it is noticed.    *)
Older(age, limit) == IF age >= 0 /\ age <= limit THEN age + 1 ELSE age

(* In a flip every xadget is drawn between two frames.                     *)
FlipsNowhere == flipAge # -1 /\ \E i \in Xadgets : ctxs[i] # None /\ ctxs[i].flipto = None

(* Rendering draws every xadget, and the menu, whose time stamp ends with  *)
(* its animation; it waits for the next frame of the screen.               *)
Render ==
  /\ Runs("render")
  /\ IF FlipsNowhere
     THEN Crash("xgg_xadget_apply_trans")
     ELSE /\ flipAge' = Older(flipAge, FlipDura)
          /\ menuAge' = IF MenuMoves THEN menuAge + 1 ELSE -1
          /\ dpadAge' = Older(dpadAge, DpadRein)
          /\ at' = IF exiting THEN "cleanup" ELSE "top"
          /\ UNCHANGED <<fault, loader, ctxs, nflipoffset, umenulevel, apmenuitems,
                         aumenuitem, exiting>>

(* xtk_cleanup frees all lists, the default one included.                  *)
ListsFreed == [l \in Levels |-> NoList]

(* main() ends.                                                            *)
Cleanup ==
  /\ Runs("cleanup")
  /\ ctxs' = [i \in Xadgets |-> None]
  /\ apmenuitems' = ListsFreed
  /\ at' = "done"
  /\ UNCHANGED <<fault, loader, flip, umenulevel, aumenuitem, menuAge, keys>>

(* Time that passes otherwise: before the clock is read at the top, and    *)
(* again by the triggers.                                                  *)
Tick ==
  /\ fault = "none" /\ at \in {"top", "ltrigger"}
  /\ flipAge' = Older(flipAge, FlipDura)
  /\ menuAge' = IF MenuMoves THEN menuAge + 1 ELSE menuAge
  /\ dpadAge' = Older(dpadAge, DpadRein)
  /\ UNCHANGED <<fault, at, loader, ctxs, nflipoffset, umenulevel, apmenuitems,
                 aumenuitem, exiting>>

Step ==
  \/ Callback \/ OpenFails \/ Publish
  \/ Complete \/ NothingToComplete
  \/ LeftTrigger \/ RightTrigger \/ Triangle \/ Square
  \/ Click \/ ChooseNothing \/ ChooseEnum \/ ChooseProfile \/ ChooseAccessPoint \/ ChooseExit
  \/ FocusNext \/ MenuItemOffset(-1) \/ MenuItemOffset(1)
  \/ NoKey \/ Render \/ Cleanup

Next == Step \/ Tick

Spec == Init /\ [][Next]_vars

(* The loop runs on by itself; no key need ever be pressed.                *)
FairSpec == Spec /\ WF_vars(Step)

-----------------------------------------------------------------------------
(* Properties                                                              *)

TypeOK ==
  /\ at \in DOMAIN After \cup {"load", "cleanup", "done"}
  /\ caller \in {"main", "menu"}
  /\ exiting \in BOOLEAN
  /\ ctxs \in [Xadgets -> {None} \cup [frame : Xadgets, flipto : {None} \cup Xadgets]]
  /\ nflipoffset \in Xadgets
  /\ flipAge \in -1 .. FlipDura + 1
  /\ menuAge \in -1 .. MenuDura
  /\ dpadAge \in 0 .. DpadRein + 1
  /\ umenulevel \in Levels
  /\ apmenuitems \in [Levels -> Lists \cup {DefaultItems, NoList}]
  /\ aumenuitem \in [Levels -> 0 .. NMaxMenuItems - 1]
  /\ xctx.uidxframeset \in 0 .. NMaxFramesets - 1
  /\ xctx.uidxframe \in 0 .. NMaxXadgets
  /\ xctx.uidxxadget \in 0 .. NMaxXadgets
  /\ xctx.apxjsectx \in [Xadgets -> {"none", "made", "read", "freed"}]
  /\ xctx.inside \in {"none", "xadget", "frameset"}

(* No handler goes through a null or dangling pointer, past a table, or    *)
(* divides by the number of no xadgets: whatever keys are pressed while    *)
(* xadgets move, menus open and profiles are loaded (xtk_ui.c:882,         *)
(* xtk_ui.c:448, xgg_basicelement.c:343, xjse.c:418, main.c:203).          *)
NoFault == fault = "none"

(* Clicks and the focus go to the xadget that is, or will be after the     *)
(* flip, in the first frame (nflipoffset, xtk_ui.c:444, as xjse.c:418 uses *)
(* it): also after other profiles have been loaded.                        *)
FrontHasFocus ==
  Loaded # {} =>
    /\ HasFront
    /\ IF flipAge = -1 THEN ctxs[nflipoffset].frame = 0 ELSE ctxs[nflipoffset].flipto = 0

(* Every xadget has a frame of its own, of the first as many as there are  *)
(* xadgets, and flips to one of its own (xtk_ui.c:457, xjse.c:618).        *)
OwnFrame ==
  /\ {ctxs[i].frame : i \in Loaded} = 0 .. NXadgets - 1
  /\ flipAge # -1 => {ctxs[i].flipto : i \in Loaded} = 0 .. NXadgets - 1

(* The table of contexts has no hole, at which xtk_xadgets_flip and        *)
(* xtk_mainloop would stop counting (xtk_ui.c:439, 879), and neither has   *)
(* the one that is being read.                                             *)
NoHoles ==
  /\ \A i \in Xadgets : ctxs[i] # None => i \in Loaded
  /\ \A i \in Xadgets :
       CASE i < xctx.uidxxadget -> xctx.apxjsectx[i] = "read"
         [] i = xctx.uidxxadget -> (xctx.apxjsectx[i] = "none") = (xctx.inside # "xadget")
         [] OTHER               -> xctx.apxjsectx[i] = "none"

(* The xadgets form a ring: none is missing, each has its place, and the   *)
(* one in front has the focus.  Indices and times are in their ranges.     *)
Ring == TypeOK /\ FrontHasFocus /\ OwnFrame /\ NoHoles

(* While the menu is open the level has a list, and the focused item is    *)
(* one of it, through which cb_on_menuitem (main.c:186) finds its command. *)
FocusOnItem ==
  at # "done" /\ MenuIsOpened =>
    /\ apmenuitems[umenulevel] # NoList
    /\ aumenuitem[umenulevel] < Len(apmenuitems[umenulevel])

(* A flip that ends has moved all xadgets by one frame, in one direction:  *)
(* pressed triggers neither add up nor get lost in between (xtk_ui.c:433,  *)
(* 875).                                                                   *)
TurnsByOne ==
  [][flipAge >= 0 /\ flipAge' = -1 =>
       \E n \in {1, NXadgets - 1} :
         \A i \in Loaded : ctxs'[i].frame = (ctxs[i].frame + n) % NXadgets]_vars

(* Xadgets that flip arrive, however often the triggers are pressed, if    *)
(* the program is not left before (xtk_ui.c:884).                          *)
EveryFlipLands == flipAge >= 0 ~> flipAge = -1 \/ exiting

-----------------------------------------------------------------------------
(* The inductive invariant behind FocusOnItem.  Level 2 is the topmost one *)
(* that is ever opened, its lists are made before it is, and a list is     *)
(* there with the focus on one of its items even while the menu is closed. *)

ItemLists == Lists \cup {DefaultItems, NoList}

FocusIn(l) == apmenuitems[l] # NoList => aumenuitem[l] < Len(apmenuitems[l])

MenuInv ==
  /\ apmenuitems \in [Levels -> ItemLists]
  /\ aumenuitem \in [Levels -> Nat]
  /\ umenulevel \in 0 .. 2
  /\ at # "done" =>
       /\ apmenuitems[1] = DefaultItems
       /\ apmenuitems[2] \in Lists \cup {NoList}
       /\ umenulevel = 2 => apmenuitems[2] # NoList
       /\ FocusIn(1) /\ FocusIn(2)
=============================================================================
