------------------------------ MODULE UiProofs ------------------------------
(***************************************************************************)
(* Proofs about the menu and the xadgets of Ui: for every size of the      *)
(* tables, all lists of profiles and access points, and all times.         *)
(***************************************************************************)
EXTENDS Ui, SequenceTheorems, FiniteSetTheorems, TLAPS

-----------------------------------------------------------------------------
(* Lists of items                                                          *)

LEMMA ListItems ==
  ASSUME NEW list \in Lists
  PROVE  /\ Len(list) \in Nat \ {0}
         /\ \A k \in 1 .. Len(list) : list[k] \in {"selectprof", "selectwlanap"}
         /\ list # NoList /\ list # DefaultItems
  <1>1. PICK n \in ListSizes, cmd \in {"selectprof", "selectwlanap"} :
          list = [k \in 1 .. n |-> cmd]
    BY DEF Lists
  <1>2. n \in Nat \ {0}
    BY MenuAssumption
  <1>3. list \in Seq({"selectprof", "selectwlanap"}) /\ Len(list) = n
    <2>1. list \in [1 .. n -> {"selectprof", "selectwlanap"}]
      BY <1>1
    <2>2. list \in Seq({"selectprof", "selectwlanap"})
      BY <1>2, <2>1, SeqDef
    <2>3. Len(list) \in Nat /\ DOMAIN list = 1 .. Len(list)
      BY <2>2, LenProperties
    <2>4. QED
      BY <1>2, <2>1, <2>2, <2>3
  <1>4. list[1] = cmd
    BY <1>1, <1>2
  <1>5. QED
    BY <1>1, <1>2, <1>3, <1>4 DEF NoList, DefaultItems

LEMMA DefaultList ==
  /\ Len(DefaultItems) = 5
  /\ DefaultItems # NoList
  /\ \A k \in 1 .. 5 : DefaultItems[k] \in {"click", "enumprofs", "enumwlanaps", "test01", "exit"}
  BY DEF DefaultItems, NoList

LEMMA LevelsOpened == 0 \in Levels /\ 1 \in Levels /\ 2 \in Levels /\ 2 < NMaxMenuLevel
  BY MenuAssumption DEF Levels

-----------------------------------------------------------------------------
(* Steps                                                                   *)

(* Most steps leave the menu alone, and none starts at the end.            *)
LEMMA MenuFrame ==
  ASSUME MenuInv, at # "done", UNCHANGED <<umenulevel, apmenuitems, aumenuitem>>
  PROVE  MenuInv'
  BY DEF MenuInv, FocusIn

(* A level is opened over lists that are in order, or closed.              *)
LEMMA MenuToggles ==
  ASSUME MenuInv, at # "done",
         NEW lists \in [Levels -> ItemLists],
         lists[1] = DefaultItems,
         lists[2] \in Lists \cup {NoList},
         umenulevel = 2 => lists[2] # NoList,
         lists[2] # NoList => aumenuitem[2] < Len(lists[2]),
         NEW n \in {-1, 1}, umenulevel + n \in 0 .. 2,
         MenuToggle(lists, n), UNCHANGED aumenuitem
  PROVE  MenuInv'
  <1>1. CASE apmenuitems' = lists /\ UNCHANGED umenulevel
    BY <1>1 DEF MenuInv, FocusIn
  <1>2. CASE n = 1 /\ lists[Target(n)] # NoList /\ umenulevel' = Target(n) /\ apmenuitems' = lists
    <2>1. Target(n) = umenulevel + n
      BY <1>2, LevelsOpened, MenuAssumption DEF Target, MenuInv
    <2>2. QED
      BY <1>2, <2>1 DEF MenuInv, FocusIn
  <1>3. CASE n = -1 /\ umenulevel' = Target(n) /\ apmenuitems' = MenulistFree(lists, umenulevel)
    <2>1. Target(n) = umenulevel - 1 /\ umenulevel \in 1 .. 2
      BY <1>3 DEF Target, MenuInv
    <2>2. CASE umenulevel = 1
      BY <1>3, <2>1, <2>2 DEF MenulistFree, MenuInv, FocusIn
    <2>3. CASE umenulevel = 2
      <3>1. apmenuitems' = [lists EXCEPT ![2] = NoList]
        BY <1>3, <2>3 DEF MenulistFree
      <3>2. apmenuitems' \in [Levels -> ItemLists] /\ apmenuitems'[1] = DefaultItems
            /\ apmenuitems'[2] = NoList
        BY <3>1, LevelsOpened DEF ItemLists
      <3>3. QED
        BY <1>3, <2>1, <2>3, <3>2 DEF MenuInv, FocusIn
    <2>4. QED
      BY <2>1, <2>2, <2>3
  <1>4. QED
    BY <1>1, <1>2, <1>3 DEF MenuToggle

(* The focus moves to an item of the list.                                 *)
LEMMA MenuFocusMoves ==
  ASSUME MenuInv, NEW n \in {-1, 1}, MenuItemOffset(n)
  PROVE  MenuInv'
  <1> DEFINE u == aumenuitem[umenulevel] + n
  <1>1. /\ at # "done" /\ umenulevel \in 1 .. 2
        /\ u \in Nat /\ Cmd(umenulevel, u) # "none"
        /\ aumenuitem' = [aumenuitem EXCEPT ![umenulevel] = u]
        /\ UNCHANGED <<umenulevel, apmenuitems>>
    BY MenuAssumption DEF MenuItemOffset, Runs, MenuIsOpened, MenuInv
  <1>2. u < Len(apmenuitems[umenulevel])
    BY <1>1 DEF Cmd
  <1>3. aumenuitem' \in [Levels -> Nat] /\ aumenuitem'[umenulevel] = u
        /\ \A l \in Levels \ {umenulevel} : aumenuitem'[l] = aumenuitem[l]
    BY <1>1, LevelsOpened DEF MenuInv
  <1>4. FocusIn(1)' /\ FocusIn(2)'
    BY <1>1, <1>2, <1>3, LevelsOpened DEF MenuInv, FocusIn
  <1>5. QED
    BY <1>1, <1>3, <1>4 DEF MenuInv

(* A list is opened from the default list, on level 1 only.                *)
LEMMA MenuEnumOpens ==
  ASSUME "narrow" \notin Env, MenuInv, ChooseEnum
  PROVE  MenuInv'
  <1>1. /\ at # "done" /\ umenulevel \in 1 .. 2
        /\ Command \in {"enumprofs", "enumwlanaps"}
    BY DEF ChooseEnum, Chosen, Runs, MenuIsOpened, MenuInv
  <1>2. umenulevel = 1
    <2>1. SUFFICES ASSUME umenulevel = 2 PROVE FALSE
      BY <1>1
    <2>2. apmenuitems[2] \in Lists /\ aumenuitem[2] \in Nat
          /\ aumenuitem[2] < Len(apmenuitems[2])
      BY <1>1, <2>1, LevelsOpened DEF MenuInv, FocusIn
    <2>3. Command = apmenuitems[2][aumenuitem[2] + 1]
      BY <2>1, <2>2 DEF Command, Cmd
    <2>4. Len(apmenuitems[2]) \in Nat /\ aumenuitem[2] + 1 \in 1 .. Len(apmenuitems[2])
      BY <2>2, ListItems
    <2>5. Command \in {"selectprof", "selectwlanap"}
      BY <2>2, <2>3, <2>4, ListItems
    <2>6. QED
      BY <1>1, <2>5
  <1>3. CASE UNCHANGED <<umenulevel, apmenuitems, aumenuitem>>
    BY <1>1, <1>3, MenuFrame
  <1>4. ASSUME NEW list \in Lists \cup {NoList},
               list = NoList \/ aumenuitem[2] < Len(list),
               MenuToggle(MenulistSet(apmenuitems, 2, list), 1),
               UNCHANGED aumenuitem
        PROVE  MenuInv'
    <2> DEFINE lists == MenulistSet(apmenuitems, 2, list)
    <2>1. lists = [[apmenuitems EXCEPT ![2] = NoList] EXCEPT ![2] = list]
      BY DEF MenulistSet, MenulistFree
    <2>2. lists \in [Levels -> ItemLists] /\ lists[1] = DefaultItems /\ lists[2] = list
      BY <1>1, <2>1, LevelsOpened DEF MenuInv, ItemLists
    <2>3. umenulevel + 1 \in 0 .. 2
      BY <1>2
    <2> HIDE DEF lists
    <2>4. QED
      BY <1>1, <1>2, <1>4, <2>2, <2>3, MenuToggles DEF lists
  <1>5. QED
    BY <1>3, <1>4 DEF ChooseEnum, Crash, menu, keys

LEMMA MenuKeys ==
  ASSUME MenuInv, Triangle \/ Square
  PROVE  MenuInv'
  <1>1. /\ at # "done" /\ umenulevel \in 0 .. 2
        /\ UNCHANGED aumenuitem
    BY DEF Triangle, Square, Runs, MenuInv, menu
  <1>2. /\ apmenuitems \in [Levels -> ItemLists] /\ apmenuitems[1] = DefaultItems
        /\ apmenuitems[2] \in Lists \cup {NoList}
        /\ umenulevel = 2 => apmenuitems[2] # NoList
        /\ apmenuitems[2] # NoList => aumenuitem[2] < Len(apmenuitems[2])
    BY <1>1 DEF MenuInv, FocusIn
  <1>3. ASSUME NEW n \in {-1, 1}, umenulevel + n \in 0 .. 2, MenuToggle(apmenuitems, n)
        PROVE  MenuInv'
    BY <1>1, <1>2, <1>3, MenuToggles
  <1>4. CASE UNCHANGED menu
    BY <1>1, <1>4, MenuFrame DEF menu
  <1>5. CASE MenuIsOpened /\ MenuToggle(apmenuitems, -1)
    BY <1>1, <1>3, <1>5 DEF MenuIsOpened
  <1>6. CASE ~MenuIsOpened /\ MenuToggle(apmenuitems, 1)
    BY <1>1, <1>3, <1>6 DEF MenuIsOpened
  <1>7. QED
    BY <1>4, <1>5, <1>6 DEF Triangle, Square

-----------------------------------------------------------------------------
LEMMA MenuInit == Init => MenuInv
  <1> SUFFICES ASSUME Init PROVE MenuInv
    OBVIOUS
  <1>1. /\ apmenuitems \in [Levels -> ItemLists] /\ apmenuitems[1] = DefaultItems
        /\ apmenuitems[2] = NoList
        /\ aumenuitem \in [Levels -> Nat] /\ aumenuitem[1] = 0
        /\ umenulevel = 0
    BY LevelsOpened DEF Init, ItemLists
  <1>2. QED
    BY <1>1, DefaultList DEF MenuInv, FocusIn

LEMMA MenuNext ==
  ASSUME "narrow" \notin Env PROVE MenuInv /\ [Next]_vars => MenuInv'
  <1> SUFFICES ASSUME MenuInv, [Next]_vars PROVE MenuInv'
    OBVIOUS
  <1> USE DEF menu, keys, flip, Runs, Crash
  <1>1. CASE UNCHANGED vars
    BY <1>1 DEF vars, MenuInv, FocusIn
  <1>2. CASE Callback \/ OpenFails \/ Publish
    BY <1>2, MenuFrame DEF Callback, OpenFails, Publish, LoadReturns
  <1>3. CASE Complete \/ NothingToComplete
    BY <1>3, MenuFrame DEF Complete, NothingToComplete
  <1>4. CASE LeftTrigger \/ RightTrigger
    BY <1>4, MenuFrame DEF LeftTrigger, RightTrigger, Flip
  <1>5. CASE Triangle \/ Square
    BY <1>5, MenuKeys
  <1>6. CASE Click \/ ChooseNothing \/ ChooseProfile \/ ChooseAccessPoint \/ ChooseExit
    BY <1>6, MenuFrame
    DEF Click, ChooseNothing, ChooseProfile, ChooseAccessPoint, ChooseExit, Chosen
  <1>7. CASE ChooseEnum
    BY <1>7, MenuEnumOpens
  <1>8. CASE FocusNext \/ NoKey
    <2>1. at # "done"
      BY <1>8 DEF FocusNext, NoKey, After, Stages
    <2>2. QED
      BY <1>8, <2>1, MenuFrame DEF FocusNext, NoKey
  <1>9. CASE MenuItemOffset(-1) \/ MenuItemOffset(1)
    BY <1>9, MenuFocusMoves
  <1>10. CASE Render \/ Tick
    BY <1>10, MenuFrame DEF Render, Tick
  <1>11. CASE Cleanup
    <2>1. at' = "done" /\ apmenuitems' \in [Levels -> ItemLists]
      BY <1>11 DEF Cleanup, ListsFreed, ItemLists
    <2>2. QED
      BY <1>11, <2>1 DEF Cleanup, MenuInv
  <1>12. QED
    BY <1>1, <1>2, <1>3, <1>4, <1>5, <1>6, <1>7, <1>8, <1>9, <1>10, <1>11 DEF Next, Step

(* If no list is opened with the focus past its end, an open level has a   *)
(* list and the focus is on one of its items, whatever keys are pressed    *)
(* while the menu moves and profiles are loaded.                           *)
THEOREM FocusStaysOnItem ==
  ASSUME "narrow" \notin Env PROVE Spec => []FocusOnItem
  <1>1. MenuInv => FocusOnItem
    <2> SUFFICES ASSUME MenuInv, at # "done", MenuIsOpened
                 PROVE  /\ apmenuitems[umenulevel] # NoList
                        /\ aumenuitem[umenulevel] < Len(apmenuitems[umenulevel])
      BY DEF FocusOnItem
    <2>1. umenulevel \in 1 .. 2
      BY DEF MenuInv, MenuIsOpened
    <2>2. QED
      BY <2>1, DefaultList DEF MenuInv, FocusIn
  <1>2. QED
    BY MenuInit, MenuNext, <1>1, PTL DEF Spec

-----------------------------------------------------------------------------
(* Places                                                                  *)

(* What Ring needs of the profiles and the user.                           *)
Ordered == Env \cap {"noMemory", "missing", "empty", "midflip", "turned", "narrow"} = {}

(* The file that is read, and the contexts that have been made so far.     *)
ReadInv ==
  /\ xctx = [uidxframeset |-> xctx.uidxframeset, uidxframe |-> xctx.uidxframe,
             uidxxadget |-> xctx.uidxxadget, apxjsectx |-> xctx.apxjsectx, inside |-> xctx.inside]
  /\ xctx.uidxframeset \in 0 .. NMaxFramesets - 1
  /\ xctx.uidxframe \in 0 .. NMaxXadgets
  /\ xctx.uidxxadget \in 0 .. NMaxXadgets
  /\ xctx.inside \in {"none", "xadget", "frameset"}
  /\ xctx.apxjsectx \in [Xadgets -> {"none", "made", "read", "freed"}]
  /\ \A i \in Xadgets :
       xctx.apxjsectx[i] = IF i < xctx.uidxxadget THEN "read"
                           ELSE IF i = xctx.uidxxadget /\ xctx.inside = "xadget" THEN "made" ELSE "none"

(* The contexts fill the table from its start; none are there while a      *)
(* profile is read, and some while the loop runs.                          *)
TableInv ==
  /\ NXadgets \in 0 .. NMaxXadgets
  /\ \A i \in Xadgets : ctxs[i] # None <=> i < NXadgets
  /\ at \notin {"load", "cleanup", "done"} => NXadgets > 0
  /\ at = "load" => NXadgets = 0 /\ nflipoffset = 0 /\ flipAge = -1
  /\ NXadgets > 0 => nflipoffset < NXadgets

(* Every context is in the frame that the offset gives it, or on its way.  *)
PlacedAt(off) == \A i \in 0 .. NXadgets - 1 : ctxs[i].frame = FrameOf(i, off)
MovingTo(off) == \A i \in 0 .. NXadgets - 1 : ctxs[i].flipto = FrameOf(i, off)
PlaceInv == NXadgets > 0 =>
  IF flipAge = -1 THEN PlacedAt(nflipoffset)
  ELSE MovingTo(nflipoffset) /\ \E off \in 0 .. NXadgets - 1 : PlacedAt(off)

(* What TypeOK says of the loop; the menu's and the reader's part follow   *)
(* from MenuInv and ReadInv.                                               *)
LoopOK ==
  /\ at \in DOMAIN After \cup {"load", "cleanup", "done"}
  /\ caller \in {"main", "menu"}
  /\ exiting \in BOOLEAN
  /\ ctxs \in [Xadgets -> {None} \cup [frame : Xadgets, flipto : {None} \cup Xadgets]]
  /\ nflipoffset \in Xadgets
  /\ flipAge \in -1 .. FlipDura + 1
  /\ menuAge \in -1 .. MenuDura
  /\ dpadAge \in 0 .. DpadRein + 1
  /\ aumenuitem \in [Levels -> 0 .. NMaxMenuItems - 1]

RingInv == LoopOK /\ MenuInv /\ ReadInv /\ TableInv /\ PlaceInv

-----------------------------------------------------------------------------
(* Counting and turning                                                    *)

LEMMA Bounds == NMaxXadgets \in Nat /\ NMaxXadgets > 0 /\ Xadgets = 0 .. NMaxXadgets - 1 /\ 0 \in Xadgets
  BY TablesAssumption DEF Xadgets

(* A table that is filled from its start up to n holds n contexts.         *)
LEMMA CountedIn ==
  ASSUME NEW c, NEW n \in 0 .. NMaxXadgets, \A i \in Xadgets : c[i] # None <=> i < n
  PROVE  /\ {i \in Xadgets : \A j \in 0 .. i : c[j] # None} = 0 .. n - 1
         /\ Cardinality({i \in Xadgets : \A j \in 0 .. i : c[j] # None}) = n
  <1>1. {i \in Xadgets : \A j \in 0 .. i : c[j] # None} = 0 .. n - 1
    BY Bounds
  <1>2. Cardinality(0 .. n - 1) = n
    BY FS_Interval, Bounds
  <1>3. QED
    BY <1>1, <1>2

LEMMA Counted ==
  ASSUME NEW n \in 0 .. NMaxXadgets, \A i \in Xadgets : ctxs[i] # None <=> i < n
  PROVE  Loaded = 0 .. n - 1 /\ NXadgets = n
  BY CountedIn DEF Loaded, NXadgets

LEMMA FullTable ==
  TableInv => Loaded = 0 .. NXadgets - 1 /\ NXadgets \in Nat /\ NXadgets <= NMaxXadgets
  BY Counted, Bounds DEF TableInv

(* The same contexts are there: the count stays.                           *)
LEMMA SameCount ==
  ASSUME \A i \in Xadgets : ctxs'[i] # None <=> ctxs[i] # None
  PROVE  Loaded' = Loaded /\ NXadgets' = NXadgets
  <1>1. Loaded' = Loaded
    BY Bounds DEF Loaded
  <1>2. QED
    BY <1>1 DEF NXadgets

LEMMA Remainders ==
  ASSUME NEW n \in Nat \ {0}, NEW x \in 0 .. 2 * n - 1
  PROVE  x % n = IF x < n THEN x ELSE x - n
  OBVIOUS

(* Of n xadgets the i-th one is in a frame of its own.                     *)
LEMMA FrameIs ==
  ASSUME NXadgets \in Nat, NEW i \in 0 .. NXadgets - 1, NEW off \in 0 .. NXadgets - 1
  PROVE  /\ FrameOf(i, off) = IF i < off THEN i + NXadgets - off ELSE i - off
         /\ FrameOf(i, off) \in 0 .. NXadgets - 1
  <1>1. i + NXadgets - off \in 0 .. 2 * NXadgets - 1 /\ NXadgets \in Nat \ {0}
    OBVIOUS
  <1> DEFINE x == i + NXadgets - off
  <1>2. x % NXadgets = IF x < NXadgets THEN x ELSE x - NXadgets
    BY <1>1, Remainders
  <1>3. QED
    BY <1>2 DEF FrameOf

LEMMA AllFrames ==
  ASSUME NXadgets \in Nat, NEW off \in 0 .. NXadgets - 1
  PROVE  {FrameOf(i, off) : i \in 0 .. NXadgets - 1} = 0 .. NXadgets - 1
  <1>1. ASSUME NEW f \in 0 .. NXadgets - 1
        PROVE  \E i \in 0 .. NXadgets - 1 : f = FrameOf(i, off)
    <2> DEFINE i == IF f + off < NXadgets THEN f + off ELSE f + off - NXadgets
    <2>1. i \in 0 .. NXadgets - 1
      OBVIOUS
    <2> HIDE DEF i
    <2>2. FrameOf(i, off) = IF i < off THEN i + NXadgets - off ELSE i - off
      BY <2>1, FrameIs
    <2>3. FrameOf(i, off) = f
      BY <2>2 DEF i
    <2>4. QED
      BY <2>1, <2>3
  <1>2. \A i \in 0 .. NXadgets - 1 : FrameOf(i, off) \in 0 .. NXadgets - 1
    BY FrameIs
  <1>3. QED
    BY <1>1, <1>2

(* One step to the left or to the right turns every xadget by one frame.   *)
LEMMA OffsetTurns ==
  ASSUME NXadgets \in Nat \ {0}, nflipoffset \in 0 .. NXadgets - 1, NEW n \in {-1, 1}
  PROVE  /\ Offset(n) \in 0 .. NXadgets - 1
         /\ \E m \in {1, NXadgets - 1} : \A i \in 0 .. NXadgets - 1 :
              FrameOf(i, Offset(n)) = (FrameOf(i, nflipoffset) + m) % NXadgets
  <1> DEFINE off == nflipoffset
             N == NXadgets
             turned == IF n = 1 THEN IF off + 1 = N THEN 0 ELSE off + 1
                                ELSE IF off = 0 THEN N - 1 ELSE off - 1
             m == IF n = 1 THEN N - 1 ELSE 1
  <1>1. Offset(n) = turned /\ turned \in 0 .. N - 1
    <2>1. off + n \in -1 .. N /\ off + n < 2 * N
      OBVIOUS
    <2>2. CASE off + n = N
      <3>1. N % N = 0
        BY Remainders
      <3>2. QED
        BY <2>2, <3>1 DEF Offset
    <2>3. CASE off + n # N
      BY <2>1, <2>3 DEF Offset
    <2>4. QED
      BY <2>2, <2>3
  <1>2. ASSUME NEW i \in 0 .. N - 1
        PROVE  FrameOf(i, turned) = (FrameOf(i, off) + m) % N
    <2> HIDE DEF turned
    <2>1. FrameOf(i, turned) = IF i < turned THEN i + N - turned ELSE i - turned
      BY <1>1, FrameIs
    <2>2. /\ FrameOf(i, off) = IF i < off THEN i + N - off ELSE i - off
          /\ FrameOf(i, off) \in 0 .. N - 1
      BY FrameIs
    <2> DEFINE x == FrameOf(i, off) + m
    <2>3. x \in 0 .. 2 * N - 1
      BY <2>2
    <2>4. x % N = IF x < N THEN x ELSE x - N
      <3> HIDE DEF x
      <3>1. QED
        BY <2>3, Remainders
    <2>5. FrameOf(i, turned) = IF x < N THEN x ELSE x - N
      BY <2>1, <2>2 DEF turned
    <2>6. QED
      BY <2>4, <2>5
  <1>3. m \in {1, N - 1}
    OBVIOUS
  <1>4. QED
    BY <1>1, <1>2, <1>3

-----------------------------------------------------------------------------
(* Stages                                                                  *)

LEMMA NextStage ==
  /\ "top" \in DOMAIN After /\ "left" \in DOMAIN After
  /\ DOMAIN After \cap {"load", "cleanup", "done"} = {}
  /\ \A s \in DOMAIN After : After[s] \in DOMAIN After
  <1> DEFINE Names == {Stages[k] : k \in 1 .. Len(Stages)}
  <1>1. /\ Len(Stages) = 10 /\ Names = DOMAIN After
        /\ Stages[1] = "top" /\ Stages[7] = "left"
    BY DEF Stages, After
  <1>2. "top" \in Names /\ "left" \in Names
    BY <1>1
  <1>3. \A k \in 1 .. 10 : Stages[k] \notin {"load", "cleanup", "done"}
    BY DEF Stages
  <1>4. ASSUME NEW s \in Names PROVE After[s] \in Names
    <2> DEFINE k == CHOOSE k \in 1 .. Len(Stages) : Stages[k] = s
    <2>1. \E j \in 1 .. Len(Stages) : Stages[j] = s
      OBVIOUS
    <2>2. k \in 1 .. Len(Stages)
      BY <2>1
    <2>3. After[s] = IF k = Len(Stages) THEN "top" ELSE Stages[k + 1]
      BY DEF After
    <2> HIDE DEF k
    <2>4. CASE k = Len(Stages)
      BY <1>2, <2>3, <2>4
    <2>5. CASE k # Len(Stages)
      BY <1>1, <2>2, <2>3, <2>5
    <2>6. QED
      BY <2>4, <2>5
  <1>5. QED
    BY <1>1, <1>2, <1>3, <1>4

LEMMA LoopTyped == RingInv => TypeOK
  BY MenuAssumption, SMTT(30) DEF RingInv, LoopOK, MenuInv, ReadInv, TypeOK, Levels, ItemLists

-----------------------------------------------------------------------------
(* Reading a profile                                                       *)

LEMMA NothingRead == xctx = EmptyXctx => ReadInv
  BY Bounds, TablesAssumption DEF EmptyXctx, ReadInv

(* The reader's record, changed in all fields at once.                     *)
LEMMA ReadStep ==
  ASSUME ReadInv,
         NEW s \in 0 .. NMaxFramesets - 1, NEW f \in 0 .. NMaxXadgets, NEW x \in 0 .. NMaxXadgets,
         NEW in \in {"none", "xadget", "frameset"},
         NEW a \in [Xadgets -> {"none", "made", "read", "freed"}],
         \A i \in Xadgets : a[i] = IF i < x THEN "read" ELSE IF i = x /\ in = "xadget" THEN "made" ELSE "none",
         xctx' = [uidxframeset |-> s, uidxframe |-> f, uidxxadget |-> x, apxjsectx |-> a, inside |-> in]
  PROVE  ReadInv'
  BY DEF ReadInv

LEMMA ReadSteps ==
  ASSUME "noMemory" \notin Env, "missing" \notin Env, ReadInv, ReadTag
  PROVE  ReadInv'
  <1> DEFINE s == xctx.uidxframeset
             f == xctx.uidxframe
             x == xctx.uidxxadget
             a == xctx.apxjsectx
  <1>0. /\ xctx = [uidxframeset |-> s, uidxframe |-> f, uidxxadget |-> x, apxjsectx |-> a,
                   inside |-> xctx.inside]
        /\ s \in 0 .. NMaxFramesets - 1 /\ f \in 0 .. NMaxXadgets /\ x \in 0 .. NMaxXadgets
        /\ a \in [Xadgets -> {"none", "made", "read", "freed"}]
        /\ \A i \in Xadgets : a[i] = IF i < x THEN "read" ELSE IF i = x /\ xctx.inside = "xadget" THEN "made" ELSE "none"
    BY DEF ReadInv
  <1>1. CASE xctx' = xctx
    BY <1>1 DEF ReadInv
  <1>2. CASE StartXadget
    <2> DEFINE b == IF x = NMaxXadgets THEN a ELSE [a EXCEPT ![x] = "made"]
    <2>1. xctx' = [uidxframeset |-> s, uidxframe |-> f, uidxxadget |-> x, apxjsectx |-> b, inside |-> "xadget"]
      BY <1>0, <1>2, ZenonT(60) DEF StartXadget, Prepared
    <2>2. /\ b \in [Xadgets -> {"none", "made", "read", "freed"}]
          /\ \A i \in Xadgets : b[i] = IF i < x THEN "read" ELSE IF i = x /\ "xadget" = "xadget" THEN "made" ELSE "none"
      <3>1. CASE x = NMaxXadgets
        BY <1>0, <3>1, Bounds
      <3>2. CASE x # NMaxXadgets
        <4>1. x \in Xadgets /\ b = [a EXCEPT ![x] = "made"]
          BY <1>0, <3>2, Bounds
        <4>2. \A i \in Xadgets : b[i] = IF i = x THEN "made" ELSE a[i]
          BY <1>0, <4>1
        <4>3. xctx.inside = "none"
          BY <1>2 DEF StartXadget
        <4>4. QED
          BY <1>0, <4>1, <4>2, <4>3, Bounds
      <3>3. QED
        BY <3>1, <3>2
    <2> HIDE DEF s, f, x, a, b
    <2>3. QED
      BY <1>0, <2>1, <2>2, ReadStep
  <1>3. CASE StartFrameset
    <2>1. xctx' = [uidxframeset |-> s, uidxframe |-> f, uidxxadget |-> x, apxjsectx |-> a, inside |-> "frameset"]
      BY <1>0, <1>3 DEF StartFrameset
    <2>2. \A i \in Xadgets : a[i] = IF i < x THEN "read" ELSE IF i = x /\ "frameset" = "xadget" THEN "made" ELSE "none"
      BY <1>0, <1>3 DEF StartFrameset
    <2> HIDE DEF s, f, x, a
    <2>3. QED
      BY <1>0, <2>1, <2>2, ReadStep
  <1>4. CASE Frame /\ xctx' # xctx
    <2>1. /\ xctx' = [uidxframeset |-> s, uidxframe |-> f + 1, uidxxadget |-> x, apxjsectx |-> a, inside |-> "frameset"]
          /\ f + 1 \in 0 .. NMaxXadgets
      BY <1>0, <1>4, Bounds DEF Frame, FaultIn
    <2>2. \A i \in Xadgets : a[i] = IF i < x THEN "read" ELSE IF i = x /\ "frameset" = "xadget" THEN "made" ELSE "none"
      BY <1>0, <1>4 DEF Frame
    <2> HIDE DEF s, f, x, a
    <2>3. QED
      BY <1>0, <2>1, <2>2, ReadStep
  <1>5. CASE EndXadget /\ xctx' # xctx
    <2> DEFINE b == [a EXCEPT ![x] = "read"]
    <2>1. /\ xctx' = [uidxframeset |-> s, uidxframe |-> f, uidxxadget |-> x + 1, apxjsectx |-> b, inside |-> "none"]
          /\ x \in Xadgets
      <3>1. x \in Made /\ x \in Xadgets
        BY <1>5 DEF EndXadget, FaultIn, Made
      <3>2. PICK read \in LoadedOne :
              xctx' = [xctx EXCEPT !.inside = "none", !.uidxxadget = @ + 1, !.apxjsectx[x] = read]
        BY <1>5, <3>1 DEF EndXadget
      <3>3. read = "read"
        BY DEF LoadedOne
      <3>4. QED
        BY <1>0, <3>1, <3>2, <3>3
    <2>2. /\ b \in [Xadgets -> {"none", "made", "read", "freed"}] /\ x + 1 \in 0 .. NMaxXadgets
          /\ \A i \in Xadgets : b[i] = IF i < x + 1 THEN "read" ELSE IF i = x + 1 /\ "none" = "xadget" THEN "made" ELSE "none"
      BY <1>0, <2>1, Bounds
    <2> HIDE DEF s, f, x, a, b
    <2>3. QED
      BY <1>0, <2>1, <2>2, ReadStep
  <1>6. CASE EndFrameset
    <2> DEFINE last == s = NMaxFramesets - 1
               t == IF last THEN s ELSE s + 1
               g == IF last THEN f ELSE 0
    <2>1. xctx' = [uidxframeset |-> t, uidxframe |-> g, uidxxadget |-> x, apxjsectx |-> a, inside |-> "none"]
      BY <1>0, <1>6 DEF EndFrameset
    <2>2. t \in 0 .. NMaxFramesets - 1 /\ g \in 0 .. NMaxXadgets
      BY <1>0, Bounds, TablesAssumption
    <2>3. \A i \in Xadgets : a[i] = IF i < x THEN "read" ELSE IF i = x /\ "none" = "xadget" THEN "made" ELSE "none"
      BY <1>0, <1>6 DEF EndFrameset
    <2> HIDE DEF s, f, x, a, t, g
    <2>4. QED
      BY <1>0, <2>1, <2>2, <2>3, ReadStep
  <1>7. QED
    BY <1>1, <1>2, <1>3, <1>4, <1>5, <1>6 DEF ReadTag

(* What has been read whole is published: the first contexts of the table. *)
LEMMA ReadWhole ==
  ASSUME ReadInv, \A i \in Made : xctx.apxjsectx[i] = "read"
  PROVE  Made = 0 .. xctx.uidxxadget - 1 /\ xctx.uidxxadget \in 0 .. NMaxXadgets
  BY Bounds DEF ReadInv, Made

-----------------------------------------------------------------------------
(* Steps of the loop                                                       *)

(* The contexts and the offset stay, and a flip neither starts nor ends.   *)
LEMMA PlaceFrame ==
  ASSUME TableInv, PlaceInv, UNCHANGED <<ctxs, nflipoffset>>,
         flipAge' = -1 <=> flipAge = -1,
         at' = at \/ (at \in DOMAIN After /\ at' \in DOMAIN After) \/ at' \in {"cleanup", "done"},
         at' = "load" => UNCHANGED flipAge
  PROVE  TableInv' /\ PlaceInv'
  <1>1. NXadgets' = NXadgets
    BY SameCount
  <1>2. TableInv'
    BY <1>1, NextStage DEF TableInv
  <1>3. PlaceInv'
    BY <1>1 DEF PlaceInv, PlacedAt, MovingTo, FrameOf
  <1>4. QED
    BY <1>2, <1>3

LEMMA ReadFrame == ASSUME ReadInv, UNCHANGED xctx PROVE ReadInv'
  BY DEF ReadInv

LEMMA Unmoved ==
  ASSUME RingInv, UNCHANGED <<xctx, at, caller, ctxs, flip, menu, keys>>
  PROVE  RingInv'
  <1> USE DEF RingInv, flip, menu, keys
  <1>1. LoopOK'
    BY DEF LoopOK
  <1>2. MenuInv'
    BY DEF MenuInv, FocusIn
  <1>3. QED
    BY <1>1, <1>2, PlaceFrame, ReadFrame

(* The loop goes on to the next key or stops, and at most the menu and the *)
(* ages change.                                                            *)
LEMMA LoopGoesOn ==
  ASSUME RingInv, MenuInv', UNCHANGED <<xctx, caller, ctxs, nflipoffset>>,
         flipAge' \in -1 .. FlipDura + 1, flipAge' = -1 <=> flipAge = -1,
         menuAge' \in -1 .. MenuDura, dpadAge' \in 0 .. DpadRein + 1,
         exiting' \in BOOLEAN, aumenuitem' \in [Levels -> 0 .. NMaxMenuItems - 1],
         at \in DOMAIN After, at' \in DOMAIN After \cup {"cleanup"}
  PROVE  RingInv'
  <1> USE DEF RingInv
  <1>1. LoopOK'
    BY DEF LoopOK
  <1>2. TableInv' /\ PlaceInv'
    BY PlaceFrame, NextStage
  <1>3. QED
    BY <1>1, <1>2, ReadFrame

-----------------------------------------------------------------------------
(* Steps that move xadgets                                                 *)

(* The table is empty: before a profile is read, and at the end.           *)
LEMMA TableEmptied ==
  ASSUME \A i \in Xadgets : ctxs'[i] = None
  PROVE  NXadgets' = 0 /\ PlaceInv'
  <1>1. NXadgets' = 0
    BY CountedIn, Bounds DEF Loaded, NXadgets
  <1>2. QED
    BY <1>1 DEF PlaceInv

LEMMA PublishPlaces ==
  ASSUME "empty" \notin Env, RingInv, MenuInv', Publish
  PROVE  RingInv'
  <1> USE DEF RingInv
  <1>1. CASE Crash("xjse_xadgprof_load")
    BY <1>1, Unmoved DEF Crash, FaultIn
  <1>2. CASE ~Crash("xjse_xadgprof_load")
    <2> DEFINE x == xctx.uidxxadget
    <2>1. /\ \A i \in Made : xctx.apxjsectx[i] = "read"
          /\ Made # {} /\ at = "load"
          /\ ctxs' = [i \in Xadgets |-> IF i \in Made THEN Published(i) ELSE ctxs[i]]
          /\ at' \in {"left", "top", "cleanup"} /\ xctx' = EmptyXctx
          /\ UNCHANGED <<caller, flip, menu, keys>>
      BY <1>2 DEF Publish, MayEnd, LoadReturns, Runs
    <2>2. Made = 0 .. x - 1 /\ x \in 1 .. NMaxXadgets
      BY <2>1, ReadWhole, Bounds
    <2>3. NXadgets = 0 /\ nflipoffset = 0 /\ flipAge = -1
          /\ \A i \in Xadgets : ctxs[i] = None
      BY <2>1, Bounds DEF TableInv
    <2>4. /\ ctxs' \in [Xadgets -> {None} \cup [frame : Xadgets, flipto : {None} \cup Xadgets]]
          /\ \A i \in Xadgets : ctxs'[i] # None <=> i < x
          /\ \A i \in 0 .. x - 1 : ctxs'[i].frame = i
      <3> HIDE DEF x
      <3>1. \A i \in 0 .. x - 1 : i \in Xadgets /\ ctxs'[i] = [frame |-> i, flipto |-> None]
        BY <2>1, <2>2, Bounds DEF Published
      <3>2. \A i \in Xadgets : ~(i < x) => ctxs'[i] = None
        BY <2>1, <2>2, <2>3, Bounds
      <3>3. ASSUME NEW i \in 0 .. x - 1
            PROVE  /\ ctxs'[i] \in [frame : Xadgets, flipto : {None} \cup Xadgets]
                   /\ ctxs'[i] # None /\ ctxs'[i].frame = i
        <4>1. [frame |-> i, flipto |-> None] \in [frame : Xadgets, flipto : {None} \cup Xadgets]
          BY <3>1
        <4>2. ctxs'[i] = [frame |-> i, flipto |-> None]
          BY <3>1
        <4>3. [frame |-> i, flipto |-> None] # None
          BY <4>1, NoneAssumption
        <4>4. QED
          BY <4>1, <4>2, <4>3
      <3>4. DOMAIN ctxs' = Xadgets /\ ctxs' = [i \in Xadgets |-> ctxs'[i]]
        BY <2>1
      <3>5. QED
        <4>1. \A i \in Xadgets : i < x <=> i \in 0 .. x - 1
          BY <2>2, Bounds
        <4>2. ASSUME NEW i \in Xadgets
              PROVE  /\ ctxs'[i] \in {None} \cup [frame : Xadgets, flipto : {None} \cup Xadgets]
                     /\ ctxs'[i] # None <=> i < x
          BY <3>2, <3>3, <4>1
        <4>3. QED
          BY <3>3, <3>4, <4>2
    <2> HIDE DEF x
    <2>5. NXadgets' = x
      BY <2>2, <2>4, CountedIn DEF Loaded, NXadgets
    <2>6. TableInv'
      BY <2>1, <2>2, <2>3, <2>4, <2>5 DEF TableInv, flip
    <2>7. PlaceInv'
      <3>1. ASSUME NEW i \in 0 .. x - 1 PROVE (i + x - 0) % x = i
        <4>1. x \in Nat \ {0} /\ i + x - 0 \in 0 .. 2 * x - 1
          BY <2>2, Bounds
        <4> DEFINE y == i + x - 0
        <4>2. y % x = IF y < x THEN y ELSE y - x
          <5> HIDE DEF y
          <5>1. QED
            BY <4>1, Remainders DEF y
        <4>3. QED
          BY <4>1, <4>2
      <3>2. QED
        BY <2>1, <2>2, <2>3, <2>4, <2>5, <3>1 DEF PlaceInv, PlacedAt, FrameOf, flip
    <2>8. LoopOK'
      BY <2>1, <2>4, NextStage DEF LoopOK, flip, menu, keys
    <2>9. ReadInv'
      <3>1. xctx = EmptyXctx => ReadInv
        BY NothingRead
      <3>2. (xctx = EmptyXctx)' => ReadInv'
        BY <3>1, NothingRead, PTL
      <3>3. QED
        BY <2>1, <3>2 DEF EmptyXctx
    <2>10. QED
      BY <2>6, <2>7, <2>8, <2>9
  <1>3. QED
    BY <1>1, <1>2

LEMMA CompletePlaces ==
  ASSUME RingInv, MenuInv', Complete
  PROVE  /\ RingInv'
         /\ fault' = fault => /\ Loaded' = Loaded
                              /\ \A i \in Loaded : ctxs'[i].frame = ctxs[i].flipto
  <1> USE DEF RingInv
  <1>1. CASE Crash("xtk_mainloop")
    <2>1. RingInv'
      BY <1>1, Unmoved DEF Crash, FaultIn
    <2>2. fault' # fault
      BY <1>1 DEF Complete, Runs, Crash, FaultIn
    <2>3. QED
      BY <2>1, <2>2
  <1>2. CASE ~Crash("xtk_mainloop")
    <2>1. /\ at = "top" /\ flipAge > FlipDura
          /\ ctxs' = [i \in Xadgets |-> IF i \in Loaded THEN [ctxs[i] EXCEPT !.frame = ctxs[i].flipto] ELSE ctxs[i]]
          /\ flipAge' = -1 /\ at' = After[at]
          /\ UNCHANGED <<xctx, caller, nflipoffset, menu, keys>>
      BY <1>2 DEF Complete, Runs, Proceed, loader
    <2>2. /\ NXadgets \in 1 .. NMaxXadgets /\ Loaded = 0 .. NXadgets - 1
          /\ nflipoffset \in 0 .. NXadgets - 1
          /\ at' \in DOMAIN After
          /\ flipAge # -1 /\ FlipDura \in Nat
      BY <2>1, FullTable, NextStage, Bounds, TimeAssumption, SMTT(30) DEF TableInv, LoopOK
    <2>3. ASSUME NEW i \in 0 .. NXadgets - 1
          PROVE  /\ ctxs'[i] \in [frame : Xadgets, flipto : {None} \cup Xadgets]
                 /\ ctxs'[i].frame = FrameOf(i, nflipoffset)
                 /\ ctxs'[i].frame = ctxs[i].flipto
                 /\ ctxs'[i] # None
      <3>1. ctxs[i].flipto = FrameOf(i, nflipoffset) /\ FrameOf(i, nflipoffset) \in Xadgets
        <4>1. FrameOf(i, nflipoffset) \in 0 .. NXadgets - 1
          <5>1. NXadgets \in Nat /\ nflipoffset \in 0 .. NXadgets - 1
            BY <2>2, Bounds
          <5>2. QED
            BY <5>1, FrameIs
        <4>2. 0 .. NXadgets - 1 \subseteq Xadgets
          BY <2>2, Bounds
        <4>3. ctxs[i].flipto = FrameOf(i, nflipoffset)
          BY <2>2 DEF PlaceInv, MovingTo
        <4>4. QED
          BY <4>1, <4>2, <4>3
      <3>2. i \in Xadgets /\ ctxs[i] \in [frame : Xadgets, flipto : {None} \cup Xadgets]
        BY <2>2, Bounds DEF TableInv, LoopOK
      <3>3. ctxs'[i] = [ctxs[i] EXCEPT !.frame = ctxs[i].flipto]
        BY <2>1, <2>2, <3>2
      <3>4. /\ ctxs'[i] \in [frame : Xadgets, flipto : {None} \cup Xadgets]
            /\ ctxs'[i].frame = ctxs[i].flipto
        BY <3>1, <3>2, <3>3
      <3>5. QED
        BY <3>1, <3>4, NoneAssumption
    <2>4. ASSUME NEW i \in Xadgets
          PROVE  /\ ctxs'[i] \in {None} \cup [frame : Xadgets, flipto : {None} \cup Xadgets]
                 /\ ctxs'[i] # None <=> ctxs[i] # None
      <3>1. CASE i < NXadgets
        BY <2>2, <2>3, <3>1, Bounds DEF TableInv
      <3>2. CASE ~(i < NXadgets)
        BY <2>1, <2>2, <3>2, Bounds DEF TableInv
      <3>3. QED
        BY <3>1, <3>2
    <2>5. Loaded' = Loaded /\ NXadgets' = NXadgets
      BY <2>4, SameCount
    <2>6. LoopOK'
      <3>1. ctxs' \in [Xadgets -> {None} \cup [frame : Xadgets, flipto : {None} \cup Xadgets]]
        BY <2>1, <2>4
      <3>2. QED
        BY <2>1, <2>2, <3>1 DEF LoopOK, menu, keys
    <2>7. TableInv'
      BY <2>1, <2>2, <2>4, <2>5, NextStage DEF TableInv
    <2>8. PlaceInv'
      BY <2>1, <2>2, <2>3, <2>5 DEF PlaceInv, PlacedAt, FrameOf
    <2>9. QED
      BY <2>1, <2>2, <2>3, <2>5, <2>6, <2>7, <2>8, ReadFrame
  <1>3. QED
    BY <1>1, <1>2

LEMMA FlipPlaces ==
  ASSUME RingInv, MenuInv', NEW n \in {-1, 1}, at \in DOMAIN After, fault = "none", Flip(n)
  PROVE  /\ RingInv' /\ fault' = "none"
         /\ \/ UNCHANGED <<ctxs, flipAge>>
            \/ /\ ~TooEarly /\ Loaded' = Loaded /\ NXadgets' = NXadgets
               /\ \A i \in Loaded : /\ ctxs'[i].frame = ctxs[i].frame
                                    /\ ctxs'[i].flipto = FrameOf(i, Offset(n))
  <1> USE DEF RingInv
  <1>1. /\ NXadgets \in 1 .. NMaxXadgets /\ Loaded = 0 .. NXadgets - 1
        /\ nflipoffset \in 0 .. NXadgets - 1
        /\ FlipDura \in Nat
    BY FullTable, NextStage, Bounds, TimeAssumption, SMTT(30) DEF TableInv, LoopOK
  <1>2. CASE Proceed /\ UNCHANGED <<ctxs, flip, menu, keys>>
    <2>1. at' \in DOMAIN After /\ UNCHANGED <<xctx, caller, fault>>
      BY <1>2, NextStage DEF Proceed, loader
    <2>2. RingInv'
      BY <1>2, <2>1, LoopGoesOn DEF flip, menu, keys, LoopOK
    <2>3. QED
      BY <1>2, <2>1, <2>2 DEF flip
  <1>3. CASE /\ ~TooEarly /\ nflipoffset' = Offset(n)
             /\ ctxs' = [i \in Xadgets |-> IF i \in Loaded THEN [ctxs[i] EXCEPT !.flipto = FrameOf(i, Offset(n))]
                                           ELSE ctxs[i]]
             /\ flipAge' = 0 /\ Proceed /\ UNCHANGED <<menu, keys>>
    <2>1. at' \in DOMAIN After /\ UNCHANGED <<xctx, caller, fault>>
      BY <1>3, NextStage DEF Proceed, loader
    <2>2. Offset(n) \in 0 .. NXadgets - 1
      BY <1>1, OffsetTurns
    <2>o. PICK off \in 0 .. NXadgets - 1 : off = Offset(n)
      BY <2>2
    <2>3. ASSUME NEW i \in 0 .. NXadgets - 1
          PROVE  /\ ctxs'[i] \in [frame : Xadgets, flipto : {None} \cup Xadgets]
                 /\ ctxs'[i].frame = ctxs[i].frame
                 /\ ctxs'[i].flipto = FrameOf(i, off)
                 /\ ctxs'[i] # None
      <3>1. FrameOf(i, off) \in Xadgets
        <4>1. FrameOf(i, off) \in 0 .. NXadgets - 1
          <5>1. NXadgets \in Nat /\ off \in 0 .. NXadgets - 1
            BY <1>1, Bounds
          <5>2. QED
            BY <5>1, FrameIs
        <4>2. 0 .. NXadgets - 1 \subseteq Xadgets
          BY <1>1, Bounds
        <4>3. QED
          BY <4>1, <4>2
      <3>2. i \in Xadgets /\ ctxs[i] \in [frame : Xadgets, flipto : {None} \cup Xadgets]
        BY <1>1, Bounds, SMTT(30) DEF TableInv, LoopOK
      <3>3. ctxs'[i] = [ctxs[i] EXCEPT !.flipto = FrameOf(i, off)]
        BY <1>1, <1>3, <2>o, <3>2
      <3>4. /\ ctxs'[i] \in [frame : Xadgets, flipto : {None} \cup Xadgets]
            /\ ctxs'[i].frame = ctxs[i].frame
            /\ ctxs'[i].flipto = FrameOf(i, off)
        BY <3>1, <3>2, <3>3
      <3>5. QED
        BY <3>4, NoneAssumption
    <2>4. ASSUME NEW i \in Xadgets
          PROVE  /\ ctxs'[i] \in {None} \cup [frame : Xadgets, flipto : {None} \cup Xadgets]
                 /\ ctxs'[i] # None <=> ctxs[i] # None
      <3>1. CASE i < NXadgets
        BY <1>1, <2>3, <3>1, Bounds DEF TableInv
      <3>2. CASE ~(i < NXadgets)
        BY <1>1, <1>3, <3>2, Bounds DEF TableInv
      <3>3. QED
        BY <3>1, <3>2
    <2>5. Loaded' = Loaded /\ NXadgets' = NXadgets
      BY <2>4, SameCount
    <2>6. LoopOK'
      <3>1. ctxs' \in [Xadgets -> {None} \cup [frame : Xadgets, flipto : {None} \cup Xadgets]]
        BY <1>3, <2>4
      <3>2. nflipoffset' \in Xadgets
        BY <1>1, <1>3, <2>o, Bounds
      <3>3. QED
        BY <1>1, <1>3, <2>1, <3>1, <3>2 DEF LoopOK, menu, keys
    <2>7. TableInv'
      BY <1>1, <1>3, <2>o, <2>1, <2>4, <2>5, NextStage DEF TableInv
    <2>8. MovingTo(off)' /\ off = nflipoffset'
      BY <1>3, <2>o, <2>3, <2>5 DEF MovingTo, FrameOf
    <2>9. \E o \in 0 .. NXadgets - 1 : PlacedAt(o)
      BY <1>1 DEF PlaceInv
    <2>10. \E o \in 0 .. NXadgets' - 1 : PlacedAt(o)'
      BY <2>3, <2>5, <2>9 DEF PlacedAt, FrameOf
    <2>11. PlaceInv'
      BY <1>3, <2>8, <2>10 DEF PlaceInv
    <2>12. QED
      BY <1>1, <1>3, <2>1, <2>3, <2>5, <2>6, <2>7, <2>11, <2>o, ReadFrame
  <1>4. QED
    BY <1>1, <1>2, <1>3 DEF Flip

-----------------------------------------------------------------------------
(* Steps that leave the xadgets alone                                      *)

LEMMA ReadingPlaces ==
  ASSUME Ordered, RingInv, MenuInv', Callback \/ OpenFails
  PROVE  RingInv'
  <1> USE DEF RingInv
  <1>1. CASE Callback
    <2>1. ReadInv'
      BY <1>1, ReadSteps DEF Callback, Ordered
    <2>2. UNCHANGED <<at, caller, ctxs, nflipoffset, flipAge, menuAge, dpadAge, exiting, aumenuitem>>
      BY <1>1 DEF Callback, flip, menu, keys
    <2>3. TableInv' /\ PlaceInv'
      BY <2>2, PlaceFrame
    <2>4. LoopOK'
      BY <2>2 DEF LoopOK
    <2>5. QED
      BY <2>1, <2>3, <2>4
  <1>2. CASE OpenFails
    <2>1. /\ at = "load" /\ at' = "cleanup" /\ xctx' = xctx
          /\ UNCHANGED <<caller, ctxs, nflipoffset, flipAge, menuAge, dpadAge, exiting, aumenuitem>>
      BY <1>2 DEF OpenFails, LoadReturns, Runs, Ordered, flip, menu, keys
    <2>2. TableInv' /\ PlaceInv'
      BY <2>1, PlaceFrame
    <2>3. LoopOK'
      BY <2>1 DEF LoopOK
    <2>4. QED
      BY <2>1, <2>2, <2>3, ReadFrame
  <1>3. QED
    BY <1>1, <1>2

(* A toggled menu starts to move or stays as it is.                        *)
LEMMA MenuAges ==
  ASSUME LoopOK, NEW lists, NEW n, MenuToggle(lists, n) \/ UNCHANGED menu
  PROVE  menuAge' \in -1 .. MenuDura
  BY TimeAssumption DEF MenuToggle, LoopOK, menu

LEMMA KeyPlaces ==
  ASSUME RingInv, MenuInv',
         Triangle \/ Square \/ MenuItemOffset(-1) \/ MenuItemOffset(1) \/ ChooseEnum
  PROVE  RingInv'
  <1> USE DEF RingInv
  <1>1. CASE Triangle \/ Square
    <2>1. /\ at \in DOMAIN After /\ at' = After[at]
          /\ UNCHANGED <<xctx, caller, ctxs, nflipoffset, flipAge, dpadAge, exiting, aumenuitem>>
      BY <1>1 DEF Triangle, Square, Runs, Proceed, LoopOK, loader, flip, menu, keys
    <2>2. menuAge' \in -1 .. MenuDura
      BY <1>1, MenuAges DEF Triangle, Square
    <2>3. QED
      BY <2>1, <2>2, NextStage, LoopGoesOn DEF LoopOK
  <1>2. ASSUME NEW n \in {-1, 1}, MenuItemOffset(n)
        PROVE  RingInv'
    <2>1. /\ at \in DOMAIN After /\ at' = After[at] /\ dpadAge' = 0
          /\ UNCHANGED <<xctx, caller, ctxs, nflipoffset, flipAge, menuAge, exiting>>
      BY <1>2 DEF MenuItemOffset, Runs, Proceed, LoopOK, loader, flip
    <2>2. aumenuitem' \in [Levels -> 0 .. NMaxMenuItems - 1]
      BY <1>2 DEF MenuItemOffset, LoopOK
    <2>3. QED
      BY <2>1, <2>2, NextStage, TimeAssumption, LoopGoesOn DEF LoopOK
  <1>3. CASE ChooseEnum
    <2>1. CASE Crash("cb_on_menuitem")
      BY <2>1, Unmoved DEF Crash, FaultIn
    <2>2. CASE ~Crash("cb_on_menuitem")
      <3>1. /\ at \in DOMAIN After /\ at' = After[at]
            /\ UNCHANGED <<xctx, caller, ctxs, nflipoffset, flipAge, dpadAge, exiting, aumenuitem>>
        BY <1>3, <2>2 DEF ChooseEnum, Chosen, Runs, Proceed, LoopOK, loader, flip, keys
      <3>2. PICK list \in Lists \cup {NoList} : MenuToggle(MenulistSet(apmenuitems, 2, list), 1)
        BY <1>3, <2>2 DEF ChooseEnum
      <3>3. menuAge' \in -1 .. MenuDura
        BY <3>2, MenuAges
      <3>4. QED
        BY <3>1, <3>3, NextStage, LoopGoesOn DEF LoopOK
    <2>3. QED
      BY <2>1, <2>2
  <1>4. QED
    BY <1>1, <1>2, <1>3

LEMMA StayPlaces ==
  ASSUME RingInv, MenuInv',
         Click \/ ChooseNothing \/ ChooseAccessPoint \/ ChooseExit \/ FocusNext \/ NoKey \/ NothingToComplete
  PROVE  RingInv'
  <1> USE DEF RingInv
  <1>1. CASE \E where \in {"xjse_xadget_click", "cb_on_menuitem", "xjse_xadget_focus_next"} : Crash(where)
    BY <1>1, Unmoved DEF Crash, FaultIn
  <1>2. CASE ~ \E where \in {"xjse_xadget_click", "cb_on_menuitem", "xjse_xadget_focus_next"} : Crash(where)
    <2>1. /\ at \in DOMAIN After /\ at' = After[at]
          /\ exiting' \in BOOLEAN /\ dpadAge' \in 0 .. DpadRein + 1
          /\ UNCHANGED <<xctx, caller, ctxs, nflipoffset, flipAge, menuAge, aumenuitem>>
      <3> USE DEF Runs, Chosen
      <3>1. /\ Proceed /\ UNCHANGED <<ctxs, flip, menu>>
            /\ UNCHANGED keys \/ (exiting' = TRUE /\ UNCHANGED dpadAge) \/ (dpadAge' = 0 /\ UNCHANGED exiting)
        <4>1. CASE Click \/ ChooseNothing
          BY <1>2, <4>1 DEF Click, ChooseNothing
        <4>2. CASE ChooseAccessPoint \/ ChooseExit
          BY <1>2, <4>2 DEF ChooseAccessPoint, ChooseExit
        <4>3. CASE FocusNext \/ NoKey \/ NothingToComplete
          BY <1>2, <4>3 DEF FocusNext, NoKey, NothingToComplete
        <4>4. QED
          BY <4>1, <4>2, <4>3
      <3>2. at \in DOMAIN After
        <4>1. CASE Click \/ ChooseNothing \/ ChooseAccessPoint \/ ChooseExit
          BY <4>1 DEF Click, ChooseNothing, ChooseAccessPoint, ChooseExit, LoopOK
        <4>2. CASE FocusNext \/ NoKey \/ NothingToComplete
          BY <4>2 DEF FocusNext, NoKey, NothingToComplete, LoopOK
        <4>3. QED
          BY <4>1, <4>2
      <3>3. QED
        <4>1. UNCHANGED <<xctx, caller, ctxs, nflipoffset, flipAge, menuAge, aumenuitem>> /\ at' = After[at]
          BY <3>1 DEF Proceed, loader, flip, menu
        <4>2. exiting' \in BOOLEAN /\ dpadAge' \in 0 .. DpadRein + 1
          <5>1. exiting \in BOOLEAN /\ dpadAge \in 0 .. DpadRein + 1 /\ 0 \in 0 .. DpadRein + 1
            BY TimeAssumption DEF LoopOK
          <5>2. (exiting' = exiting \/ exiting' = TRUE) /\ (dpadAge' = dpadAge \/ dpadAge' = 0)
            BY <3>1 DEF keys
          <5>3. QED
            BY <5>1, <5>2
        <4>3. QED
          BY <3>2, <4>1, <4>2
    <2>2. QED
      BY <2>1, NextStage, LoopGoesOn DEF LoopOK
  <1>3. QED
    BY <1>1, <1>2

(* All contexts are deleted: before another profile is read, and at the end. *)
LEMMA ProfilePlaces ==
  ASSUME Ordered, RingInv, MenuInv', ChooseProfile \/ Cleanup
  PROVE  RingInv'
  <1> USE DEF RingInv
  <1>1. CASE Crash("xjse_xpnet_reset")
    BY <1>1, Unmoved DEF Crash, FaultIn
  <1>2. CASE ChooseProfile /\ ~Crash("xjse_xpnet_reset")
    <2>1. /\ ctxs' = [i \in Xadgets |-> None] /\ at' = "load" /\ caller' = "menu" /\ xctx' = EmptyXctx
          /\ UNCHANGED <<nflipoffset, flipAge, menuAge, dpadAge, exiting, aumenuitem>>
          /\ nflipoffset = 0 /\ flipAge = -1
      BY <1>2 DEF ChooseProfile, Ordered, flip, menu, keys
    <2>2. NXadgets' = 0 /\ PlaceInv'
      BY <2>1, TableEmptied
    <2>3. TableInv'
      BY <2>1, <2>2, Bounds DEF TableInv
    <2>4. LoopOK'
      BY <2>1 DEF LoopOK
    <2>5. ReadInv'
      <3>1. (xctx = EmptyXctx)' => ReadInv'
        BY NothingRead, PTL
      <3>2. QED
        BY <2>1, <3>1 DEF EmptyXctx
    <2>6. QED
      BY <2>2, <2>3, <2>4, <2>5
  <1>3. CASE Cleanup
    <2>1. /\ ctxs' = [i \in Xadgets |-> None] /\ at' = "done"
          /\ UNCHANGED <<xctx, caller, nflipoffset, flipAge, menuAge, dpadAge, exiting, aumenuitem>>
      BY <1>3 DEF Cleanup, loader, flip, keys
    <2>2. NXadgets' = 0 /\ PlaceInv'
      BY <2>1, TableEmptied
    <2>3. TableInv'
      BY <2>1, <2>2, Bounds DEF TableInv
    <2>4. LoopOK'
      BY <2>1 DEF LoopOK
    <2>5. QED
      BY <2>1, <2>2, <2>3, <2>4, ReadFrame
  <1>4. QED
    BY <1>1, <1>2, <1>3 DEF ChooseProfile

LEMMA TimePlaces ==
  ASSUME RingInv, MenuInv', Render \/ Tick
  PROVE  RingInv'
  <1> USE DEF RingInv
  <1>1. CASE Crash("xgg_xadget_apply_trans")
    BY <1>1, Unmoved DEF Crash, FaultIn
  <1>2. CASE ~Crash("xgg_xadget_apply_trans")
    <2>1. /\ at \in DOMAIN After \cup {"load", "cleanup", "done"} /\ at \notin {"load", "cleanup", "done"}
          /\ at' \in {at, "top", "cleanup"}
          /\ flipAge' = Older(flipAge, FlipDura)
          /\ menuAge' \in {menuAge, -1} \/ (MenuMoves /\ menuAge' = menuAge + 1)
          /\ dpadAge' = Older(dpadAge, DpadRein)
          /\ UNCHANGED <<xctx, caller, ctxs, nflipoffset, exiting, aumenuitem>>
      BY <1>2 DEF Render, Tick, Runs, LoopOK, loader
    <2>2. flipAge' \in -1 .. FlipDura + 1 /\ (flipAge' = -1 <=> flipAge = -1)
      BY <2>1, TimeAssumption DEF Older, LoopOK
    <2>3. menuAge' \in -1 .. MenuDura /\ dpadAge' \in 0 .. DpadRein + 1
      BY <2>1, TimeAssumption DEF Older, MenuMoves, LoopOK
    <2>4. QED
      BY <2>1, <2>2, <2>3, NextStage, LoopGoesOn DEF LoopOK
  <1>3. QED
    BY <1>1, <1>2

-----------------------------------------------------------------------------
LEMMA RingInit == Init => RingInv
  <1> SUFFICES ASSUME Init PROVE RingInv
    OBVIOUS
  <1>1. NXadgets = 0
    BY Counted, Bounds DEF Init
  <1>2. TableInv /\ PlaceInv
    BY <1>1, Bounds DEF Init, TableInv, PlaceInv
  <1>3. LoopOK
    <2>1. ctxs \in [Xadgets -> {None} \cup [frame : Xadgets, flipto : {None} \cup Xadgets]]
      BY DEF Init
    <2>2. aumenuitem \in [Levels -> 0 .. NMaxMenuItems - 1]
      BY MenuAssumption DEF Init, DefaultItems
    <2>3. QED
      <3>1. /\ flipAge \in -1 .. FlipDura + 1 /\ menuAge \in -1 .. MenuDura
            /\ dpadAge \in 0 .. DpadRein + 1 /\ nflipoffset \in Xadgets
        BY Bounds, TimeAssumption DEF Init
      <3>2. at = "load" /\ caller = "main" /\ exiting \in BOOLEAN
        BY DEF Init
      <3>3. QED
        BY <2>1, <2>2, <3>1, <3>2 DEF LoopOK
  <1>4. ReadInv
    BY NothingRead DEF Init
  <1>5. QED
    BY <1>2, <1>3, <1>4, MenuInit DEF RingInv

LEMMA RingNext ==
  ASSUME Ordered PROVE RingInv /\ [Next]_vars => RingInv'
  <1> SUFFICES ASSUME RingInv, [Next]_vars PROVE RingInv'
    OBVIOUS
  <1>1. MenuInv'
    BY MenuNext DEF Ordered, RingInv
  <1>2. CASE UNCHANGED vars
    BY <1>2, Unmoved DEF vars, flip, menu, keys
  <1>3. CASE Callback \/ OpenFails
    BY <1>1, <1>3, ReadingPlaces
  <1>4. CASE Publish
    BY <1>1, <1>4, PublishPlaces DEF Ordered
  <1>5. CASE Complete
    BY <1>1, <1>5, CompletePlaces
  <1>6. CASE LeftTrigger \/ RightTrigger
    <2>1. at \in DOMAIN After /\ fault = "none"
      BY <1>6 DEF LeftTrigger, RightTrigger, Runs, RingInv, LoopOK
    <2>2. QED
      BY <1>1, <1>6, <2>1, FlipPlaces DEF LeftTrigger, RightTrigger
  <1>7. CASE Triangle \/ Square \/ MenuItemOffset(-1) \/ MenuItemOffset(1) \/ ChooseEnum
    BY <1>1, <1>7, KeyPlaces
  <1>8. CASE Click \/ ChooseNothing \/ ChooseAccessPoint \/ ChooseExit \/ FocusNext \/ NoKey \/ NothingToComplete
    BY <1>1, <1>8, StayPlaces
  <1>9. CASE ChooseProfile \/ Cleanup
    BY <1>1, <1>9, ProfilePlaces
  <1>10. CASE Render \/ Tick
    BY <1>1, <1>10, TimePlaces
  <1>11. QED
    BY <1>2, <1>3, <1>4, <1>5, <1>6, <1>7, <1>8, <1>9, <1>10 DEF Next, Step

-----------------------------------------------------------------------------
(* The ring                                                                *)

LEMMA RingIsRing == RingInv => Ring
  <1> SUFFICES ASSUME RingInv PROVE Ring
    OBVIOUS
  <1> USE DEF RingInv
  <1> DEFINE N == NXadgets
  <1>1. TypeOK
    BY LoopTyped
  <1>2. Loaded = 0 .. N - 1 /\ N \in Nat /\ N <= NMaxXadgets
    BY FullTable
  <1>3. ASSUME N = 0 PROVE FrontHasFocus /\ OwnFrame
    BY <1>2, <1>3 DEF FrontHasFocus, OwnFrame
  <1>4. ASSUME N > 0 PROVE FrontHasFocus /\ OwnFrame
    <2>1. nflipoffset \in 0 .. N - 1 /\ nflipoffset \in Xadgets /\ ctxs[nflipoffset] # None
      BY <1>2, <1>4, Bounds DEF TableInv, LoopOK
    <2>2. FrameOf(nflipoffset, nflipoffset) = 0
      BY <1>2, <2>1, FrameIs
    <2>3. PICK off \in 0 .. N - 1 : PlacedAt(off) /\ (flipAge = -1 => off = nflipoffset)
      BY <1>4, <2>1 DEF PlaceInv
    <2>4. flipAge # -1 => MovingTo(nflipoffset)
      BY <1>4 DEF PlaceInv
    <2>5. {ctxs[i].frame : i \in Loaded} = 0 .. N - 1
      <3>1. {ctxs[i].frame : i \in Loaded} = {FrameOf(i, off) : i \in 0 .. N - 1}
        BY <1>2, <2>3 DEF PlacedAt
      <3>2. QED
        BY <1>2, <3>1, AllFrames
    <2>6. flipAge # -1 => {ctxs[i].flipto : i \in Loaded} = 0 .. N - 1
      <3>1. flipAge # -1 => {ctxs[i].flipto : i \in Loaded} = {FrameOf(i, nflipoffset) : i \in 0 .. N - 1}
        BY <1>2, <2>4 DEF MovingTo
      <3>2. QED
        BY <1>2, <2>1, <3>1, AllFrames
    <2>7. FrontHasFocus
      BY <2>1, <2>2, <2>3, <2>4 DEF FrontHasFocus, HasFront, PlacedAt, MovingTo
    <2>8. QED
      BY <2>5, <2>6, <2>7 DEF OwnFrame
  <1>5. FrontHasFocus /\ OwnFrame
    BY <1>2, <1>3, <1>4
  <1>6. NoHoles
    BY <1>2, Bounds DEF NoHoles, TableInv, ReadInv
  <1>7. QED
    BY <1>1, <1>5, <1>6 DEF Ring

(* If every profile that is loaded has xadgets, memory and files for them, *)
(* and is selected when the xadgets are in their own frames: none is       *)
(* missing, each has its place, in a flip too, and the one in front has    *)
(* the focus, whatever keys are pressed, for any number of them.           *)
THEOREM RingAlways ==
  ASSUME Ordered PROVE Spec => []Ring
  BY RingInit, RingNext, RingIsRing, PTL DEF Spec

-----------------------------------------------------------------------------
(* Nothing that is not there is read or written                            *)

(* What NoFault needs besides: profiles that fit the tables, are complete  *)
(* and have a frameset.                                                    *)
Prudent == Env \subseteq {"edge"}

FaultInv == RingInv /\ fault = "none" /\ (xctx.inside = "xadget" => xctx.uidxxadget < NMaxXadgets)

LEMMA PrudentOrdered == Prudent => Ordered
  BY DEF Prudent, Ordered

(* While the loop runs there is a context in front, and one in entry 0.    *)
LEMMA SomeXadget ==
  ASSUME RingInv, at \notin {"load", "cleanup", "done"}
  PROVE  /\ HasFront /\ ctxs[0] # None /\ NXadgets # 0
         /\ flipAge # -1 => \A i \in Xadgets : ctxs[i] # None => ctxs[i].flipto # None
         /\ Loaded \subseteq Xadgets /\ \A i \in Loaded : ctxs[i] # None
  <1> USE DEF RingInv
  <1>1. NXadgets > 0 /\ Loaded = 0 .. NXadgets - 1 /\ NXadgets \in Nat /\ nflipoffset \in 0 .. NXadgets - 1
    BY FullTable, Bounds DEF TableInv, LoopOK
  <1>2. HasFront /\ ctxs[0] # None
    BY <1>1, Bounds DEF TableInv, LoopOK, HasFront
  <1>3. ASSUME flipAge # -1, NEW i \in Xadgets, ctxs[i] # None
        PROVE  ctxs[i].flipto # None
    <2>1. i \in 0 .. NXadgets - 1
      BY <1>1, <1>3, Bounds DEF TableInv
    <2>2. ctxs[i].flipto = FrameOf(i, nflipoffset)
      BY <1>1, <1>3, <2>1 DEF PlaceInv, MovingTo
    <2>3. FrameOf(i, nflipoffset) \in 0 .. NXadgets - 1
      BY <1>1, <2>1, FrameIs
    <2>4. FrameOf(i, nflipoffset) \in Xadgets
      BY <1>1, <2>3, Bounds DEF TableInv
    <2>5. QED
      BY <2>2, <2>4, NoneAssumption
  <1>4. Loaded \subseteq Xadgets /\ \A i \in Loaded : ctxs[i] # None
    BY <1>1, Bounds DEF TableInv
  <1>5. QED
    BY <1>1, <1>2, <1>3, <1>4

LEMMA FaultNext ==
  ASSUME Prudent PROVE FaultInv /\ [Next]_vars => FaultInv'
  <1> SUFFICES ASSUME FaultInv, [Next]_vars PROVE FaultInv'
    OBVIOUS
  <1> USE DEF FaultInv, Runs
  <1>1. RingInv'
    BY RingNext, PrudentOrdered
  <1>2. CASE UNCHANGED vars
    BY <1>1, <1>2 DEF vars
  <1>3. CASE Callback
    <2>1. /\ xctx.uidxframe \in 0 .. NMaxXadgets /\ xctx.uidxxadget \in 0 .. NMaxXadgets
          /\ xctx.uidxframeset < NMaxFramesets
      BY TablesAssumption DEF RingInv, ReadInv
    <2>2. CASE StartXadget
      <3>1. xctx.uidxxadget < NMaxXadgets /\ xctx'.uidxxadget = xctx.uidxxadget /\ fault' = "none"
        BY <2>2 DEF StartXadget, Prudent, RingInv, ReadInv
      <3>2. QED
        BY <1>1, <3>1
    <2>3. CASE StartFrameset \/ EndFrameset
      BY <1>1, <2>3 DEF StartFrameset, EndFrameset, RingInv, ReadInv
    <2>4. CASE Frame
      <3>1. xctx.uidxframe \in Xadgets
        BY <2>1, <2>4, Bounds DEF Frame
      <3>2. fault' = "none" /\ xctx'.inside = "frameset"
        BY <2>1, <2>4, <3>1 DEF Frame, RingInv, ReadInv
      <3>3. QED
        BY <1>1, <3>2
    <2>5. CASE EndXadget
      <3>1. xctx.uidxxadget \in Made
        <4>1. xctx.inside = "xadget" /\ xctx.uidxxadget \in Xadgets
          <5>1. xctx.inside = "xadget"
            BY <2>5 DEF EndXadget
          <5>2. xctx.uidxxadget < NMaxXadgets /\ xctx.uidxxadget \in 0 .. NMaxXadgets
            BY <2>1, <5>1
          <5>3. QED
            BY <5>1, <5>2, Bounds
        <4>2. xctx.apxjsectx[xctx.uidxxadget] = "made"
          BY <2>1, <4>1, Bounds DEF RingInv, ReadInv
        <4>3. QED
          BY <4>1, <4>2 DEF Made
      <3>2. fault' = "none" /\ xctx'.inside = "none"
        BY <2>5, <3>1 DEF EndXadget, RingInv, ReadInv
      <3>3. QED
        BY <1>1, <3>2
    <2>6. QED
      BY <1>3, <2>2, <2>3, <2>4, <2>5 DEF Callback, ReadTag
  <1>4. CASE OpenFails \/ Publish
    <2>1. Publish => ~(\E i \in Made : xctx.apxjsectx[i] # "read") /\ xctx.uidxframeset # 0
      BY TablesAssumption DEF Publish, MayEnd, Prudent, RingInv, ReadInv, Made
    <2>2. fault' = fault /\ xctx' = EmptyXctx
      BY <1>4, <2>1 DEF OpenFails, Publish, LoadReturns
    <2>3. QED
      BY <1>1, <2>2 DEF EmptyXctx
  <1>5. CASE Complete \/ NothingToComplete
    <2>1. at \notin {"load", "cleanup", "done"}
      BY <1>5 DEF Complete, NothingToComplete
    <2>2. Complete => \A i \in Loaded : ctxs[i].flipto # None
      <3>1. flipAge > FlipDura => flipAge # -1
        BY TimeAssumption
      <3>2. QED
        BY <2>1, <3>1, SomeXadget DEF Complete
    <2>3. fault' = fault /\ xctx' = xctx
      BY <1>5, <2>2 DEF Complete, NothingToComplete, Proceed, loader
    <2>4. QED
      BY <1>1, <2>3
  <1>6. CASE LeftTrigger \/ RightTrigger
    <2>1. NXadgets # 0
      BY <1>6, SomeXadget DEF LeftTrigger, RightTrigger
    <2>2. fault' = fault /\ xctx' = xctx
      BY <1>6, <2>1 DEF LeftTrigger, RightTrigger, Flip, Proceed, loader
    <2>3. QED
      BY <1>1, <2>2
  <1>7. CASE Triangle \/ Square \/ MenuItemOffset(-1) \/ MenuItemOffset(1) \/ NoKey \/ ChooseExit
    <2>1. fault' = fault /\ xctx' = xctx
      BY <1>7 DEF Triangle, Square, MenuItemOffset, NoKey, ChooseExit, Proceed, loader
    <2>2. QED
      BY <1>1, <2>1
  <1>8. CASE Click \/ ChooseAccessPoint \/ ChooseEnum \/ FocusNext
    <2>1. HasFront /\ ctxs[0] # None
      BY <1>8, SomeXadget DEF Click, ChooseAccessPoint, ChooseEnum, FocusNext, Chosen
    <2>2. fault' = fault /\ xctx' = xctx
      BY <1>8, <2>1 DEF Click, ChooseAccessPoint, ChooseEnum, FocusNext, Proceed, loader
    <2>3. QED
      BY <1>1, <2>2
  <1>9. CASE ChooseNothing
    <2>1. apmenuitems[umenulevel] # NoList
      BY <1>9, DefaultList DEF ChooseNothing, Chosen, MenuIsOpened, RingInv, MenuInv
    <2>2. fault' = fault /\ xctx' = xctx
      BY <1>9, <2>1 DEF ChooseNothing, Proceed, loader
    <2>3. QED
      BY <1>1, <2>2
  <1>10. CASE ChooseProfile
    <2>1. ctxs[0] # None
      BY <1>10, SomeXadget DEF ChooseProfile, Chosen
    <2>2. fault' = fault /\ xctx' = EmptyXctx
      BY <1>10, <2>1, Bounds DEF ChooseProfile
    <2>3. QED
      BY <1>1, <2>2 DEF EmptyXctx
  <1>11. CASE Render
    <2>1. ~FlipsNowhere
      BY <1>11, SomeXadget DEF Render, FlipsNowhere
    <2>2. fault' = fault /\ xctx' = xctx
      BY <1>11, <2>1 DEF Render, loader
    <2>3. QED
      BY <1>1, <2>2
  <1>12. CASE Cleanup \/ Tick
    <2>1. fault' = fault /\ xctx' = xctx
      BY <1>12 DEF Cleanup, Tick, loader
    <2>2. QED
      BY <1>1, <2>1
  <1>13. QED
    BY <1>2, <1>3, <1>4, <1>5, <1>6, <1>7, <1>8, <1>9, <1>10, <1>11, <1>12 DEF Next, Step

(* If besides profiles fit the tables, are complete and have a frameset,   *)
(* no handler goes through a null or dangling pointer, past a table, or    *)
(* divides by the number of no xadgets; also when a trigger is pressed     *)
(* after a flip has lasted its time.                                       *)
THEOREM NeverFaults ==
  ASSUME Prudent PROVE Spec => []NoFault
  <1>1. Init => FaultInv
    BY RingInit DEF Init, FaultInv, EmptyXctx
  <1>2. FaultInv => NoFault
    BY DEF FaultInv, NoFault
  <1>3. QED
    BY FaultNext, <1>1, <1>2, PTL DEF Spec

-----------------------------------------------------------------------------
(* Flips turn the ring by one                                              *)

TurnInv ==
  flipAge # -1 => \E m \in {1, NXadgets - 1} :
                    \A i \in Loaded : ctxs[i].flipto = (ctxs[i].frame + m) % NXadgets

LEMMA TurnNext ==
  ASSUME Ordered, "edge" \notin Env
  PROVE  RingInv /\ TurnInv /\ [Next]_vars => TurnInv'
  <1> SUFFICES ASSUME RingInv, TurnInv, [Next]_vars PROVE TurnInv'
    OBVIOUS
  <1> USE DEF Runs
  <1>1. CASE UNCHANGED ctxs /\ (flipAge' = -1 <=> flipAge = -1)
    <2>1. Loaded' = Loaded /\ NXadgets' = NXadgets
      BY <1>1, SameCount
    <2>2. QED
      BY <1>1, <2>1 DEF TurnInv
  <1>2. CASE flipAge' = -1
    BY <1>2 DEF TurnInv
  <1>3. flipAge \in -1 .. FlipDura + 1 /\ (at = "load" => flipAge = -1)
    BY DEF RingInv, LoopOK, TableInv
  <1>4. CASE Callback \/ OpenFails \/ Publish
    BY <1>2, <1>3, <1>4 DEF Callback, OpenFails, Publish, LoadReturns, Crash, flip
  <1>5. CASE Complete \/ NothingToComplete
    BY <1>1, <1>2, <1>5 DEF Complete, NothingToComplete, Crash, flip
  <1>6. ASSUME NEW n \in {-1, 1}, at \in DOMAIN After, fault = "none", Flip(n), ~(UNCHANGED <<ctxs, flipAge>>)
        PROVE  TurnInv'
    <2>1. MenuInv'
      BY MenuNext DEF Ordered, RingInv
    <2>2. /\ ~TooEarly /\ Loaded' = Loaded /\ NXadgets' = NXadgets
          /\ \A i \in Loaded : /\ ctxs'[i].frame = ctxs[i].frame
                               /\ ctxs'[i].flipto = FrameOf(i, Offset(n))
      BY <1>6, <2>1, FlipPlaces
    <2>3. flipAge = -1
      BY <1>3, <1>6, <2>2, TimeAssumption DEF Flip, TooEarly
    <2>4. NXadgets \in Nat \ {0} /\ nflipoffset \in 0 .. NXadgets - 1 /\ Loaded = 0 .. NXadgets - 1
      BY <1>6, FullTable, NextStage, Bounds DEF RingInv, TableInv, LoopOK
    <2>5. \A i \in Loaded : ctxs[i].frame = FrameOf(i, nflipoffset)
      BY <2>3, <2>4 DEF RingInv, PlaceInv, PlacedAt
    <2>6. PICK m \in {1, NXadgets - 1} :
            \A i \in 0 .. NXadgets - 1 : FrameOf(i, Offset(n)) = (FrameOf(i, nflipoffset) + m) % NXadgets
      BY <2>4, OffsetTurns
    <2>7. QED
      BY <2>2, <2>4, <2>5, <2>6 DEF TurnInv
  <1>7. CASE LeftTrigger \/ RightTrigger
    <2>1. at \in DOMAIN After /\ fault = "none"
      BY <1>7 DEF LeftTrigger, RightTrigger, RingInv, LoopOK
    <2>2. QED
      BY <1>1, <1>6, <1>7, <2>1 DEF LeftTrigger, RightTrigger
  <1>8. CASE Triangle \/ Square \/ MenuItemOffset(-1) \/ MenuItemOffset(1) \/ NoKey
    BY <1>1, <1>8 DEF Triangle, Square, MenuItemOffset, NoKey, flip
  <1>9. CASE Click \/ ChooseNothing \/ ChooseEnum \/ ChooseAccessPoint \/ ChooseExit \/ FocusNext
    BY <1>1, <1>9
    DEF Click, ChooseNothing, ChooseEnum, ChooseAccessPoint, ChooseExit, FocusNext, Chosen, Crash, flip
  <1>10. CASE ChooseProfile
    BY <1>1, <1>2, <1>10 DEF ChooseProfile, Ordered, Crash, flip
  <1>11. CASE Render \/ Tick
    BY <1>1, <1>3, <1>11, TimeAssumption DEF Render, Tick, Older, Crash, flip
  <1>12. CASE Cleanup
    <2>1. Loaded' = {}
      BY <1>12, Bounds DEF Cleanup, Loaded
    <2>2. QED
      BY <2>1 DEF TurnInv
  <1>13. CASE UNCHANGED vars
    BY <1>1, <1>13 DEF vars
  <1>14. QED
    BY <1>4, <1>5, <1>7, <1>8, <1>9, <1>10, <1>11, <1>12, <1>13 DEF Next, Step

(* If no trigger is pressed between the end of a flip and its completion,  *)
(* every flip moves all xadgets by one frame in one direction: pressed     *)
(* triggers neither add up nor get lost, for any number of xadgets.        *)
THEOREM FlipsTurnByOne ==
  ASSUME Ordered, "edge" \notin Env PROVE Spec => TurnsByOne
  <1> DEFINE Turned ==
        flipAge >= 0 /\ flipAge' = -1 =>
          \E n \in {1, NXadgets - 1} : \A i \in Loaded : ctxs'[i].frame = (ctxs[i].frame + n) % NXadgets
  <1>1. RingInv /\ TurnInv /\ [Next]_vars => [Turned]_vars
    <2> SUFFICES ASSUME RingInv, TurnInv, [Next]_vars, flipAge >= 0, flipAge' = -1
                 PROVE  \E n \in {1, NXadgets - 1} : \A i \in Loaded : ctxs'[i].frame = (ctxs[i].frame + n) % NXadgets
      OBVIOUS
    <2>1. flipAge # -1 /\ flipAge \in -1 .. FlipDura + 1
      BY DEF RingInv, LoopOK
    <2>2. Complete /\ fault' = fault
      <3> USE DEF Runs, Crash, flip
      <3>1. CASE Callback \/ OpenFails \/ Publish
        BY <2>1, <3>1 DEF Callback, OpenFails, Publish, LoadReturns
      <3>2. CASE Complete \/ NothingToComplete
        BY <2>1, <3>2 DEF Complete, NothingToComplete, Proceed
      <3>3. CASE LeftTrigger \/ RightTrigger
        BY <2>1, <3>3 DEF LeftTrigger, RightTrigger, Flip
      <3>4. CASE Triangle \/ Square \/ MenuItemOffset(-1) \/ MenuItemOffset(1) \/ NoKey
        BY <2>1, <3>4 DEF Triangle, Square, MenuItemOffset, NoKey
      <3>5. CASE Click \/ ChooseNothing \/ ChooseEnum \/ ChooseAccessPoint \/ ChooseExit \/ FocusNext
        BY <2>1, <3>5
        DEF Click, ChooseNothing, ChooseEnum, ChooseAccessPoint, ChooseExit, FocusNext, Chosen
      <3>6. CASE ChooseProfile \/ Cleanup
        BY <2>1, <3>6 DEF ChooseProfile, Cleanup
      <3>7. CASE Render \/ Tick
        BY <2>1, <3>7, TimeAssumption DEF Render, Tick, Older
      <3>8. CASE UNCHANGED vars
        BY <2>1, <3>8 DEF vars
      <3>9. QED
        BY <3>1, <3>2, <3>3, <3>4, <3>5, <3>6, <3>7, <3>8 DEF Next, Step
    <2>3. MenuInv'
      BY MenuNext DEF Ordered, RingInv
    <2>4. \A i \in Loaded : ctxs'[i].frame = ctxs[i].flipto
      BY <2>2, <2>3, CompletePlaces
    <2>5. QED
      BY <2>1, <2>4 DEF TurnInv
  <1>2. Init => TurnInv
    BY DEF Init, TurnInv
  <1>3. QED
    BY RingInit, RingNext, TurnNext, <1>1, <1>2, PTL DEF Spec, TurnsByOne
=============================================================================
