------------------------------ MODULE Profiles ------------------------------
(***************************************************************************)
(* Reading a profile (xjse.c): the callbacks that expat calls for the tags *)
(* of profiles/*.xml collect frames and make one script context per        *)
(* <xadget>.  The module is the part of Ui that runs while a file is read. *)
(***************************************************************************)
EXTENDS Integers, FiniteSets

CONSTANTS
  NMaxXadgets,    (* XJSE_NMAXXADGETS                                       *)
  NMaxFramesets,  (* XJSE_NMAXFRAMESETS                                     *)
  Env             (* see EnvKinds                                           *)

(***************************************************************************)
(* What the profiles and the user do that the code is not prepared for.    *)
(*   "many":      more than NMaxXadgets xadgets in a profile               *)
(*   "noMemory":  a script context cannot be made                          *)
(*   "missing":   a gadget that has no main.xml                            *)
(*   "broken":    a file that breaks off inside an <xadget>                *)
(*   "noFrames":  a profile without a frameset                             *)
(*   "empty":     a profile without xadgets, or one that cannot be opened  *)
(*   "midflip":   a profile is selected while the xadgets change places    *)
(*   "turned":    a profile is selected while they are not in their own    *)
(*   "edge":      a trigger is pressed after the flip has lasted its time, *)
(*                before the main loop has seen that                       *)
(*   "narrow":    a list is opened that has fewer items than the focused   *)
(*                item's index in the list before                          *)
(***************************************************************************)
EnvKinds == {"many", "noMemory", "missing", "broken", "noFrames", "empty",
             "midflip", "turned", "edge", "narrow"}

ASSUME TablesAssumption == NMaxXadgets \in Nat \ {0} /\ NMaxFramesets \in Nat \ {0}
ASSUME EnvAssumption == Env \subseteq EnvKinds

Xadgets == 0 .. NMaxXadgets - 1

VARIABLES
  xctx,   (* XADGPROFREADCTX, and the tag the file is in                    *)
  fault   (* where the program has read or written what is not there        *)

(* memset: nothing is made, no frame is known.                             *)
EmptyXctx ==
  [uidxframeset |-> 0, uidxframe |-> 0, uidxxadget |-> 0,
   apxjsectx |-> [i \in Xadgets |-> "none"], inside |-> "none"]

Made == {i \in Xadgets : xctx.apxjsectx[i] # "none"}

(* The next access is outside of a table, or through a null pointer.       *)
FaultIn(where) == fault' = where /\ UNCHANGED xctx

-----------------------------------------------------------------------------
(* xadgprof_cb_startelement                                                *)

(* xjse_prepare_jsectx: a script context, or none if memory runs out.      *)
Prepared == {"made"} \cup (IF "noMemory" \in Env THEN {"none"} ELSE {})

(* <xadget>: a new script context.  One too many is ignored.               *)
StartXadget ==
  /\ xctx.inside = "none"
  /\ xctx.uidxxadget < NMaxXadgets \/ "many" \in Env
  /\ IF xctx.uidxxadget = NMaxXadgets
     THEN xctx' = [xctx EXCEPT !.inside = "xadget"]
     ELSE \E made \in Prepared :
            xctx' = [xctx EXCEPT !.inside = "xadget", !.apxjsectx[xctx.uidxxadget] = made]
  /\ UNCHANGED fault

(* <frameset> has no callback of its own.                                  *)
StartFrameset ==
  /\ xctx.inside = "none"
  /\ xctx' = [xctx EXCEPT !.inside = "frameset"]
  /\ UNCHANGED fault

(* <frame>: the rectangle of the next frame of this frameset.              *)
Frame ==
  /\ xctx.inside = "frameset"
  /\ xctx.uidxframe # NMaxXadgets
  /\ IF xctx.uidxframe \in Xadgets /\ xctx.uidxframeset < NMaxFramesets
     THEN xctx' = [xctx EXCEPT !.uidxframe = @ + 1] /\ UNCHANGED fault
     ELSE FaultIn("xadgprof_cb_startelement")

-----------------------------------------------------------------------------
(* xadgprof_cb_endelement                                                  *)

(* Mutant: the next xadget takes the place of this one.                    *)
EndXadgetInPlace ==
  /\ xctx.inside = "xadget"
  /\ xctx' = [xctx EXCEPT !.inside = "none", !.apxjsectx[xctx.uidxxadget] = "read"]
  /\ UNCHANGED fault

(* xgg_load_one reads main.xml; where that cannot be opened the gadget is  *)
(* freed, and the context still points to it.                              *)
LoadedOne == {"read"} \cup (IF "missing" \in Env THEN {"freed"} ELSE {})

(* </xadget>: whatever has been made at its start tag is loaded.           *)
EndXadget ==
  /\ xctx.inside = "xadget"
  /\ IF xctx.uidxxadget \notin Made
     THEN FaultIn("xgg_load_one")
     ELSE /\ \E read \in LoadedOne :
               xctx' = [xctx EXCEPT !.inside = "none", !.uidxxadget = @ + 1,
                                    !.apxjsectx[xctx.uidxxadget] = read]
          /\ UNCHANGED fault

(* Mutant: the last frameset of the table is ended as the others are.      *)
EndFramesetUnbounded ==
  /\ xctx.inside = "frameset"
  /\ xctx' = [xctx EXCEPT !.inside = "none", !.uidxframe = 0,
                          !.uidxframeset = IF @ <= NMaxFramesets THEN @ + 1 ELSE @]
  /\ UNCHANGED fault

(* </frameset>: the last one of the table is never ended.                  *)
EndFrameset ==
  /\ xctx.inside = "frameset"
  /\ xctx' = IF xctx.uidxframeset = NMaxFramesets - 1
             THEN [xctx EXCEPT !.inside = "none"]
             ELSE [xctx EXCEPT !.inside = "none", !.uidxframe = 0, !.uidxframeset = @ + 1]
  /\ UNCHANGED fault

ReadTag == StartXadget \/ StartFrameset \/ Frame \/ EndXadget \/ EndFrameset

(* The file may end: between tags, or anywhere if it is broken.            *)
MayEnd ==
  /\ xctx.inside # "xadget" \/ "broken" \in Env
  /\ Made # {} \/ "empty" \in Env
  /\ xctx.uidxframeset > 0 \/ "noFrames" \in Env
=============================================================================
