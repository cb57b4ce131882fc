------------------------------- MODULE Timers -------------------------------
(***************************************************************************)
(* The timers of one xadget: the table in its script context (xjse.c), the *)
(* script functions that fill and empty it (xgg.c) and the main loop's     *)
(* pass that fires at most one of them per turn (cb_once_on_loop, main.c). *)
(*                                                                         *)
(* Nothing runs in parallel, but a callback may change the table while the *)
(* loop holds a pointer to the slot it has found.  Time is relative: left  *)
(* is nexttime minus the current time, and -1 stands for all of the past.  *)
(***************************************************************************)
EXTENDS Integers

CONSTANTS
  NTimers,      (* XJSE_NMAXTIMERS, the size of the table                   *)
  Calls,        (* calls of setTimeout(), setInterval(), beginAnimation()   *)
  None,         (* no call                                                  *)
  MinTimeout,   (* the shortest timeout the code grants (1000 ms), in ticks *)
  Delays,       (* the delays and durations scripts ask for, in ticks       *)
  Bodies,       (* the callbacks scripts pass                               *)
  LoopTicks,    (* how long a turn of the main loop may take, in ticks      *)
  Env           (* what scripts do, see EnvKinds                            *)

(***************************************************************************)
(* "replace": a callback clears its own timer and sets another one.        *)
(* "staleId": a script clears a timer it knows to be over.                 *)
(* "eventLost": a script's property "event" cannot be read, in this xadget *)
(*   or in one before it.                                                  *)
(***************************************************************************)
EnvKinds == {"replace", "staleId", "eventLost"}

ASSUME NTimersAssumption == NTimers \in Nat \ {0}
ASSUME NoneAssumption == None \notin Calls
ASSUME MinTimeoutAssumption == MinTimeout \in Nat \ {0}
ASSUME DelaysAssumption == Delays \subseteq Int
ASSUME BodiesAssumption == Bodies \subseteq {"string", "function", "none"}
ASSUME LoopTicksAssumption == LoopTicks \in Nat
ASSUME EnvAssumption == Env \subseteq EnvKinds

Slots == 0 .. NTimers - 1

Kinds == {"timeout", "interval", "animation"}

Clip(d) == IF d < 0 THEN -1 ELSE d

(* A timer is valid while its timeout is not 0.                            *)
Empty == [call |-> None, left |-> 0, timeout |-> 0, body |-> "none",
          recurs |-> FALSE, anim |-> FALSE, rest |-> 0]

Timer == [call : Calls \cup {None}, left : Int, timeout : Int,
          body : {"string", "function", "none"},
          recurs : BOOLEAN, anim : BOOLEAN, rest : Int]

VARIABLES
  timer,      (* XJSECTX.timers                                             *)
  pc,         (* of the main loop's turn                                    *)
  cur,        (* the slot that ptimer1 points to                            *)
  ticks,      (* time this turn has taken                                   *)
  running,    (* the call whose callback runs                               *)
  kind,       (* what each call was for; "none" while it has not been made  *)
  id,         (* the identifier it returned                                 *)
  cleared,    (* calls that scripts have passed to clearInterval()          *)
  old,        (* calls made in a script context that has been deleted       *)
  runs,       (* how often it has been fired: 0, 1, 2 for more              *)
  age,        (* time since the call or the last run, up to MinTimeout + 1  *)
  value       (* how far event.value had come in the last run               *)

scriptVars == <<kind, id, cleared, old>>
runVars == <<running, runs, age, value>>
vars == <<timer, pc, cur, ticks, scriptVars, runVars>>

Valid(n) == timer[n].timeout # 0

TimedOut(n) == Valid(n) /\ timer[n].left < 0

InTable(c) == \E n \in Slots : timer[n].call = c

Init ==
  /\ timer = [n \in Slots |-> Empty]
  /\ pc = "loop"
  /\ cur = 0
  /\ ticks = 0
  /\ running = None
  /\ kind = [c \in Calls |-> "none"]
  /\ id = [c \in Calls |-> 0]
  /\ cleared = {}
  /\ old = {}
  /\ runs = [c \in Calls |-> 0]
  /\ age = [c \in Calls |-> 0]
  /\ value = [c \in Calls |-> "none"]

-----------------------------------------------------------------------------
(* Scripts: event handlers between two passes, and timer callbacks         *)

ScriptPCs == {"loop", "inString", "inFunction"}

(* Delays are unsigned in xjse_timer_add: a negative one is far above the  *)
(* minimum, and added to the current time it gives a time in the past.     *)
Granted(d) == IF d \in 0 .. MinTimeout - 1 THEN MinTimeout ELSE d

NewTimer(c, k, body, d, duration) ==
  [call |-> c, left |-> Clip(Granted(d)), timeout |-> Granted(d), body |-> body,
   recurs |-> k # "timeout", anim |-> k = "animation", rest |-> Clip(duration)]

FirstEmpty(n) == ~Valid(n) /\ \A m \in Slots : m < n => Valid(m)

(***************************************************************************)
(* xjse_timer_add: the first free slot is taken and its index returned;    *)
(* when there is none the call fails.  A script that has cleared the       *)
(* running timer sets no other one in its callback unless "replace".       *)
(***************************************************************************)
AddTimer(c, k, body, d, duration) ==
  /\ pc \in ScriptPCs
  /\ kind[c] = "none"
  /\ running \in cleared => "replace" \in Env
  /\ \E n \in Slots :
       /\ FirstEmpty(n)
       /\ timer' = [timer EXCEPT ![n] = NewTimer(c, k, body, d, duration)]
       /\ id' = [id EXCEPT ![c] = n]
  /\ kind' = [kind EXCEPT ![c] = k]
  /\ UNCHANGED <<pc, cur, ticks, cleared, old, runVars>>

(* setTimeout() and setInterval()                                          *)
SetTimer(c, k, body, d) ==
  k \in {"timeout", "interval"} /\ AddTimer(c, k, body, d, 0)

(* Its interval is 100 ms, which is less than the minimum.                 *)
BeginAnimation(c, body, duration) == AddTimer(c, "animation", body, 0, duration)

(* clearInterval() destroys the timer in the slot, whichever that is.      *)
ClearInterval(c) ==
  /\ pc \in ScriptPCs
  /\ kind[c] # "none" /\ c \notin old /\ c \notin cleared
  /\ timer[id[c]].call = c \/ "staleId" \in Env
  /\ timer' = [timer EXCEPT ![id[c]] = Empty]
  /\ cleared' = cleared \cup {c}
  /\ UNCHANGED <<pc, cur, ticks, kind, id, old, runVars>>

(* Mutant: the loop over the slots ends one too early.                     *)
DestroyAllButLast ==
  /\ pc = "loop"
  /\ timer' = [n \in Slots |-> IF n = NTimers - 1 THEN timer[n] ELSE Empty]
  /\ old' = {c \in Calls : kind[c] # "none"}
  /\ UNCHANGED <<pc, cur, ticks, kind, id, cleared, runVars>>

(* The profile is switched: all timers are destroyed with the context.     *)
DestroyAll ==
  /\ pc = "loop"
  /\ timer' = [n \in Slots |-> Empty]
  /\ old' = {c \in Calls : kind[c] # "none"}
  /\ UNCHANGED <<pc, cur, ticks, kind, id, cleared, runVars>>

-----------------------------------------------------------------------------
(* The main loop                                                           *)

(* The clock: what the code reads as the current time goes up by one.      *)
Tick ==
  /\ ticks < LoopTicks
  /\ ticks' = ticks + 1
  /\ timer' = [n \in Slots |->
                 [timer[n] EXCEPT !.left = Clip(@ - 1), !.rest = Clip(@ - 1)]]
  /\ age' = [c \in Calls |->
               IF InTable(c) THEN IF age[c] > MinTimeout THEN age[c] ELSE age[c] + 1
               ELSE 0]
  /\ UNCHANGED <<pc, cur, scriptVars, running, runs, value>>

(* xjse_timer_find_timedout: the timed out timer of the lowest index.      *)
FindTimedOut ==
  /\ pc = "loop"
  /\ ticks' = 0
  /\ \/ \E n \in Slots :
          /\ TimedOut(n) /\ \A m \in Slots : m < n => ~TimedOut(m)
          /\ pc' = "found" /\ cur' = n
     \/ /\ \A n \in Slots : ~TimedOut(n)
        /\ UNCHANGED <<pc, cur>>
  /\ UNCHANGED <<timer, scriptVars, runVars>>

(* The pass has been ended by an xadget before this one.                   *)
TurnLost ==
  /\ "eventLost" \in Env
  /\ pc = "loop"
  /\ ticks' = 0
  /\ UNCHANGED <<timer, pc, cur, scriptVars, runVars>>

(* What ptimer1 holds is executed: its script, its function, or nothing    *)
(* when the script has passed something else.                              *)
Execute(tm) ==
  /\ \/ tm.body = "string" /\ pc' = "inString" /\ running' = tm.call
     \/ tm.body = "function" /\ pc' = "inFunction" /\ running' = tm.call
     \/ tm.body = "none" /\ pc' = "rearm" /\ running' = None
  /\ runs' = [runs EXCEPT ![tm.call] = IF @ = 2 THEN 2 ELSE @ + 1]
  /\ age' = [age EXCEPT ![tm.call] = 0]

Fire ==
  /\ pc = "found" /\ ~timer[cur].anim
  /\ Execute(timer[cur])
  /\ UNCHANGED <<timer, cur, ticks, scriptVars, value>>

(* Mutant: the end of the duration is tested in two different ways.        *)
FireAnimationEarly ==
  /\ pc = "found" /\ timer[cur].anim
  /\ value' = [value EXCEPT ![timer[cur].call] =
                 IF timer[cur].rest < 0 THEN "end" ELSE "part"]
  /\ timer' = [timer EXCEPT ![cur].recurs = IF timer[cur].rest <= 0 THEN ~@ ELSE @]
  /\ Execute(timer[cur])
  /\ UNCHANGED <<cur, ticks, scriptVars>>

(* An animation gets the value for the current time, which is the end      *)
(* value when its duration is over; it does not recur then.                *)
FireAnimation ==
  /\ pc = "found" /\ timer[cur].anim
  /\ LET over == timer[cur].rest < 0
     IN  /\ value' = [value EXCEPT ![timer[cur].call] = IF over THEN "end" ELSE "part"]
         /\ timer' = [timer EXCEPT ![cur].recurs = IF over THEN ~@ ELSE @]
  /\ Execute(timer[cur])
  /\ UNCHANGED <<cur, ticks, scriptVars>>

(* "event" cannot be read: the pass ends and leaves the timer as it is.    *)
FireFails ==
  /\ "eventLost" \in Env
  /\ pc = "found" /\ timer[cur].anim
  /\ pc' = "loop"
  /\ UNCHANGED <<timer, cur, ticks, scriptVars, runVars>>

(* After the script the slot is looked at again for a function.            *)
StringReturns ==
  /\ pc = "inString"
  /\ \/ timer[cur].body = "function" /\ Execute(timer[cur])
     \/ /\ timer[cur].body # "function"
        /\ pc' = "rearm" /\ running' = None
        /\ UNCHANGED <<runs, age>>
  /\ UNCHANGED <<timer, cur, ticks, scriptVars, value>>

FunctionReturns ==
  /\ pc = "inFunction"
  /\ pc' = "rearm" /\ running' = None
  /\ UNCHANGED <<timer, cur, ticks, scriptVars, runs, age, value>>

(* Mutants: an interval keeps its old time; every timer is reset; a timer  *)
(* is destroyed without clearing its slot.                                 *)
RearmKeepsTime ==
  /\ pc = "rearm"
  /\ pc' = "loop"
  /\ timer' = [timer EXCEPT ![cur] = IF @.recurs THEN @ ELSE Empty]
  /\ UNCHANGED <<cur, ticks, scriptVars, runVars>>

RearmAlways ==
  /\ pc = "rearm"
  /\ pc' = "loop"
  /\ timer' = [timer EXCEPT ![cur].left = Clip(timer[cur].timeout)]
  /\ UNCHANGED <<cur, ticks, scriptVars, runVars>>

RearmHalf ==
  /\ pc = "rearm"
  /\ pc' = "loop"
  /\ timer' = [timer EXCEPT ![cur] =
                 IF @.recurs THEN [@ EXCEPT !.left = Clip(timer[cur].timeout)]
                 ELSE [@ EXCEPT !.timeout = 0]]
  /\ UNCHANGED <<cur, ticks, scriptVars, runVars>>

(* The timer in the slot is reset when it recurs, and destroyed otherwise. *)
Rearm ==
  /\ pc = "rearm"
  /\ pc' = "loop"
  /\ timer' = [timer EXCEPT ![cur] =
                 IF @.recurs THEN [@ EXCEPT !.left = Clip(timer[cur].timeout)] ELSE Empty]
  /\ UNCHANGED <<cur, ticks, scriptVars, runVars>>

-----------------------------------------------------------------------------
Script ==
  \/ \E c \in Calls :
       \/ \E body \in Bodies, d \in Delays :
            \/ \E k \in Kinds : SetTimer(c, k, body, d)
            \/ BeginAnimation(c, body, d)
       \/ ClearInterval(c)
  \/ DestroyAll

Turn ==
  \/ FindTimedOut \/ TurnLost \/ Fire \/ FireAnimation \/ FireFails
  \/ StringReturns \/ FunctionReturns \/ Rearm

Next == Script \/ Turn \/ Tick

Spec == Init /\ [][Next]_vars

(* The main loop goes round, callbacks return, and time passes.            *)
FairSpec == Spec /\ WF_vars(Turn) /\ WF_vars(Tick)

-----------------------------------------------------------------------------
(* Type invariant: every slot holds a timer record that is valid if and    *)
(* only if it stands for a call; indices and histories are in range.       *)
TypeOK ==
  /\ timer \in [Slots -> Timer]
  /\ \A n \in Slots : Valid(n) <=> timer[n].call # None
  /\ pc \in {"loop", "found", "inString", "inFunction", "rearm"}
  /\ cur \in Slots
  /\ ticks \in 0 .. LoopTicks
  /\ running \in Calls \cup {None}
  /\ kind \in [Calls -> Kinds \cup {"none"}]
  /\ id \in [Calls -> Slots]
  /\ cleared \in SUBSET Calls
  /\ old \in SUBSET Calls
  /\ runs \in [Calls -> 0 .. 2]
  /\ age \in [Calls -> 0 .. MinTimeout + 1]
  /\ value \in [Calls -> {"none", "part", "end"}]

(* The calls that have not been taken back in some way.                    *)
Standing == {c \in Calls : kind[c] # "none"} \ (cleared \cup old)

(* "reset (setInterval) or clear (setTimeout) the timer" (cb_once_on_loop):*)
(* a timer leaves the table only when its own callback has run (and it     *)
(* does not recur), by clearInterval() or with its script context; an      *)
(* interval that nobody clears never leaves it.                            *)
NotLost ==
  \A c \in Standing :
    InTable(c) \/ (kind[c] # "interval" /\ runs[c] > 0)

(* The callback of setTimeout() runs at most once.                         *)
RunsOnce == \A c \in Calls : kind[c] = "timeout" => runs[c] <= 1

Starts(c) == running' = c /\ running # c

(* "limit minimum timeout value" (xjse_timer_add): between setting a timer *)
(* and its callback, and between two runs of the callback, more than the   *)
(* minimum passes.                                                         *)
Paced == [][\A c \in Calls : Starts(c) => age[c] > MinTimeout]_vars

(* The callback of a timer that has been cleared, or whose script context  *)
(* has been deleted, is not called any more.                               *)
TakenBackSilent == [][\A c \in Calls : Starts(c) => c \in Standing]_vars

(* An animation is not over before its callback has seen the end value.    *)
AnimationEnds ==
  \A c \in Standing : kind[c] = "animation" => InTable(c) \/ value[c] = "end"

(* Timers stay in the table until they are really over, of either kind.    *)
Kept == NotLost /\ AnimationEnds

(* "ClearInterval(timer identifier)" (xgg.c): the identifier stands for    *)
(* the timer it was returned for, and no other one is cleared.             *)
ClearsOwn ==
  [][\A c \in Calls :
       cleared' = cleared \cup {c} /\ c \notin cleared =>
         \A d \in Calls \ {c} : InTable(d) => InTable(d)']_vars

Due(c) == \E n \in Slots : timer[n].call = c /\ TimedOut(n)

(* "find timed-out timer objects" (main.c): a timer that has timed out is  *)
(* fired, or taken back, unless an "event" that cannot be read ends the    *)
(* pass again and again when timers are due.                               *)
EveryTimerFires ==
  \/ []<><<(TurnLost /\ \E n \in Slots : TimedOut(n)) \/ FireFails>>_vars
  \/ \A c \in Calls : Due(c) ~> ~Due(c)

-----------------------------------------------------------------------------
(* The inductive invariants behind RunsOnce and NotLost.                   *)

FiringPCs == {"inString", "inFunction", "rearm"}

(* The flags of a slot say what its call was for.                          *)
SlotInv(n) ==
  LET c == timer[n].call IN
    IF c = None
      THEN timer[n].body = "none" /\ ~timer[n].recurs /\ ~timer[n].anim
      ELSE /\ kind[c] # "none"
           /\ kind[c] = "timeout" => ~timer[n].recurs
           /\ kind[c] = "interval" => timer[n].recurs
           /\ timer[n].anim <=> kind[c] = "animation"

(* A call has at most one slot.                                            *)
TableInv ==
  /\ \A n, m \in Slots :
       timer[n].call # None /\ timer[n].call = timer[m].call => n = m
  /\ \A n \in Slots : SlotInv(n)
  /\ pc = "found" => timer[cur].call # None

(* A timeout that has been fired is in the table only until its turn ends; *)
(* what a script has left in the slot of the running timer is not fired.   *)
OnceInv ==
  /\ \A c \in Calls : kind[c] = "none" => runs[c] = 0
  /\ RunsOnce
  /\ \A n \in Slots : LET c == timer[n].call IN
       c # None /\ kind[c] = "timeout" /\ runs[c] > 0 => n = cur /\ pc \in FiringPCs
  /\ pc = "inString" /\ timer[cur].body = "function" => runs[timer[cur].call] = 0

(* Without "replace" the slot of the fired timer is its own, or empty.     *)
FiringInv ==
  /\ pc \in {"inString", "inFunction"} =>
       /\ running # None
       /\ timer[cur].call = running \/ (timer[cur].call = None /\ running \in cleared)
  /\ pc \in FiringPCs /\ timer[cur].call # None => runs[timer[cur].call] > 0

(* An animation recurs until it has been given its end value.              *)
EndInv ==
  \A n \in Slots : LET c == timer[n].call IN
    c # None /\ kind[c] = "animation" /\ ~timer[n].recurs =>
      n = cur /\ pc \in FiringPCs /\ value[c] = "end"
(* A call that has a slot has its identifier's, and stands.                *)
StandingInv ==
  \A n \in Slots : LET c == timer[n].call IN c # None => id[c] = n /\ c \in Standing
=============================================================================
