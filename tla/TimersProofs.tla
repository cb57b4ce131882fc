---------------------------- MODULE TimersProofs ----------------------------
(***************************************************************************)
(* Proofs about Timers: for every size of the table, every set of calls    *)
(* and delays, and (RunsOnceAlways) for all that scripts may do.           *)
(***************************************************************************)
EXTENDS Timers, TLAPS

USE DEF Slots, Kinds

-----------------------------------------------------------------------------
(* Types                                                                   *)

LEMMA TypeInit == Init => TypeOK
  BY NTimersAssumption, MinTimeoutAssumption, LoopTicksAssumption, NoneAssumption
  DEF Init, TypeOK, Valid, Timer, Empty

LEMMA ClipType == ASSUME NEW d \in Int PROVE Clip(d) \in Int
  BY DEF Clip

(* A granted timeout is never 0: the new timer is valid.                   *)
LEMMA GrantedType == ASSUME NEW d \in Int PROVE Granted(d) \in Int \ {0}
  BY MinTimeoutAssumption DEF Granted

LEMMA NewTimerType ==
  ASSUME NEW c \in Calls, NEW k \in Kinds, NEW body \in {"string", "function", "none"},
         NEW d \in Int, NEW e \in Int
  PROVE  NewTimer(c, k, body, d, e) \in Timer /\ NewTimer(c, k, body, d, e).timeout # 0
  <1>1. Granted(d) \in Int \ {0} /\ Clip(Granted(d)) \in Int /\ Clip(e) \in Int
    BY ClipType, GrantedType
  <1>2. QED
    BY <1>1 DEF NewTimer, Timer

LEMMA EmptyType == Empty \in Timer /\ Empty.timeout = 0 /\ Empty.call = None
  BY DEF Empty, Timer

(* Setting one of these fields of a timer leaves the others alone.         *)
SameTimer(a, b) ==
  /\ a.call = b.call /\ a.timeout = b.timeout /\ a.body = b.body /\ a.anim = b.anim

LEMMA TickUpdate ==
  ASSUME NEW tm \in Timer
  PROVE  LET new == [tm EXCEPT !.left = Clip(@ - 1), !.rest = Clip(@ - 1)]
         IN  new \in Timer /\ SameTimer(new, tm) /\ new.recurs = tm.recurs
  <1>1. tm.left - 1 \in Int /\ tm.rest - 1 \in Int
    BY DEF Timer
  <1>2. Clip(tm.left - 1) \in Int /\ Clip(tm.rest - 1) \in Int
    BY <1>1, ClipType
  <1>3. QED
    BY <1>2 DEF Timer, SameTimer

LEMMA LeftUpdate ==
  ASSUME NEW tm \in Timer, NEW l \in Int
  PROVE  LET new == [tm EXCEPT !.left = l]
         IN  new \in Timer /\ SameTimer(new, tm) /\ new.recurs = tm.recurs
  BY DEF Timer, SameTimer

LEMMA RecursUpdate ==
  ASSUME NEW tm \in Timer, NEW r \in BOOLEAN
  PROVE  LET new == [tm EXCEPT !.recurs = r]
         IN  new \in Timer /\ SameTimer(new, tm) /\ new.recurs = r
  BY DEF Timer, SameTimer

LEMMA FieldType ==
  ASSUME NEW tm \in Timer
  PROVE  /\ tm.call \in Calls \cup {None}
         /\ tm.left \in Int /\ tm.timeout \in Int /\ tm.rest \in Int
         /\ tm.recurs \in BOOLEAN
  BY DEF Timer

LEMMA TypeAddTimer ==
  ASSUME TypeOK, NEW c \in Calls, NEW k \in Kinds, NEW body \in Bodies,
         NEW d \in Int, NEW e \in Int, AddTimer(c, k, body, d, e)
  PROVE  TypeOK'
  <1> DEFINE tm == NewTimer(c, k, body, d, e)
  <1>1. PICK n \in Slots : timer' = [timer EXCEPT ![n] = tm] /\ id' = [id EXCEPT ![c] = n]
    BY DEF AddTimer
  <1>2. tm \in Timer /\ tm.timeout # 0 /\ tm.call = c
    BY NewTimerType, BodiesAssumption DEF NewTimer
  <1> HIDE DEF tm
  <1>3. timer' \in [Slots -> Timer]
    BY <1>1, <1>2 DEF TypeOK
  <1>4. \A m \in Slots : timer'[m].timeout # 0 <=> timer'[m].call # None
    BY <1>1, <1>2, NoneAssumption DEF TypeOK, Valid
  <1>5. id' \in [Calls -> Slots] /\ kind' \in [Calls -> Kinds \cup {"none"}]
    BY <1>1 DEF AddTimer, TypeOK
  <1>6. UNCHANGED <<pc, cur, ticks, cleared, old, running, runs, age, value>>
    BY DEF AddTimer, runVars
  <1>7. QED
    BY <1>3, <1>4, <1>5, <1>6 DEF TypeOK, Valid

LEMMA TypeScript == TypeOK /\ Script => TypeOK'
  <1> SUFFICES ASSUME TypeOK, Script PROVE TypeOK'
    OBVIOUS
  <1>1. ASSUME NEW c \in Calls, NEW body \in Bodies, NEW d \in Delays,
               NEW k \in Kinds, SetTimer(c, k, body, d)
        PROVE TypeOK'
    BY <1>1, TypeAddTimer, DelaysAssumption DEF SetTimer
  <1>2. ASSUME NEW c \in Calls, NEW body \in Bodies, NEW d \in Delays,
               BeginAnimation(c, body, d)
        PROVE TypeOK'
    BY <1>2, TypeAddTimer, DelaysAssumption DEF BeginAnimation
  <1>3. ASSUME NEW c \in Calls, ClearInterval(c) PROVE TypeOK'
    <2>1. timer' = [timer EXCEPT ![id[c]] = Empty] /\ cleared' = cleared \cup {c}
      BY <1>3 DEF ClearInterval
    <2>2. timer' \in [Slots -> Timer]
      BY <2>1, EmptyType DEF TypeOK
    <2>3. \A m \in Slots : timer'[m].timeout # 0 <=> timer'[m].call # None
      BY <2>1, EmptyType DEF TypeOK, Valid
    <2>4. QED
      BY <1>3, <2>1, <2>2, <2>3 DEF ClearInterval, TypeOK, Valid, runVars
  <1>4. CASE DestroyAll
    BY <1>4, EmptyType DEF DestroyAll, TypeOK, Valid, runVars
  <1>5. QED
    BY <1>1, <1>2, <1>3, <1>4 DEF Script

LEMMA TypeExecute ==
  ASSUME TypeOK, timer[cur].call # None, Execute(timer[cur])
  PROVE  /\ pc' \in {"inString", "inFunction", "rearm"}
         /\ running' \in Calls \cup {None}
         /\ runs' \in [Calls -> 0 .. 2]
         /\ age' \in [Calls -> 0 .. MinTimeout + 1]
  <1>1. timer[cur].call \in Calls
    BY FieldType DEF TypeOK
  <1>2. runs' \in [Calls -> 0 .. 2] /\ age' \in [Calls -> 0 .. MinTimeout + 1]
    <2>1. PICK k \in 0 .. 2 : runs' = [runs EXCEPT ![timer[cur].call] = k]
      <3>1. runs[timer[cur].call] \in 0 .. 2
        BY <1>1 DEF TypeOK
      <3>2. (IF runs[timer[cur].call] = 2 THEN 2 ELSE runs[timer[cur].call] + 1) \in 0 .. 2
        BY <3>1
      <3>3. QED
        BY <3>2 DEF Execute
    <2>2. 0 \in 0 .. MinTimeout + 1
      BY MinTimeoutAssumption
    <2>3. QED
      BY <1>1, <2>1, <2>2 DEF Execute, TypeOK
  <1>3. QED
    BY <1>1, <1>2 DEF Execute

(* A tick changes no slot in what makes it a timer of its call.            *)
LEMMA TickTimer ==
  ASSUME TypeOK, Tick
  PROVE  /\ timer' \in [Slots -> Timer]
         /\ \A n \in Slots : SameTimer(timer'[n], timer[n]) /\ timer'[n].recurs = timer[n].recurs
  <1>1. \A n \in Slots :
          timer'[n] = [timer[n] EXCEPT !.left = Clip(@ - 1), !.rest = Clip(@ - 1)]
    BY DEF Tick
  <1>2. timer' = [n \in Slots |-> timer'[n]]
    BY DEF Tick
  <1>3. \A n \in Slots : timer[n] \in Timer
    BY DEF TypeOK
  <1>4. \A n \in Slots : /\ timer'[n] \in Timer /\ SameTimer(timer'[n], timer[n])
                         /\ timer'[n].recurs = timer[n].recurs
    BY <1>1, <1>3, TickUpdate
  <1>5. QED
    BY <1>2, <1>4

LEMMA TypeTick == TypeOK /\ Tick => TypeOK'
  <1> SUFFICES ASSUME TypeOK, Tick PROVE TypeOK'
    OBVIOUS
  <1>1. \A n \in Slots : timer'[n].timeout # 0 <=> timer'[n].call # None
    BY TickTimer DEF TypeOK, Valid, SameTimer
  <1>2. age' \in [Calls -> 0 .. MinTimeout + 1]
    <2>1. age' = [c \in Calls |-> age'[c]]
      BY DEF Tick
    <2>2. ASSUME NEW c \in Calls PROVE age'[c] \in 0 .. MinTimeout + 1
      <3>1. age[c] \in 0 .. MinTimeout + 1
        BY DEF TypeOK
      <3>2. age'[c] = IF InTable(c) THEN IF age[c] > MinTimeout THEN age[c] ELSE age[c] + 1
                      ELSE 0
        BY DEF Tick
      <3>3. QED
        BY <3>1, <3>2, MinTimeoutAssumption
    <2>3. QED
      BY <2>1, <2>2
  <1>3. ticks' \in 0 .. LoopTicks
    <2>1. ticks \in 0 .. LoopTicks
      BY DEF TypeOK
    <2>2. ticks < LoopTicks /\ ticks' = ticks + 1
      BY DEF Tick
    <2>3. QED
      BY <2>1, <2>2, LoopTicksAssumption
  <1>4. QED
    BY <1>1, <1>2, <1>3, TickTimer DEF TypeOK, Tick, Valid, scriptVars

(* What the steps of a turn do to the slots.                               *)
LEMMA FireTimer ==
  ASSUME TypeOK, FireAnimation
  PROVE  /\ timer' \in [Slots -> Timer]
         /\ \A n \in Slots : SameTimer(timer'[n], timer[n])
         /\ \A n \in Slots \ {cur} : timer'[n] = timer[n]
  <1>1. PICK r \in BOOLEAN : timer' = [timer EXCEPT ![cur] = [timer[cur] EXCEPT !.recurs = r]]
    <2>1. timer[cur].recurs \in BOOLEAN
      BY FieldType DEF TypeOK
    <2>2. QED
      BY <2>1 DEF FireAnimation
  <1>2. [timer[cur] EXCEPT !.recurs = r] \in Timer /\ SameTimer([timer[cur] EXCEPT !.recurs = r], timer[cur])
    BY RecursUpdate DEF TypeOK
  <1>3. QED
    BY <1>1, <1>2 DEF TypeOK, SameTimer

LEMMA RearmTimer ==
  ASSUME TypeOK, Rearm
  PROVE  /\ timer' \in [Slots -> Timer]
         /\ \A n \in Slots \ {cur} : timer'[n] = timer[n]
         /\ IF timer[cur].recurs
              THEN SameTimer(timer'[cur], timer[cur]) /\ timer'[cur].recurs
              ELSE timer'[cur] = Empty
  <1>1. CASE timer[cur].recurs
    <2>1. Clip(timer[cur].timeout) \in Int
      BY FieldType, ClipType DEF TypeOK
    <2>2. PICK l \in Int : timer' = [timer EXCEPT ![cur] = [timer[cur] EXCEPT !.left = l]]
      BY <1>1, <2>1 DEF Rearm
    <2>3. LET new == [timer[cur] EXCEPT !.left = l]
          IN  new \in Timer /\ SameTimer(new, timer[cur]) /\ new.recurs
      BY <1>1, LeftUpdate DEF TypeOK
    <2>4. QED
      BY <1>1, <2>2, <2>3 DEF TypeOK
  <1>2. CASE ~timer[cur].recurs
    BY <1>2, EmptyType DEF Rearm, TypeOK
  <1>3. QED
    BY <1>1, <1>2

LEMMA TypeTurn == TypeOK /\ TableInv /\ Turn => TypeOK'
  <1> SUFFICES ASSUME TypeOK, TableInv, Turn PROVE TypeOK'
    OBVIOUS
  <1>1. CASE FindTimedOut
    BY <1>1, LoopTicksAssumption DEF FindTimedOut, TypeOK, Valid, scriptVars, runVars
  <1>2. CASE TurnLost
    BY <1>2, LoopTicksAssumption DEF TurnLost, TypeOK, Valid, scriptVars, runVars
  <1>3. CASE Fire
    BY <1>3, TypeExecute DEF Fire, TableInv, SlotInv, TypeOK, Valid, scriptVars
  <1>4. CASE FireAnimation
    <2>1. value' \in [Calls -> {"none", "part", "end"}]
      BY <1>4 DEF FireAnimation, TypeOK
    <2>2. \A n \in Slots : timer'[n].timeout # 0 <=> timer'[n].call # None
      BY <1>4, FireTimer DEF TypeOK, Valid, SameTimer
    <2>3. QED
      BY <1>4, <2>1, <2>2, FireTimer, TypeExecute
      DEF FireAnimation, TableInv, SlotInv, TypeOK, Valid, scriptVars
  <1>5. CASE FireFails
    BY <1>5 DEF FireFails, TypeOK, Valid, scriptVars, runVars
  <1>6. CASE StringReturns
    <2>1. CASE timer[cur].body = "function" /\ Execute(timer[cur])
      BY <1>6, <2>1, TypeExecute DEF StringReturns, TableInv, SlotInv, TypeOK, Valid, scriptVars
    <2>2. CASE timer[cur].body # "function"
      BY <1>6, <2>2 DEF StringReturns, TypeOK, Valid, scriptVars
    <2>3. QED
      BY <1>6, <2>1, <2>2 DEF StringReturns
  <1>7. CASE FunctionReturns
    BY <1>7 DEF FunctionReturns, TypeOK, Valid, scriptVars
  <1>8. CASE Rearm
    <2>1. \A n \in Slots : timer'[n].timeout # 0 <=> timer'[n].call # None
      BY <1>8, RearmTimer, EmptyType DEF TypeOK, Valid, SameTimer
    <2>2. QED
      BY <1>8, <2>1, RearmTimer DEF Rearm, TypeOK, Valid, scriptVars, runVars
  <1>9. QED
    BY <1>1, <1>2, <1>3, <1>4, <1>5, <1>6, <1>7, <1>8 DEF Turn

-----------------------------------------------------------------------------
(* A call has at most one slot, and the slot's flags say what it is for.   *)

LEMMA TableInit == Init => TableInv
  BY DEF Init, TableInv, SlotInv, Empty

LEMMA TableAddTimer ==
  ASSUME TypeOK, TableInv, NEW c \in Calls, NEW k \in Kinds, NEW body, NEW d, NEW e,
         AddTimer(c, k, body, d, e)
  PROVE  TableInv'
  <1> DEFINE tm == NewTimer(c, k, body, d, e)
  <1>1. PICK n \in Slots : timer' = [timer EXCEPT ![n] = tm]
    BY DEF AddTimer
  <1>2. /\ tm.call = c /\ (tm.recurs <=> k # "timeout") /\ (tm.anim <=> k = "animation")
    BY DEF NewTimer
  <1> HIDE DEF tm
  <1>3. timer'[n] = tm /\ \A m \in Slots \ {n} : timer'[m] = timer[m]
    BY <1>1 DEF TypeOK
  <1>4. /\ kind[c] = "none" /\ kind'[c] = k /\ \A b \in Calls \ {c} : kind'[b] = kind[b]
        /\ pc # "found" /\ UNCHANGED <<pc, cur>>
    BY DEF AddTimer, ScriptPCs, TypeOK
  <1>5. \A m \in Slots : timer[m].call # c /\ timer[m].call \in Calls \cup {None}
    BY <1>4, FieldType, NoneAssumption DEF TableInv, SlotInv, TypeOK
  <1>6. \A m \in Slots \ {n} : timer[m].call # None => kind'[timer[m].call] = kind[timer[m].call]
    BY <1>4, <1>5
  <1>7. QED
    BY <1>2, <1>3, <1>4, <1>5, <1>6, NoneAssumption DEF TableInv, SlotInv

LEMMA TableScript == TypeOK /\ TableInv /\ Script => TableInv'
  <1> SUFFICES ASSUME TypeOK, TableInv, Script PROVE TableInv'
    OBVIOUS
  <1>1. ASSUME NEW c \in Calls, NEW body \in Bodies, NEW d \in Delays,
               NEW k \in Kinds, SetTimer(c, k, body, d)
        PROVE TableInv'
    BY <1>1, TableAddTimer DEF SetTimer
  <1>2. ASSUME NEW c \in Calls, NEW body \in Bodies, NEW d \in Delays,
               BeginAnimation(c, body, d)
        PROVE TableInv'
    BY <1>2, TableAddTimer DEF BeginAnimation
  <1>3. ASSUME NEW c \in Calls, ClearInterval(c) PROVE TableInv'
    <2>1. /\ timer' = [timer EXCEPT ![id[c]] = Empty]
          /\ pc # "found" /\ UNCHANGED <<pc, cur, kind>>
      BY <1>3 DEF ClearInterval, ScriptPCs
    <2>2. \A m \in Slots : timer'[m] = timer[m] \/ timer'[m] = Empty
      BY <2>1 DEF TypeOK
    <2>3. QED
      BY <2>1, <2>2 DEF TableInv, SlotInv, Empty
  <1>4. CASE DestroyAll
    BY <1>4 DEF DestroyAll, TableInv, SlotInv, Empty
  <1>5. QED
    BY <1>1, <1>2, <1>3, <1>4 DEF Script

LEMMA TableTick == TypeOK /\ TableInv /\ Tick => TableInv'
  <1> SUFFICES ASSUME TypeOK, TableInv, Tick PROVE TableInv'
    OBVIOUS
  <1>1. \A n \in Slots : SameTimer(timer'[n], timer[n]) /\ timer'[n].recurs = timer[n].recurs
    BY TickTimer
  <1>2. UNCHANGED <<pc, cur, kind>> /\ cur \in Slots
    BY DEF Tick, scriptVars, TypeOK
  <1>3. QED
    BY <1>1, <1>2 DEF TableInv, SlotInv, SameTimer

LEMMA TableTurn == TypeOK /\ TableInv /\ Turn => TableInv'
  <1> SUFFICES ASSUME TypeOK, TableInv, Turn PROVE TableInv'
    OBVIOUS
  <1>1. CASE FindTimedOut
    BY <1>1 DEF FindTimedOut, TableInv, SlotInv, TimedOut, TypeOK, scriptVars
  <1>2. CASE TurnLost
    BY <1>2 DEF TurnLost, TableInv, SlotInv, scriptVars
  <1>3. CASE Fire
    BY <1>3 DEF Fire, Execute, TableInv, SlotInv, scriptVars
  <1>4. CASE FireAnimation
    <2>1. /\ \A n \in Slots : SameTimer(timer'[n], timer[n])
          /\ \A n \in Slots \ {cur} : timer'[n] = timer[n]
          /\ UNCHANGED <<kind, cur>> /\ pc' # "found" /\ cur \in Slots
          /\ timer[cur].anim
      BY <1>4, FireTimer DEF FireAnimation, Execute, scriptVars, TypeOK
    <2>2. timer[cur].call # None /\ kind[timer[cur].call] = "animation"
      BY <2>1 DEF TableInv, SlotInv
    <2>3. QED
      BY <2>1, <2>2 DEF TableInv, SlotInv, SameTimer
  <1>5. CASE FireFails
    BY <1>5 DEF FireFails, TableInv, SlotInv, scriptVars
  <1>6. CASE StringReturns
    BY <1>6 DEF StringReturns, Execute, TableInv, SlotInv, scriptVars
  <1>7. CASE FunctionReturns
    BY <1>7 DEF FunctionReturns, TableInv, SlotInv, scriptVars
  <1>8. CASE Rearm
    <2>1. \A n \in Slots :
            \/ SameTimer(timer'[n], timer[n]) /\ (timer'[n].recurs <=> timer[n].recurs)
            \/ timer'[n] = Empty
      <3>1. \A n \in Slots \ {cur} : SameTimer(timer'[n], timer[n])
                                    /\ (timer'[n].recurs <=> timer[n].recurs)
        BY <1>8, RearmTimer DEF SameTimer
      <3>2. QED
        BY <1>8, <3>1, RearmTimer
    <2>2. UNCHANGED kind /\ pc' = "loop"
      BY <1>8 DEF Rearm, scriptVars
    <2>3. \A n \in Slots : timer'[n].call = timer[n].call \/ timer'[n].call = None
      BY <2>1 DEF SameTimer, Empty
    <2>4. ASSUME NEW n \in Slots PROVE SlotInv(n)'
      <3> SlotInv(n)
        BY DEF TableInv, SlotInv
      <3>1. CASE timer'[n] = Empty
        BY <3>1 DEF SlotInv, Empty
      <3>2. CASE SameTimer(timer'[n], timer[n]) /\ (timer'[n].recurs <=> timer[n].recurs)
        BY <3>2, <2>2, Zenon DEF SlotInv, SameTimer
      <3>3. QED
        BY <2>1, <3>1, <3>2
    <2>5. QED
      BY <2>2, <2>3, <2>4 DEF TableInv, SlotInv
  <1>9. QED
    BY <1>1, <1>2, <1>3, <1>4, <1>5, <1>6, <1>7, <1>8 DEF Turn

LEMMA TableNext == TypeOK /\ TableInv /\ [Next]_vars => (TypeOK /\ TableInv)'
  <1>1. TypeOK /\ TableInv /\ UNCHANGED vars => (TypeOK /\ TableInv)'
    BY DEF TypeOK, Valid, TableInv, SlotInv, vars, scriptVars, runVars
  <1>2. QED
    BY <1>1, TypeScript, TypeTick, TypeTurn, TableScript, TableTick, TableTurn DEF Next

(* In every environment and for every delay, negative ones included, the   *)
(* table stays a table of timers, and a slot is valid if and only if it    *)
(* stands for a call.                                                      *)
THEOREM TypeCorrect == Spec => []TypeOK
  BY TypeInit, TableInit, TableNext, PTL DEF Spec
-----------------------------------------------------------------------------
(* One-shot timers fire once.                                              *)

LEMMA NotFired ==
  ASSUME TypeOK, NEW n \in Slots, timer[n].call # None, ~(runs[timer[n].call] > 0)
  PROVE  runs[timer[n].call] = 0
  <1>1. timer[n] \in Timer
    BY DEF TypeOK
  <1>2. timer[n].call \in Calls
    BY <1>1, FieldType
  <1>3. runs[timer[n].call] \in 0 .. 2
    BY <1>2 DEF TypeOK
  <1>4. QED
    BY <1>3

LEMMA OnceInit == TypeOK /\ Init => OnceInv
  BY DEF Init, OnceInv, RunsOnce, Empty

LEMMA OnceAddTimer ==
  ASSUME TypeOK, TableInv, OnceInv, NEW c \in Calls, NEW k \in Kinds, NEW body, NEW d,
         NEW e, AddTimer(c, k, body, d, e)
  PROVE  OnceInv'
  <1> DEFINE tm == NewTimer(c, k, body, d, e)
  <1>1. PICK n \in Slots : timer' = [timer EXCEPT ![n] = tm]
    BY DEF AddTimer
  <1>2. tm.call = c
    BY DEF NewTimer
  <1> HIDE DEF tm
  <1>3. timer'[n] = tm /\ \A m \in Slots \ {n} : timer'[m] = timer[m]
    BY <1>1 DEF TypeOK
  <1>4. /\ kind[c] = "none" /\ kind'[c] = k /\ \A b \in Calls \ {c} : kind'[b] = kind[b]
        /\ UNCHANGED <<pc, cur, runs>>
    BY DEF AddTimer, runVars, TypeOK
  <1>5. \A m \in Slots : timer[m].call # c /\ timer[m].call \in Calls \cup {None}
    BY <1>4, FieldType, NoneAssumption, ZenonT(60) DEF TableInv, SlotInv, TypeOK
  <1>6. runs[c] = 0 /\ cur \in Slots
    BY <1>4 DEF OnceInv, TypeOK
  <1>7. RunsOnce' /\ \A b \in Calls : kind'[b] = "none" => runs'[b] = 0
    BY <1>4, <1>6 DEF OnceInv, RunsOnce
  <1>8. ASSUME NEW m \in Slots, timer'[m].call # None, kind'[timer'[m].call] = "timeout",
               runs'[timer'[m].call] > 0
        PROVE  m = cur' /\ pc' \in FiringPCs
    <2>1. m # n
      BY <1>2, <1>3, <1>4, <1>6, <1>8
    <2>2. QED
      BY <1>3, <1>4, <1>5, <1>8, <2>1 DEF OnceInv
  <1>9. pc' = "inString" /\ timer'[cur'].body = "function" => runs'[timer'[cur'].call] = 0
    BY <1>2, <1>3, <1>4, <1>6 DEF OnceInv
  <1>10. QED
    BY <1>7, <1>8, <1>9 DEF OnceInv

LEMMA OnceScript == TypeOK /\ TableInv /\ OnceInv /\ Script => OnceInv'
  <1> SUFFICES ASSUME TypeOK, TableInv, OnceInv, Script PROVE OnceInv'
    OBVIOUS
  <1>1. ASSUME NEW c \in Calls, NEW body \in Bodies, NEW d \in Delays,
               NEW k \in Kinds, SetTimer(c, k, body, d)
        PROVE OnceInv'
    BY <1>1, OnceAddTimer DEF SetTimer
  <1>2. ASSUME NEW c \in Calls, NEW body \in Bodies, NEW d \in Delays,
               BeginAnimation(c, body, d)
        PROVE OnceInv'
    BY <1>2, OnceAddTimer DEF BeginAnimation
  <1>3. ASSUME NEW c \in Calls, ClearInterval(c) PROVE OnceInv'
    <2>1. /\ timer' = [timer EXCEPT ![id[c]] = Empty]
          /\ UNCHANGED <<pc, cur, kind, runs>> /\ cur \in Slots
      BY <1>3 DEF ClearInterval, runVars, TypeOK
    <2>2. \A m \in Slots : timer'[m] = timer[m] \/ timer'[m] = Empty
      BY <2>1 DEF TypeOK
    <2>3. QED
      BY <2>1, <2>2 DEF OnceInv, RunsOnce, Empty
  <1>4. CASE DestroyAll
    <2>1. /\ \A m \in Slots : timer'[m] = Empty
          /\ UNCHANGED <<pc, cur, kind, runs>> /\ cur \in Slots
      BY <1>4 DEF DestroyAll, runVars, TypeOK
    <2>2. QED
      BY <2>1 DEF OnceInv, RunsOnce, Empty
  <1>5. QED
    BY <1>1, <1>2, <1>3, <1>4 DEF Script

LEMMA OnceTick == TypeOK /\ TableInv /\ OnceInv /\ Tick => OnceInv'
  <1> SUFFICES ASSUME TypeOK, TableInv, OnceInv, Tick PROVE OnceInv'
    OBVIOUS
  <1>1. \A n \in Slots : SameTimer(timer'[n], timer[n])
    BY TickTimer
  <1>2. UNCHANGED <<pc, cur, kind, runs>> /\ cur \in Slots
    BY DEF Tick, scriptVars, TypeOK
  <1>3. QED
    BY <1>1, <1>2 DEF OnceInv, RunsOnce, SameTimer

(* Executing a timer whose call has not been fired, or is no timeout.      *)
LEMMA OnceExecute ==
  ASSUME TypeOK, TableInv, OnceInv, Execute(timer[cur]), UNCHANGED <<cur, kind>>,
         \A n \in Slots : SameTimer(timer'[n], timer[n]),
         timer[cur].call # None,
         kind[timer[cur].call] = "timeout" => runs[timer[cur].call] = 0,
         \A n \in Slots \ {cur} : LET c == timer[n].call IN
           c # None /\ kind[c] = "timeout" => runs[c] = 0,
         pc' = "inString" => timer[cur].body = "string"
  PROVE  OnceInv'
  <1> DEFINE c == timer[cur].call
  <1>1. c \in Calls /\ cur \in Slots /\ \A n \in Slots : timer[n].call \in Calls \cup {None}
    BY FieldType DEF TypeOK
  <1>2. pc' \in FiringPCs
    BY DEF Execute, FiringPCs
  <1>3. runs'[c] = (IF runs[c] = 2 THEN 2 ELSE runs[c] + 1)
        /\ \A b \in Calls \ {c} : runs'[b] = runs[b]
    BY <1>1 DEF Execute, TypeOK
  <1>4. kind[c] # "none"
    BY <1>1 DEF TableInv, SlotInv
  <1>5. RunsOnce' /\ \A b \in Calls : kind'[b] = "none" => runs'[b] = 0
    BY <1>1, <1>3, <1>4 DEF OnceInv, RunsOnce
  <1>6. ASSUME NEW m \in Slots, timer'[m].call # None, kind'[timer'[m].call] = "timeout",
               runs'[timer'[m].call] > 0
        PROVE  m = cur' /\ pc' \in FiringPCs
    <2>1. timer'[m].call = timer[m].call
      BY DEF SameTimer
    <2>2. CASE m = cur
      BY <1>2, <2>2
    <2>3. CASE m # cur
      <3>1. timer[m].call # c
        BY <1>1, <2>3 DEF TableInv
      <3>2. runs'[timer[m].call] = runs[timer[m].call] /\ runs[timer[m].call] = 0
        BY <1>1, <1>3, <1>6, <2>1, <2>3, <3>1
      <3>3. QED
        BY <1>6, <2>1, <3>2
    <2>4. QED
      BY <2>2, <2>3
  <1>7. ~(pc' = "inString" /\ timer'[cur'].body = "function")
    BY <1>1 DEF SameTimer
  <1>8. QED
    BY <1>5, <1>6, <1>7 DEF OnceInv

LEMMA OnceTurn == TypeOK /\ TableInv /\ OnceInv /\ Turn => OnceInv'
  <1> SUFFICES ASSUME TypeOK, TableInv, OnceInv, Turn PROVE OnceInv'
    OBVIOUS
  <1>1. CASE FindTimedOut
    <2>1. /\ UNCHANGED <<timer, kind, runs>>
          /\ pc \notin FiringPCs /\ pc' # "inString"
      BY <1>1 DEF FindTimedOut, scriptVars, runVars, FiringPCs
    <2>2. QED
      BY <2>1 DEF OnceInv, RunsOnce
  <1>2. CASE TurnLost
    BY <1>2 DEF TurnLost, OnceInv, RunsOnce, scriptVars, runVars
  <1>3. CASE Fire
    <2>1. /\ Execute(timer[cur]) /\ UNCHANGED <<timer, cur, kind>>
          /\ pc = "found" /\ pc \notin FiringPCs
      BY <1>3 DEF Fire, scriptVars, FiringPCs
    <2>2. pc' = "inString" => timer[cur].body = "string"
      BY <2>1 DEF Execute
    <2>3. \A n \in Slots : timer[n].call # None /\ kind[timer[n].call] = "timeout"
                            => ~(runs[timer[n].call] > 0)
      BY <2>1 DEF OnceInv
    <2>4. \A n \in Slots : timer[n].call # None /\ kind[timer[n].call] = "timeout"
                            => runs[timer[n].call] = 0
      BY <2>3, NotFired
    <2>5. timer[cur].call # None /\ cur \in Slots
      BY <2>1 DEF TableInv, TypeOK
    <2>6. QED
      BY <2>1, <2>2, <2>4, <2>5, OnceExecute DEF SameTimer
  <1>4. CASE FireAnimation
    <2>1. /\ Execute(timer[cur]) /\ UNCHANGED <<cur, kind>>
          /\ pc = "found" /\ pc \notin FiringPCs
      BY <1>4 DEF FireAnimation, scriptVars, FiringPCs
    <2>2. pc' = "inString" => timer[cur].body = "string"
      BY <2>1 DEF Execute
    <2>3. \A n \in Slots : timer[n].call # None /\ kind[timer[n].call] = "timeout"
                            => ~(runs[timer[n].call] > 0)
      BY <2>1 DEF OnceInv
    <2>4. \A n \in Slots : timer[n].call # None /\ kind[timer[n].call] = "timeout"
                            => runs[timer[n].call] = 0
      BY <2>3, NotFired
    <2>5. timer[cur].call # None /\ cur \in Slots
      BY <2>1 DEF TableInv, TypeOK
    <2>6. QED
      BY <1>4, <2>1, <2>2, <2>4, <2>5, FireTimer, OnceExecute
  <1>5. CASE FireFails
    BY <1>5 DEF FireFails, OnceInv, RunsOnce, scriptVars, runVars, FiringPCs
  <1>6. CASE StringReturns
    <2>1. /\ pc = "inString" /\ UNCHANGED <<timer, cur, kind>> /\ cur \in Slots
      BY <1>6 DEF StringReturns, scriptVars, TypeOK
    <2>2. \A n \in Slots \ {cur} : timer[n].call # None /\ kind[timer[n].call] = "timeout"
                                     => ~(runs[timer[n].call] > 0)
      BY DEF OnceInv
    <2>3. \A n \in Slots \ {cur} : timer[n].call # None /\ kind[timer[n].call] = "timeout"
                                     => runs[timer[n].call] = 0
      BY <2>2, NotFired
    <2>4. CASE timer[cur].body = "function" /\ Execute(timer[cur])
      <3>1. timer[cur].call # None /\ pc' # "inString" /\ runs[timer[cur].call] = 0
        BY <2>1, <2>4 DEF TableInv, SlotInv, Execute, OnceInv
      <3>2. QED
        BY <2>1, <2>3, <2>4, <3>1, OnceExecute DEF SameTimer
    <2>5. CASE pc' = "rearm" /\ UNCHANGED runs
      BY <2>1, <2>5 DEF OnceInv, RunsOnce, FiringPCs
    <2>6. QED
      BY <1>6, <2>4, <2>5 DEF StringReturns
  <1>7. CASE FunctionReturns
    BY <1>7 DEF FunctionReturns, OnceInv, RunsOnce, scriptVars, FiringPCs
  <1>8. CASE Rearm
    <2>1. UNCHANGED <<cur, kind, runs>> /\ pc' = "loop" /\ cur \in Slots
      BY <1>8 DEF Rearm, scriptVars, runVars, TypeOK
    <2>2. ASSUME NEW m \in Slots, timer'[m].call # None, kind[timer'[m].call] = "timeout",
                 runs[timer'[m].call] > 0
          PROVE  FALSE
      <3>1. CASE m # cur
        BY <1>8, <2>2, <3>1, RearmTimer DEF OnceInv
      <3>2. CASE m = cur /\ timer[cur].recurs
        <4>1. timer'[cur].call = timer[cur].call
          BY <1>8, <3>2, RearmTimer DEF SameTimer
        <4>2. SlotInv(cur)
          BY <2>1 DEF TableInv
        <4>3. QED
          BY <2>2, <3>2, <4>1, <4>2 DEF SlotInv
      <3>3. CASE m = cur /\ ~timer[cur].recurs
        BY <1>8, <2>2, <3>3, RearmTimer, EmptyType
      <3>4. QED
        BY <3>1, <3>2, <3>3
    <2>3. QED
      BY <2>1, <2>2 DEF OnceInv, RunsOnce
  <1>9. QED
    BY <1>1, <1>2, <1>3, <1>4, <1>5, <1>6, <1>7, <1>8 DEF Turn

LEMMA OnceNext ==
  TypeOK /\ TableInv /\ OnceInv /\ [Next]_vars => OnceInv'
  <1>1. OnceInv /\ UNCHANGED vars => OnceInv'
    BY DEF OnceInv, RunsOnce, FiringPCs, vars, scriptVars, runVars
  <1>2. QED
    BY <1>1, OnceScript, OnceTick, OnceTurn DEF Next

(* Whatever scripts do, the callback of setTimeout() is called at most     *)
(* once: a fired timeout is in the table only until its own turn ends, and *)
(* what has been put in the slot of a string timer is not fired yet.       *)
THEOREM RunsOnceAlways == Spec => []RunsOnce
  <1>1. Init => TypeOK /\ TableInv /\ OnceInv
    BY TypeInit, TableInit, OnceInit
  <1>2. TypeOK /\ TableInv /\ OnceInv /\ [Next]_vars => (TypeOK /\ TableInv /\ OnceInv)'
    BY TableNext, OnceNext
  <1>3. OnceInv => RunsOnce
    BY DEF OnceInv
  <1>4. QED
    BY <1>1, <1>2, <1>3, PTL DEF Spec
-----------------------------------------------------------------------------
(* No timer is lost.  The slot of the running timer is its own or empty,   *)
(* so what the loop destroys there is what it has fired.                   *)

KeptInv == FiringInv /\ EndInv /\ Kept

OwnSlots == "replace" \notin Env /\ "staleId" \notin Env

LEMMA KeptInit == TypeOK /\ Init => KeptInv
  BY DEF Init, TypeOK, KeptInv, Kept, FiringInv, EndInv, NotLost, AnimationEnds,
         Standing, FiringPCs, Empty

(* A step that only fires, or lets time pass.                              *)
LEMMA KeptSame ==
  ASSUME TypeOK, Kept, UNCHANGED scriptVars,
         \A n \in Slots : timer'[n].call = timer[n].call,
         \A c \in Calls : runs[c] > 0 => runs'[c] > 0,
         \A c \in Calls : ~InTable(c) => value'[c] = value[c]
  PROVE  Kept'
  <1>1. \A c \in Calls : InTable(c)' <=> InTable(c)
    BY DEF InTable
  <1>2. Standing' = Standing /\ UNCHANGED kind
    BY DEF Standing, scriptVars
  <1>3. NotLost'
    BY <1>1, <1>2 DEF Kept, NotLost, Standing
  <1>4. AnimationEnds'
    BY <1>1, <1>2 DEF Kept, AnimationEnds, Standing
  <1>5. QED
    BY <1>3, <1>4 DEF Kept

LEMMA KeptAddTimer ==
  ASSUME OwnSlots, TypeOK, TableInv, OnceInv, KeptInv, NEW c \in Calls, NEW k \in Kinds,
         NEW body, NEW d, NEW e, AddTimer(c, k, body, d, e)
  PROVE  KeptInv'
  <1> DEFINE tm == NewTimer(c, k, body, d, e)
  <1>1. PICK n \in Slots : FirstEmpty(n) /\ timer' = [timer EXCEPT ![n] = tm]
    BY DEF AddTimer
  <1>2. tm.call = c /\ (k = "animation" => tm.recurs)
    BY DEF NewTimer
  <1> HIDE DEF tm
  <1>3. timer'[n] = tm /\ \A m \in Slots \ {n} : timer'[m] = timer[m]
    BY <1>1 DEF TypeOK
  <1>4. timer[n].call = None
    BY <1>1 DEF FirstEmpty, TypeOK
  <1>5. /\ kind[c] = "none" /\ kind'[c] = k /\ \A b \in Calls \ {c} : kind'[b] = kind[b]
        /\ UNCHANGED <<pc, cur, cleared, old, running, runs, value>>
        /\ pc \in ScriptPCs /\ running \notin cleared
    BY DEF AddTimer, runVars, TypeOK, OwnSlots
  <1>6. \A m \in Slots : timer[m].call # c /\ timer[m].call \in Calls \cup {None}
    BY <1>5, FieldType, NoneAssumption, ZenonT(60) DEF TableInv, SlotInv, TypeOK
  <1>7. pc \in FiringPCs => cur # n
    BY <1>4, <1>5 DEF KeptInv, FiringInv, FiringPCs, ScriptPCs
  <1>8. FiringInv'
    BY <1>3, <1>5, <1>7 DEF KeptInv, FiringInv, FiringPCs, TypeOK
  <1>9. EndInv'
    BY <1>2, <1>3, <1>5, <1>6 DEF KeptInv, EndInv
  <1>10. InTable(c)' /\ \A b \in Calls : InTable(b) => InTable(b)'
    BY <1>2, <1>3, <1>4, NoneAssumption DEF InTable
  <1>11. \A b \in Standing' : b = c \/ b \in Standing
    BY <1>5 DEF Standing
  <1>12. NotLost'
    BY <1>5, <1>10, <1>11 DEF KeptInv, Kept, NotLost, Standing
  <1>13. AnimationEnds'
    BY <1>5, <1>10, <1>11 DEF KeptInv, Kept, AnimationEnds, Standing
  <1>14. QED
    BY <1>8, <1>9, <1>12, <1>13 DEF KeptInv, Kept

LEMMA KeptClear ==
  ASSUME OwnSlots, TypeOK, TableInv, KeptInv, NEW c \in Calls, ClearInterval(c)
  PROVE  KeptInv'
  <1>1. /\ timer' = [timer EXCEPT ![id[c]] = Empty] /\ timer[id[c]].call = c
        /\ UNCHANGED <<pc, cur, kind, old, running, runs, value>>
        /\ cleared' = cleared \cup {c} /\ id[c] \in Slots
    BY DEF ClearInterval, runVars, OwnSlots, TypeOK
  <1>2. timer'[id[c]] = Empty /\ \A m \in Slots \ {id[c]} : timer'[m] = timer[m]
    BY <1>1 DEF TypeOK
  <1>3. FiringInv'
    <2>1. CASE cur = id[c]
      BY <1>1, <1>2, <2>1, EmptyType, NoneAssumption DEF KeptInv, FiringInv
    <2>2. CASE cur # id[c]
      BY <1>1, <1>2, <2>2 DEF KeptInv, FiringInv, TypeOK
    <2>3. QED
      BY <2>1, <2>2
  <1>4. EndInv'
    BY <1>1, <1>2, EmptyType DEF KeptInv, EndInv
  <1>5. \A b \in Calls \ {c} : InTable(b) => InTable(b)'
    BY <1>1, <1>2 DEF InTable
  <1>6. Standing' = Standing \ {c}
    BY <1>1 DEF Standing
  <1>7. NotLost'
    BY <1>1, <1>5, <1>6 DEF KeptInv, Kept, NotLost, Standing
  <1>8. AnimationEnds'
    BY <1>1, <1>5, <1>6 DEF KeptInv, Kept, AnimationEnds, Standing
  <1>9. QED
    BY <1>3, <1>4, <1>7, <1>8 DEF KeptInv, Kept

LEMMA KeptScript ==
  OwnSlots /\ TypeOK /\ TableInv /\ OnceInv /\ KeptInv /\ Script => KeptInv'
  <1> SUFFICES ASSUME OwnSlots, TypeOK, TableInv, OnceInv, KeptInv, Script PROVE KeptInv'
    OBVIOUS
  <1>1. ASSUME NEW c \in Calls, NEW body \in Bodies, NEW d \in Delays,
               NEW k \in Kinds, SetTimer(c, k, body, d)
        PROVE KeptInv'
    BY <1>1, KeptAddTimer DEF SetTimer
  <1>2. ASSUME NEW c \in Calls, NEW body \in Bodies, NEW d \in Delays,
               BeginAnimation(c, body, d)
        PROVE KeptInv'
    BY <1>2, KeptAddTimer DEF BeginAnimation
  <1>3. ASSUME NEW c \in Calls, ClearInterval(c) PROVE KeptInv'
    BY <1>3, KeptClear
  <1>4. CASE DestroyAll
    <2>1. /\ \A m \in Slots : timer'[m] = Empty
          /\ UNCHANGED <<pc, kind>> /\ pc = "loop"
          /\ old' = {c \in Calls : kind[c] # "none"}
      BY <1>4 DEF DestroyAll
    <2>2. Standing' = {}
      BY <2>1 DEF Standing
    <2>3. QED
      BY <2>1, <2>2, EmptyType
      DEF KeptInv, Kept, NotLost, AnimationEnds, FiringInv, FiringPCs, EndInv
  <1>5. QED
    BY <1>1, <1>2, <1>3, <1>4 DEF Script

LEMMA KeptTick == TypeOK /\ KeptInv /\ Tick => KeptInv'
  <1> SUFFICES ASSUME TypeOK, KeptInv, Tick PROVE KeptInv'
    OBVIOUS
  <1>1. \A n \in Slots : timer'[n].call = timer[n].call /\ timer'[n].recurs = timer[n].recurs
    BY TickTimer DEF SameTimer
  <1>2. UNCHANGED <<pc, cur, running, runs, value, scriptVars>> /\ cur \in Slots
    BY DEF Tick, TypeOK
  <1>3. Kept'
    BY <1>1, <1>2, KeptSame DEF KeptInv
  <1>4. FiringInv' /\ EndInv'
    BY <1>1, <1>2 DEF KeptInv, FiringInv, EndInv, scriptVars
  <1>5. QED
    BY <1>3, <1>4 DEF KeptInv
(* What executing a timer does to the histories.                           *)
LEMMA ExecuteRuns ==
  ASSUME TypeOK, timer[cur].call # None, Execute(timer[cur])
  PROVE  /\ runs'[timer[cur].call] > 0
         /\ \A c \in Calls : runs[c] > 0 => runs'[c] > 0
         /\ pc' \in FiringPCs
         /\ pc' \in {"inString", "inFunction"} => running' = timer[cur].call
  <1>1. timer[cur].call \in Calls
    BY FieldType DEF TypeOK
  <1>2. \A c \in Calls : runs'[c] = IF c = timer[cur].call THEN IF runs[c] = 2 THEN 2 ELSE runs[c] + 1
                                    ELSE runs[c]
    BY DEF Execute, TypeOK
  <1>3. \A c \in Calls : runs[c] \in 0 .. 2
    BY DEF TypeOK
  <1>4. QED
    BY <1>1, <1>2, <1>3 DEF Execute, FiringPCs

LEMMA KeptTurn == TypeOK /\ TableInv /\ KeptInv /\ Turn => KeptInv'
  <1> SUFFICES ASSUME TypeOK, TableInv, KeptInv, Turn PROVE KeptInv'
    OBVIOUS
  <1> cur \in Slots
    BY DEF TypeOK
  <1>1. CASE FindTimedOut
    <2>1. /\ UNCHANGED <<timer, scriptVars, runs, value>>
          /\ pc \notin FiringPCs /\ pc' \notin FiringPCs
      BY <1>1 DEF FindTimedOut, runVars, FiringPCs
    <2>2. Kept'
      BY <2>1, KeptSame DEF KeptInv
    <2>3. QED
      BY <2>1, <2>2 DEF KeptInv, FiringInv, EndInv, FiringPCs, scriptVars
  <1>2. CASE TurnLost
    <2>1. Kept'
      BY <1>2, KeptSame DEF TurnLost, KeptInv, runVars
    <2>2. QED
      BY <1>2, <2>1 DEF TurnLost, KeptInv, FiringInv, EndInv, runVars, scriptVars
  <1>3. CASE Fire
    <2>1. /\ Execute(timer[cur]) /\ UNCHANGED <<timer, cur, scriptVars, value>>
          /\ pc \notin FiringPCs /\ timer[cur].call # None
      BY <1>3 DEF Fire, TableInv, FiringPCs
    <2>2. Kept'
      BY <2>1, ExecuteRuns, KeptSame DEF KeptInv
    <2>3. FiringInv' /\ EndInv'
      BY <2>1, ExecuteRuns DEF KeptInv, FiringInv, EndInv, scriptVars
    <2>4. QED
      BY <2>2, <2>3 DEF KeptInv
  <1>4. CASE FireAnimation
    <2>1. /\ Execute(timer[cur]) /\ UNCHANGED <<cur, scriptVars>>
          /\ pc \notin FiringPCs /\ timer[cur].call # None
      BY <1>4 DEF FireAnimation, TableInv, FiringPCs
    <2>2. timer[cur].call \in Calls /\ timer[cur].recurs \in BOOLEAN
      BY <2>1, FieldType DEF TypeOK
    <2>3. \A c \in Calls \ {timer[cur].call} : value'[c] = value[c]
      BY <1>4 DEF FireAnimation, TypeOK
    <2>4. \A n \in Slots : timer'[n].call = timer[n].call
      BY <1>4, FireTimer DEF SameTimer
    <2>5. Kept'
      BY <2>1, <2>3, <2>4, ExecuteRuns, KeptSame DEF KeptInv, InTable
    <2>6. FiringInv'
      BY <2>1, <2>4, ExecuteRuns DEF KeptInv, FiringInv
    <2>7. ASSUME NEW n \in Slots, timer[n].call # None, kind[timer[n].call] = "animation",
                 ~timer'[n].recurs
          PROVE  n = cur /\ value'[timer[n].call] = "end"
      <3>1. timer[n].recurs
        BY <2>1, <2>7 DEF KeptInv, EndInv
      <3>2. n = cur
        BY <1>4, <2>7, <3>1, FireTimer
      <3>3. timer' = [timer EXCEPT ![cur].recurs = IF timer[cur].rest < 0 THEN ~@ ELSE @]
            /\ value' = [value EXCEPT ![timer[cur].call] =
                           IF timer[cur].rest < 0 THEN "end" ELSE "part"]
        BY <1>4 DEF FireAnimation
      <3>4. timer[cur].rest < 0
        <4>1. CASE ~(timer[cur].rest < 0)
          <5>1. timer'[cur].recurs = timer[cur].recurs
            BY <3>3, <4>1 DEF TypeOK, Timer
          <5>2. QED
            BY <2>7, <3>1, <3>2, <5>1
        <4>2. QED
          BY <4>1
      <3>5. value'[timer[cur].call] = "end"
        BY <2>2, <3>3, <3>4 DEF TypeOK
      <3>6. QED
        BY <3>2, <3>5
    <2>8. EndInv'
      BY <2>1, <2>4, <2>7, ExecuteRuns DEF EndInv, scriptVars
    <2>9. QED
      BY <2>5, <2>6, <2>8 DEF KeptInv
  <1>5. CASE FireFails
    <2>1. /\ UNCHANGED <<timer, scriptVars, runs, value>>
          /\ pc \notin FiringPCs /\ pc' \notin FiringPCs
      BY <1>5 DEF FireFails, runVars, FiringPCs
    <2>2. Kept'
      BY <2>1, KeptSame DEF KeptInv
    <2>3. QED
      BY <2>1, <2>2 DEF KeptInv, FiringInv, EndInv, FiringPCs, scriptVars
  <1>6. CASE StringReturns
    <2>1. /\ UNCHANGED <<timer, cur, scriptVars, value>> /\ pc \in FiringPCs
      BY <1>6 DEF StringReturns, FiringPCs
    <2>2. CASE timer[cur].body = "function" /\ Execute(timer[cur])
      <3>1. timer[cur].call # None
        BY <2>2 DEF TableInv, SlotInv
      <3>2. Kept'
        BY <2>1, <2>2, <3>1, ExecuteRuns, KeptSame DEF KeptInv
      <3>3. FiringInv' /\ EndInv'
        BY <2>1, <2>2, <3>1, ExecuteRuns DEF KeptInv, FiringInv, EndInv, scriptVars
      <3>4. QED
        BY <3>2, <3>3 DEF KeptInv
    <2>3. CASE pc' = "rearm" /\ UNCHANGED runs
      <3>1. Kept'
        BY <2>1, <2>3, KeptSame DEF KeptInv
      <3>2. QED
        BY <2>1, <2>3, <3>1 DEF KeptInv, FiringInv, EndInv, FiringPCs, scriptVars
    <2>4. QED
      BY <1>6, <2>2, <2>3 DEF StringReturns
  <1>7. CASE FunctionReturns
    <2>1. /\ UNCHANGED <<timer, cur, scriptVars, runs, value>> /\ pc \in FiringPCs
          /\ pc' = "rearm"
      BY <1>7 DEF FunctionReturns, FiringPCs
    <2>2. Kept'
      BY <2>1, KeptSame DEF KeptInv
    <2>3. QED
      BY <2>1, <2>2 DEF KeptInv, FiringInv, EndInv, FiringPCs, scriptVars
  <1>8. CASE Rearm
    <2>1. /\ UNCHANGED <<cur, scriptVars, runs, value>> /\ pc \in FiringPCs
          /\ pc' = "loop" /\ pc' \notin FiringPCs
      BY <1>8 DEF Rearm, runVars, FiringPCs
    <2>2. CASE timer[cur].recurs
      <3>1. \A n \in Slots : /\ timer'[n].call = timer[n].call
                             /\ n # cur => timer'[n] = timer[n]
        BY <1>8, <2>2, RearmTimer DEF SameTimer
      <3>2. timer'[cur].recurs
        BY <1>8, <2>2, RearmTimer
      <3>3. Kept'
        BY <2>1, <3>1, KeptSame DEF KeptInv
      <3>4. QED
        BY <2>1, <3>1, <3>2, <3>3 DEF KeptInv, FiringInv, EndInv, FiringPCs, scriptVars
    <2>3. CASE ~timer[cur].recurs
      <3>1. timer'[cur] = Empty /\ \A n \in Slots \ {cur} : timer'[n] = timer[n]
        BY <1>8, <2>3, RearmTimer
      <3>2. FiringInv' /\ EndInv'
        BY <2>1, <3>1, EmptyType DEF KeptInv, FiringInv, EndInv, FiringPCs, scriptVars
      <3>3. Standing' = Standing /\ UNCHANGED kind
        BY <2>1 DEF Standing, scriptVars
      <3>4. \A c \in Calls : InTable(c) => InTable(c)' \/ c = timer[cur].call
        BY <3>1 DEF InTable
      <3>5. ASSUME timer[cur].call \in Calls
            PROVE  /\ kind[timer[cur].call] # "interval" /\ runs[timer[cur].call] > 0
                   /\ kind[timer[cur].call] = "animation" => value[timer[cur].call] = "end"
        BY <2>1, <2>3, <3>5, NoneAssumption
        DEF TableInv, SlotInv, KeptInv, FiringInv, EndInv
      <3>6. NotLost'
        BY <2>1, <3>3, <3>4, <3>5 DEF KeptInv, Kept, NotLost, Standing
      <3>7. AnimationEnds'
        BY <2>1, <3>3, <3>4, <3>5 DEF KeptInv, Kept, AnimationEnds, Standing
      <3>8. QED
        BY <3>2, <3>6, <3>7 DEF KeptInv, Kept
    <2>4. QED
      BY <2>2, <2>3
  <1>9. QED
    BY <1>1, <1>2, <1>3, <1>4, <1>5, <1>6, <1>7, <1>8 DEF Turn

LEMMA KeptNext ==
  OwnSlots /\ TypeOK /\ TableInv /\ OnceInv /\ KeptInv /\ [Next]_vars => KeptInv'
  <1>1. KeptInv /\ UNCHANGED vars => KeptInv'
    BY DEF KeptInv, Kept, FiringInv, EndInv, NotLost, AnimationEnds, Standing, InTable,
           FiringPCs, vars, scriptVars, runVars
  <1>2. QED
    BY <1>1, KeptScript, KeptTick, KeptTurn DEF Next

(* When callbacks do not replace their own timer and scripts clear no      *)
(* stale identifiers, a timer leaves the table only after its callback,    *)
(* and an interval never does; an animation leaves it with its end value.  *)
THEOREM NothingLost ==
  ASSUME "replace" \notin Env, "staleId" \notin Env
  PROVE  Spec => []Kept
  <1>1. OwnSlots
    BY DEF OwnSlots
  <1> DEFINE Inv == TypeOK /\ TableInv /\ OnceInv /\ KeptInv
  <1>2. Init => Inv
    BY TypeInit, TableInit, OnceInit, KeptInit
  <1>3. Inv /\ [Next]_vars => Inv'
    BY <1>1, TableNext, OnceNext, KeptNext
  <1>4. Inv => Kept
    BY DEF KeptInv
  <1>5. QED
    BY <1>2, <1>3, <1>4, PTL DEF Spec
-----------------------------------------------------------------------------
(* A timer that has been taken back is silent: its call has no slot.       *)

LEMMA StandingInit == TypeOK /\ Init => StandingInv
  BY DEF Init, StandingInv, Empty

LEMMA StandingAddTimer ==
  ASSUME TypeOK, TableInv, StandingInv, cleared \cup old \subseteq {b \in Calls : kind[b] # "none"},
         NEW c \in Calls, NEW k \in Kinds, NEW body, NEW d, NEW e,
         AddTimer(c, k, body, d, e)
  PROVE  StandingInv'
  <1> DEFINE tm == NewTimer(c, k, body, d, e)
  <1>1. PICK n \in Slots : timer' = [timer EXCEPT ![n] = tm] /\ id' = [id EXCEPT ![c] = n]
    BY DEF AddTimer
  <1>2. tm.call = c
    BY DEF NewTimer
  <1> HIDE DEF tm
  <1>3. /\ timer'[n] = tm /\ \A m \in Slots \ {n} : timer'[m] = timer[m]
        /\ id'[c] = n /\ \A b \in Calls \ {c} : id'[b] = id[b]
    BY <1>1 DEF TypeOK
  <1>4. /\ kind[c] = "none" /\ kind'[c] # "none"
        /\ \A b \in Calls \ {c} : kind'[b] = kind[b]
        /\ UNCHANGED <<cleared, old>>
    BY DEF AddTimer, TypeOK
  <1>5. \A m \in Slots : timer[m].call # c /\ timer[m].call \in Calls \cup {None}
    BY <1>4, FieldType, NoneAssumption DEF TableInv, SlotInv, TypeOK
  <1>6. c \in Standing' /\ \A b \in Standing : b \in Standing'
    BY <1>4 DEF Standing
  <1>7. QED
    BY <1>2, <1>3, <1>5, <1>6 DEF StandingInv

(* Only calls that have been made are taken back.                          *)
TakenInv == cleared \cup old \subseteq {c \in Calls : kind[c] # "none"}

LEMMA TakenNext == TypeOK /\ TakenInv /\ [Next]_vars => TakenInv'
  <1> SUFFICES ASSUME TypeOK, TakenInv, [Next]_vars PROVE TakenInv'
    OBVIOUS
  <1>1. ASSUME NEW c \in Calls, NEW k \in Kinds, NEW body, NEW d, NEW e,
               AddTimer(c, k, body, d, e)
        PROVE  TakenInv'
    <2>1. /\ UNCHANGED <<cleared, old>> /\ kind'[c] # "none"
          /\ \A b \in Calls \ {c} : kind'[b] = kind[b]
      BY <1>1 DEF AddTimer, TypeOK
    <2>2. QED
      BY <2>1 DEF TakenInv
  <1>2. CASE Script
    BY <1>1, <1>2 DEF Script, SetTimer, BeginAnimation, ClearInterval, DestroyAll, TakenInv
  <1>3. CASE Tick
    BY <1>3 DEF Tick, scriptVars, TakenInv
  <1>4. CASE Turn
    BY <1>4 DEF Turn, FindTimedOut, TurnLost, Fire, FireAnimation, FireFails, StringReturns,
                FunctionReturns, Rearm, scriptVars, TakenInv
  <1>5. CASE UNCHANGED vars
    BY <1>5 DEF vars, scriptVars, TakenInv
  <1>6. QED
    BY <1>2, <1>3, <1>4, <1>5 DEF Next

LEMMA StandingNext ==
  TypeOK /\ TableInv /\ TakenInv /\ StandingInv /\ [Next]_vars => StandingInv'
  <1> SUFFICES ASSUME TypeOK, TableInv, TakenInv, StandingInv, [Next]_vars PROVE StandingInv'
    OBVIOUS
  <1>1. ASSUME NEW c \in Calls, NEW body \in Bodies, NEW d \in Delays,
               NEW k \in Kinds, SetTimer(c, k, body, d)
        PROVE StandingInv'
    BY <1>1, StandingAddTimer DEF SetTimer, TakenInv
  <1>2. ASSUME NEW c \in Calls, NEW body \in Bodies, NEW d \in Delays,
               BeginAnimation(c, body, d)
        PROVE StandingInv'
    BY <1>2, StandingAddTimer DEF BeginAnimation, TakenInv
  <1>3. ASSUME NEW c \in Calls, ClearInterval(c) PROVE StandingInv'
    <2>1. /\ timer' = [timer EXCEPT ![id[c]] = Empty] /\ UNCHANGED <<id, kind, old>>
          /\ cleared' = cleared \cup {c} /\ id[c] \in Slots
      BY <1>3 DEF ClearInterval, TypeOK
    <2>2. timer'[id[c]] = Empty /\ \A m \in Slots \ {id[c]} : timer'[m] = timer[m]
      BY <2>1 DEF TypeOK
    <2>3. \A m \in Slots \ {id[c]} : timer[m].call # None => timer[m].call # c
      BY DEF StandingInv
    <2>4. Standing' = Standing \ {c}
      BY <2>1 DEF Standing
    <2>5. QED
      BY <2>1, <2>2, <2>3, <2>4, EmptyType DEF StandingInv
  <1>4. CASE DestroyAll
    BY <1>4, EmptyType DEF DestroyAll, StandingInv
  <1>5. ASSUME UNCHANGED scriptVars,
               \A n \in Slots : timer'[n].call = timer[n].call \/ timer'[n].call = None
        PROVE StandingInv'
    BY <1>5 DEF StandingInv, Standing, scriptVars
  <1>6. CASE Tick
    BY <1>5, <1>6, TickTimer DEF Tick, SameTimer
  <1>7. CASE Turn
    <2>1. CASE UNCHANGED <<timer, scriptVars>>
      BY <1>5, <2>1
    <2>2. CASE FireAnimation
      BY <1>5, <2>2, FireTimer DEF FireAnimation, SameTimer
    <2>3. CASE Rearm
      <3>1. \A n \in Slots : timer'[n].call = timer[n].call \/ timer'[n].call = None
        BY <2>3, RearmTimer, EmptyType DEF SameTimer
      <3>2. QED
        BY <1>5, <2>3, <3>1 DEF Rearm
    <2>4. QED
      BY <1>7, <2>1, <2>2, <2>3
      DEF Turn, FindTimedOut, TurnLost, Fire, FireFails, StringReturns, FunctionReturns
  <1>8. CASE UNCHANGED vars
    BY <1>5, <1>8 DEF vars
  <1>9. QED
    BY <1>1, <1>2, <1>3, <1>4, <1>6, <1>7, <1>8 DEF Next, Script

(* Only the call in the slot that the loop points to is ever started.      *)
LEMMA StartsOnlyCurrent ==
  ASSUME TypeOK, TableInv, StandingInv, [Next]_vars, NEW c \in Calls, Starts(c)
  PROVE  c \in Standing
  <1>1. c # None /\ running' = c /\ running # c /\ cur \in Slots
    BY NoneAssumption DEF Starts, TypeOK
  <1>2. running' = timer[cur].call
    <2>1. CASE Script
      BY <1>1, <2>1
      DEF Script, SetTimer, BeginAnimation, AddTimer, ClearInterval, DestroyAll, runVars
    <2>2. CASE Tick
      BY <1>1, <2>2 DEF Tick
    <2>3. CASE Turn
      BY <1>1, <2>3
      DEF Turn, FindTimedOut, TurnLost, Fire, FireAnimation, FireFails, StringReturns,
          FunctionReturns, Rearm, Execute, runVars
    <2>4. CASE UNCHANGED vars
      BY <1>1, <2>4 DEF vars, runVars
    <2>5. QED
      BY <2>1, <2>2, <2>3, <2>4 DEF Next
  <1>3. QED
    BY <1>1, <1>2 DEF StandingInv

(* Whatever scripts do, the callback of a timer that has been cleared or   *)
(* whose script context has been deleted is not started any more.          *)
THEOREM TakenBackStaysSilent == Spec => TakenBackSilent
  <1> DEFINE Inv == TypeOK /\ TableInv /\ TakenInv /\ StandingInv
  <1>1. Init => Inv
    BY TypeInit, TableInit, StandingInit DEF Init, TakenInv
  <1>2. Inv /\ [Next]_vars => Inv'
    BY TableNext, TakenNext, StandingNext
  <1>3. Inv /\ [Next]_vars => [\A c \in Calls : Starts(c) => c \in Standing]_vars
    BY StartsOnlyCurrent
  <1>4. QED
    BY <1>1, <1>2, <1>3, PTL DEF Spec, TakenBackSilent
-----------------------------------------------------------------------------
(* No timer is early.                                                      *)

(* The slot's timer, if there is one, waits for its time.                  *)
Waits(n) == timer[n].call # None /\ ~(n = cur /\ pc \in FiringPCs)

(* What is left of the time and what has passed make up the minimum, and   *)
(* what the loop has found is due.                                         *)
PaceInv ==
  /\ \A n \in Slots : timer[n].call # None => timer[n].timeout >= MinTimeout
  /\ \A n \in Slots : Waits(n) =>
       /\ timer[n].left < 0 => age[timer[n].call] > MinTimeout
       /\ timer[n].left >= 0 => timer[n].left + age[timer[n].call] >= MinTimeout
  /\ pc = "found" => timer[cur].left < 0

LEMMA PaceInit == Init => PaceInv
  BY DEF Init, PaceInv, Waits, Empty

LEMMA PaceAddTimer ==
  ASSUME TypeOK, PaceInv, NEW c \in Calls, NEW k \in Kinds, NEW body, NEW d \in Nat, NEW e,
         AddTimer(c, k, body, d, e)
  PROVE  PaceInv'
  <1> DEFINE tm == NewTimer(c, k, body, d, e)
  <1>1. PICK n \in Slots : timer' = [timer EXCEPT ![n] = tm]
    BY DEF AddTimer
  <1>2. MinTimeout \in Nat /\ tm.call = c /\ tm.timeout >= MinTimeout /\ tm.left = tm.timeout /\ tm.timeout \in Nat
    BY MinTimeoutAssumption DEF NewTimer, Granted, Clip
  <1> HIDE DEF tm
  <1>3. timer'[n] = tm /\ \A m \in Slots \ {n} : timer'[m] = timer[m]
    BY <1>1 DEF TypeOK
  <1>4. UNCHANGED <<pc, cur, age>> /\ pc # "found"
    BY DEF AddTimer, runVars, ScriptPCs
  <1>5. age[c] \in Nat
    BY <1>2 DEF TypeOK
  <1>6. tm.left + age[c] >= MinTimeout /\ ~(tm.left < 0)
    BY <1>2, <1>5
  <1>7. \A m \in Slots \ {n} : Waits(m)' => Waits(m)
    BY <1>3, <1>4 DEF Waits
  <1>8. QED
    BY <1>2, <1>3, <1>4, <1>6, <1>7 DEF PaceInv

(* A step that leaves the time of each timer, or the slot itself, alone.   *)
LEMMA PaceKept ==
  ASSUME PaceInv, UNCHANGED <<pc, cur, age>>, pc # "found",
         \A n \in Slots : timer'[n] = timer[n] \/ timer'[n].call = None
  PROVE  PaceInv'
  BY DEF PaceInv, Waits

LEMMA PaceTick ==
  ASSUME TypeOK, TableInv, PaceInv, Tick
  PROVE  PaceInv'
  <1>1. UNCHANGED <<pc, cur>> /\ cur \in Slots /\ MinTimeout \in Nat
    BY MinTimeoutAssumption DEF Tick, TypeOK
  <1>2. ASSUME NEW n \in Slots
        PROVE  /\ timer'[n].call = timer[n].call /\ timer'[n].timeout = timer[n].timeout
               /\ timer'[n].left = Clip(timer[n].left - 1) /\ timer[n].left \in Int
    <2>1. timer[n] \in Timer /\ timer'[n] = [timer[n] EXCEPT !.left = Clip(@ - 1), !.rest = Clip(@ - 1)]
      BY DEF Tick, TypeOK
    <2>2. timer[n].left \in Int
      BY <2>1, FieldType
    <2>3. QED
      BY <2>1, <2>2 DEF Timer
  <1>3. ASSUME NEW n \in Slots, timer[n].call # None
        PROVE  LET a == age[timer[n].call]
               IN  a \in Nat /\ age'[timer[n].call] = IF a > MinTimeout THEN a ELSE a + 1
    <2>1. timer[n].call \in Calls
      BY <1>3, FieldType DEF TypeOK
    <2>2. InTable(timer[n].call)
      BY DEF InTable
    <2>3. age[timer[n].call] \in Nat
      BY <1>1, <2>1 DEF TypeOK
    <2>4. QED
      BY <2>1, <2>2, <2>3 DEF Tick
  <1>4. ASSUME NEW n \in Slots, Waits(n)'
        PROVE  /\ timer'[n].left < 0 => age'[timer'[n].call] > MinTimeout
               /\ timer'[n].left >= 0 => timer'[n].left + age'[timer'[n].call] >= MinTimeout
    <2>1. Waits(n) /\ timer[n].call # None
      BY <1>1, <1>2, <1>4 DEF Waits
    <2>2. PICK l, a, b : l = timer[n].left /\ a = age[timer[n].call] /\ b = age'[timer[n].call]
      OBVIOUS
    <2>3. l \in Int /\ a \in Nat /\ b = IF a > MinTimeout THEN a ELSE a + 1
      BY <1>2, <1>3, <2>1, <2>2
    <2>4. (l < 0 => a > MinTimeout) /\ (l >= 0 => l + a >= MinTimeout)
      BY <2>1, <2>2 DEF PaceInv
    <2>5. (Clip(l - 1) < 0 => b > MinTimeout) /\ (Clip(l - 1) >= 0 => Clip(l - 1) + b >= MinTimeout)
      BY <1>1, <2>3, <2>4 DEF Clip
    <2>6. QED
      BY <1>2, <2>2, <2>5
  <1>5. \A n \in Slots : timer'[n].call # None => timer'[n].timeout >= MinTimeout
    BY <1>2 DEF PaceInv
  <1>6. pc' = "found" => timer'[cur'].left < 0
    BY <1>1, <1>2 DEF PaceInv, Clip
  <1>7. QED
    BY <1>4, <1>5, <1>6 DEF PaceInv

(* The slot the loop points to is being fired after the step.              *)
LEMMA PaceFires ==
  ASSUME TypeOK, TableInv, PaceInv, pc' \in FiringPCs, cur' = cur, timer[cur].call # None,
         age' = [age EXCEPT ![timer[cur].call] = 0],
         \A n \in Slots : SameTimer(timer'[n], timer[n]) /\ (n # cur => timer'[n] = timer[n])
  PROVE  PaceInv'
  <1>1. cur \in Slots
    BY DEF TypeOK
  <1>2. ASSUME NEW n \in Slots, Waits(n)'
        PROVE  Waits(n) /\ timer'[n] = timer[n] /\ age'[timer[n].call] = age[timer[n].call]
    <2>1. n # cur /\ timer'[n] = timer[n] /\ timer[n].call # None
      BY <1>2 DEF Waits
    <2>2. timer[n].call # timer[cur].call
      BY <1>1, <2>1 DEF TableInv
    <2>3. timer[n].call \in Calls
      BY <2>1, FieldType DEF TypeOK
    <2>4. age'[timer[n].call] = age[timer[n].call]
      BY <2>2, <2>3 DEF TypeOK
    <2>5. QED
      BY <2>1, <2>4 DEF Waits
  <1>3. \A n \in Slots : timer'[n].call # None => timer'[n].timeout >= MinTimeout
    BY DEF PaceInv, SameTimer
  <1>4. pc' # "found"
    BY DEF FiringPCs
  <1>5. QED
    BY <1>2, <1>3, <1>4 DEF PaceInv

LEMMA PaceRearm ==
  ASSUME TypeOK, PaceInv, Rearm
  PROVE  PaceInv'
  <1>1. /\ pc' = "loop" /\ UNCHANGED <<cur, age>> /\ cur \in Slots /\ MinTimeout \in Nat
        /\ timer[cur] \in Timer
    BY MinTimeoutAssumption DEF Rearm, runVars, TypeOK
  <1>2. /\ timer' \in [Slots -> Timer]
        /\ \A n \in Slots \ {cur} : timer'[n] = timer[n]
        /\ IF timer[cur].recurs
             THEN SameTimer(timer'[cur], timer[cur]) /\ timer'[cur].recurs
             ELSE timer'[cur] = Empty
    BY RearmTimer
  <1>3. \A n \in Slots \ {cur} : Waits(n)' => Waits(n)
    BY <1>1, <1>2 DEF Waits
  <1>4. CASE timer[cur].recurs /\ timer[cur].call # None
    <2>1. timer[cur].timeout >= MinTimeout /\ timer[cur].timeout \in Int
      BY <1>1, <1>4, FieldType DEF PaceInv
    <2>2. timer'[cur].left = Clip(timer[cur].timeout)
      BY <1>1, <1>4 DEF Rearm, TypeOK, Timer
    <2>3. timer'[cur].left >= MinTimeout /\ timer'[cur].left \in Nat
      BY <1>1, <2>1, <2>2 DEF Clip
    <2>4. timer'[cur].call = timer[cur].call /\ timer'[cur].timeout = timer[cur].timeout
      BY <1>2, <1>4 DEF SameTimer
    <2>5. age'[timer'[cur].call] \in Nat
      <3>1. timer[cur].call \in Calls
        BY <1>1, <1>4, FieldType
      <3>2. QED
        BY <1>1, <2>4, <3>1 DEF TypeOK
    <2>6. /\ ~(timer'[cur].left < 0)
          /\ timer'[cur].left + age'[timer'[cur].call] >= MinTimeout
      BY <1>1, <2>3, <2>5
    <2>7. QED
      BY <1>1, <1>2, <1>3, <2>1, <2>4, <2>6 DEF PaceInv
  <1>5. CASE ~(timer[cur].recurs /\ timer[cur].call # None)
    <2>1. timer'[cur].call = None
      BY <1>2, <1>5, EmptyType DEF SameTimer
    <2>2. QED
      BY <1>1, <1>2, <1>3, <2>1 DEF PaceInv, Waits
  <1>6. QED
    BY <1>4, <1>5

LEMMA PaceNext ==
  ASSUME Delays \subseteq Nat
  PROVE  TypeOK /\ TableInv /\ PaceInv /\ [Next]_vars => PaceInv'
  <1> SUFFICES ASSUME TypeOK, TableInv, PaceInv, [Next]_vars PROVE PaceInv'
    OBVIOUS
  <1>1. ASSUME NEW c \in Calls, NEW body \in Bodies, NEW d \in Delays, NEW k \in Kinds, SetTimer(c, k, body, d)
        PROVE  PaceInv'
    BY <1>1, PaceAddTimer DEF SetTimer
  <1>2. ASSUME NEW c \in Calls, NEW body \in Bodies, NEW d \in Delays, BeginAnimation(c, body, d)
        PROVE  PaceInv'
    BY <1>2, PaceAddTimer DEF BeginAnimation
  <1>3. ASSUME NEW c \in Calls, ClearInterval(c) PROVE PaceInv'
    <2>1. timer' = [timer EXCEPT ![id[c]] = Empty] /\ UNCHANGED <<pc, cur, age>> /\ pc # "found"
      BY <1>3 DEF ClearInterval, runVars, ScriptPCs
    <2>2. \A n \in Slots : timer'[n] = timer[n] \/ timer'[n].call = None
      BY <2>1, EmptyType DEF TypeOK
    <2>3. QED
      BY <2>1, <2>2, PaceKept
  <1>4. CASE DestroyAll
    <2>1. UNCHANGED <<pc, cur, age>> /\ pc # "found" /\ \A n \in Slots : timer'[n].call = None
      BY <1>4, EmptyType DEF DestroyAll, runVars
    <2>2. QED
      BY <2>1, PaceKept
  <1>5. CASE Tick
    BY <1>5, PaceTick
  <1>6. CASE FindTimedOut
    <2>1. UNCHANGED <<timer, age>> /\ pc = "loop"
      BY <1>6 DEF FindTimedOut, runVars
    <2>2. \/ pc' = "found" /\ cur' \in Slots /\ timer[cur'].left < 0
          \/ UNCHANGED <<pc, cur>>
      BY <1>6 DEF FindTimedOut, TimedOut
    <2>3. \A n \in Slots : Waits(n)' => Waits(n)
      BY <2>1 DEF Waits, FiringPCs
    <2>4. QED
      BY <2>1, <2>2, <2>3 DEF PaceInv
  <1>7. CASE TurnLost
    BY <1>7 DEF TurnLost, runVars, PaceInv, Waits
  <1>8. ASSUME Execute(timer[cur]), timer[cur].call # None, cur' = cur,
               \A n \in Slots : SameTimer(timer'[n], timer[n]) /\ (n # cur => timer'[n] = timer[n])
        PROVE  PaceInv'
    <2>1. pc' \in FiringPCs /\ age' = [age EXCEPT ![timer[cur].call] = 0]
      BY <1>8 DEF Execute, FiringPCs
    <2>2. QED
      BY <1>8, <2>1, PaceFires
  <1>9. CASE Fire
    <2>1. Execute(timer[cur]) /\ timer[cur].call # None /\ UNCHANGED <<timer, cur>>
      BY <1>9 DEF Fire, TableInv
    <2>2. QED
      BY <1>8, <2>1 DEF SameTimer
  <1>10. CASE FireAnimation
    <2>1. Execute(timer[cur]) /\ timer[cur].call # None /\ UNCHANGED cur
      BY <1>10 DEF FireAnimation, TableInv
    <2>2. \A n \in Slots : SameTimer(timer'[n], timer[n]) /\ (n # cur => timer'[n] = timer[n])
      BY <1>10, FireTimer
    <2>3. QED
      BY <1>8, <2>1, <2>2
  <1>11. CASE FireFails
    <2>1. UNCHANGED <<timer, cur, age>> /\ pc' = "loop" /\ pc = "found"
      BY <1>11 DEF FireFails, runVars
    <2>2. \A n \in Slots : Waits(n)' => Waits(n)
      BY <2>1 DEF Waits, FiringPCs
    <2>3. QED
      BY <2>1, <2>2 DEF PaceInv
  <1>12. CASE StringReturns
    <2>1. CASE timer[cur].body = "function" /\ Execute(timer[cur])
      <3>1. timer[cur].call # None /\ UNCHANGED <<timer, cur>>
        BY <1>12, <2>1 DEF StringReturns, TableInv, SlotInv, TypeOK
      <3>2. QED
        BY <1>8, <2>1, <3>1 DEF SameTimer
    <2>2. CASE timer[cur].body # "function"
      BY <1>12, <2>2 DEF StringReturns, PaceInv, Waits, FiringPCs
    <2>3. QED
      BY <1>12, <2>1, <2>2 DEF StringReturns
  <1>13. CASE FunctionReturns
    BY <1>13 DEF FunctionReturns, PaceInv, Waits, FiringPCs
  <1>14. CASE Rearm
    BY <1>14, PaceRearm
  <1>15. CASE UNCHANGED vars
    BY <1>15 DEF vars, runVars, PaceInv, Waits
  <1>16. QED
    BY <1>1, <1>2, <1>3, <1>4, <1>5, <1>6, <1>7, <1>9, <1>10, <1>11, <1>12, <1>13, <1>14, <1>15
    DEF Next, Script, Turn

(* A callback starts when its timer has been found, or its slot has been   *)
(* given to another one meanwhile.                                         *)
LEMMA StartsOnTime ==
  ASSUME OwnSlots, TypeOK, TableInv, OnceInv, FiringInv, PaceInv, [Next]_vars, NEW c \in Calls, Starts(c)
  PROVE  age[c] > MinTimeout
  <1>1. c # None /\ running' = c /\ running # c /\ cur \in Slots
    BY NoneAssumption DEF Starts, TypeOK
  <1>2. pc = "found" /\ Execute(timer[cur])
    <2>1. CASE Script
      BY <1>1, <2>1
      DEF Script, SetTimer, BeginAnimation, AddTimer, ClearInterval, DestroyAll, runVars
    <2>2. CASE Tick
      BY <1>1, <2>2 DEF Tick
    <2>3. CASE StringReturns
      <3>1. pc = "inString" /\ timer[cur].body = "function"
        BY <1>1, <2>3 DEF StringReturns
      <3>2. timer[cur].call # None
        BY <1>1, <3>1 DEF TableInv, SlotInv
      <3>3. runs[timer[cur].call] > 0
        BY <3>1, <3>2 DEF FiringInv, FiringPCs
      <3>4. runs[timer[cur].call] = 0
        BY <3>1 DEF OnceInv
      <3>5. QED
        BY <3>3, <3>4
    <2>4. CASE Turn /\ ~StringReturns
      BY <1>1, <2>4
      DEF Turn, FindTimedOut, TurnLost, Fire, FireAnimation, FireFails, FunctionReturns, Rearm, runVars
    <2>5. CASE UNCHANGED vars
      BY <1>1, <2>5 DEF vars, runVars
    <2>6. QED
      BY <2>1, <2>2, <2>3, <2>4, <2>5 DEF Next
  <1>3. timer[cur].call = c
    BY <1>1, <1>2 DEF Execute
  <1>4. Waits(cur) /\ timer[cur].left < 0
    BY <1>1, <1>2, <1>3 DEF Waits, PaceInv, FiringPCs
  <1>5. QED
    BY <1>1, <1>3, <1>4 DEF PaceInv

(* When no delay is negative, callbacks do not replace their own timer and *)
(* no stale identifier is cleared, more than the minimum passes between    *)
(* setting a timer and its callback and between two runs of a callback,    *)
(* however long the turns of the loop are.                                 *)
THEOREM PacedAlways ==
  ASSUME "replace" \notin Env, "staleId" \notin Env, Delays \subseteq Nat
  PROVE  Spec => Paced
  <1>1. OwnSlots
    BY DEF OwnSlots
  <1> DEFINE Inv == TypeOK /\ TableInv /\ OnceInv /\ KeptInv /\ PaceInv
  <1>2. Init => Inv
    BY TypeInit, TableInit, OnceInit, KeptInit, PaceInit
  <1>3. Inv /\ [Next]_vars => Inv'
    BY <1>1, TableNext, OnceNext, KeptNext, PaceNext
  <1>4. Inv /\ [Next]_vars => [\A c \in Calls : Starts(c) => age[c] > MinTimeout]_vars
    BY <1>1, StartsOnTime DEF KeptInv
  <1>5. QED
    BY <1>2, <1>3, <1>4, PTL DEF Spec, Paced
=============================================================================
