---------------------------- MODULE XpNetProofs ----------------------------
(***************************************************************************)
(* Proofs about XpNet: for every number of slots, requests, objects and    *)
(* thread incarnations.                                                    *)
(***************************************************************************)
EXTENDS XpNetRefinement, XpNetInv, TLAPS

USE DEF Slots, States, Flags, ThreadPCs, MainPCs

-----------------------------------------------------------------------------
(* Fields and indices stay in their ranges, in every environment.          *)

LEMMA TypeInit == Init => TypeInv
  BY NSlotsAssumption DEF Init, TypeInv, TypeOK, IndexInv, BusyPCs, ServingPCs

LEMMA CountType ==
  ASSUME NEW f \in [Reqs -> Nat], NEW k PROVE [f EXCEPT ![k] = @ + 1] \in [Reqs -> Nat]
  <1> DEFINE g == [f EXCEPT ![k] = @ + 1]
  <1>1. ASSUME NEW r \in Reqs PROVE g[r] \in Nat
    <2>1. CASE r = k
      BY <2>1
    <2>2. CASE r # k
      BY <2>2
    <2>3. QED
      BY <2>1, <2>2
  <1>2. g = [r \in Reqs |-> g[r]]
    OBVIOUS
  <1>3. QED
    BY <1>1, <1>2

LEMMA TypeMain == TypeInv /\ Main => TypeInv'
  <1> SUFFICES ASSUME TypeInv, Main PROVE TypeInv'
    OBVIOUS
  <1> USE NSlotsAssumption DEF TypeInv, TypeOK, IndexInv, BusyPCs, ServingPCs,
                               slotVars, threadVars, mainVars, xhrVars
  <1>1. CASE DoQueue
    BY <1>1 DEF DoQueue
  <1>2. CASE CallBack
    <2>1. calls' \in [Reqs -> Nat]
      BY <1>2, CountType DEF CallBack
    <2>2. QED
      BY <1>2, <2>1 DEF CallBack
  <1>3. CASE CallBackReturn
    BY <1>3 DEF CallBackReturn
  <1>4. CASE SkipSlot
    BY <1>4 DEF SkipSlot
  <1>5. CASE QueueDone
    BY <1>5 DEF QueueDone
  <1>6. CASE SetExit
    BY <1>6 DEF SetExit
  <1>7. CASE WaitExit
    BY <1>7 DEF WaitExit, AfterWait
  <1>8. CASE MarkSlot
    <2>1. state' \in [Slots -> States] /\ url' \in [Slots -> {"set", "null", "freed"}]
      BY <1>8, ZenonT(60) DEF MarkSlot
    <2>2. QED
      BY <1>8, <2>1 DEF MarkSlot
  <1>9. CASE MarkDone
    BY <1>9 DEF MarkDone
  <1>10. CASE StartThread
    BY <1>10 DEF StartThread
  <1>11. CASE Disconnect
    BY <1>11 DEF Disconnect
  <1>12. QED
    BY <1>1, <1>2, <1>3, <1>4, <1>5, <1>6, <1>7, <1>8, <1>9, <1>10, <1>11 DEF Main

LEMMA TypeUser == TypeInv /\ User => TypeInv'
  <1> SUFFICES ASSUME TypeInv, User PROVE TypeInv'
    OBVIOUS
  <1> USE NSlotsAssumption, OwnerAssumption
      DEF TypeInv, TypeOK, IndexInv, BusyPCs, ServingPCs,
          slotVars, threadVars, mainVars, xhrVars
  <1>1. ASSUME NEW r \in Reqs, Send(r) PROVE TypeInv'
    <2>1. FreeUrls({Owner[r]}) \in [Slots -> {"set", "null", "freed"}]
      BY DEF FreeUrls
    <2>2. /\ state' \in [Slots -> States]
          /\ item' \in [Slots -> Reqs \cup {None}]
          /\ url' \in [Slots -> {"set", "null", "freed"}]
          /\ got' \in [Slots -> SUBSET (Reqs \cup {None})]
      <3>1. CASE \E s \in Slots : FillSlot(s, r)
        <4>1. PICK s \in Slots : FillSlot(s, r)
          BY <3>1
        <4>2. state' \in [Slots -> States] /\ item' \in [Slots -> Reqs \cup {None}]
          BY <4>1 DEF FillSlot
        <4>3. got' \in [Slots -> SUBSET (Reqs \cup {None})]
          BY <4>1 DEF FillSlot
        <4>4. url' \in [Slots -> {"set", "null", "freed"}]
          BY <2>1, <4>1 DEF FillSlot
        <4>5. QED
          BY <4>2, <4>3, <4>4
      <3>2. CASE UNCHANGED <<state, item, got>> /\ url' = FreeUrls({Owner[r]})
        BY <2>1, <3>2
      <3>3. QED
        BY <1>1, <3>1, <3>2 DEF Send
    <2>3. QED
      BY <1>1, <2>2 DEF Send
  <1>2. ASSUME NEW x \in Xhrs, Collect(x) PROVE TypeInv'
    BY <1>2 DEF Collect, Finalize, FreeUrls
  <1>3. CASE SelectWlanAp
    BY <1>3 DEF SelectWlanAp
  <1>4. CASE SelectProfile
    BY <1>4 DEF SelectProfile, Finalize, FreeUrls
  <1>5. CASE Quit
    BY <1>5 DEF Quit
  <1>6. QED
    BY <1>1, <1>2, <1>3, <1>4, <1>5 DEF User

LEMMA UpdatedType ==
  ASSUME NEW how, NEW f \in SUBSET Flags PROVE Updated(how, f) \in SUBSET Flags
  BY DEF Updated

LEMMA TypeThread == ASSUME NEW t \in Threads PROVE TypeInv /\ Thread(t) => TypeInv'
  <1> SUFFICES ASSUME TypeInv, Thread(t) PROVE TypeInv'
    OBVIOUS
  <1> USE NSlotsAssumption
      DEF TypeInv, TypeOK, IndexInv, BusyPCs, ServingPCs, Goto, NextSlot, Fail,
          slotVars, threadVars, mainVars, xhrVars
  <1>1. CASE UpdateFlags(t)
    <2>1. flags' \in SUBSET Flags
      BY <1>1, UpdatedType DEF UpdateFlags
    <2>2. CASE Goto(t, "init", "scan")
      BY <1>1, <2>1, <2>2 DEF UpdateFlags
    <2>3. CASE Goto(t, "exit", "dead")
      BY <1>1, <2>1, <2>3 DEF UpdateFlags
    <2>4. QED
      BY <1>1, <2>2, <2>3 DEF UpdateFlags
  <1>2. CASE LoadFlags(t)
    <2>1. CASE Goto(t, "init", "initStore")
      BY <1>2, <2>1 DEF LoadFlags
    <2>2. CASE Goto(t, "exit", "exitStore")
      BY <1>2, <2>2 DEF LoadFlags
    <2>3. QED
      BY <1>2, <2>1, <2>2 DEF LoadFlags
  <1>3. CASE StoreFlags(t)
    <2>1. flags' \in SUBSET Flags
      BY <1>3, UpdatedType DEF StoreFlags
    <2>2. CASE Goto(t, "initStore", "scan")
      BY <1>3, <2>1, <2>2 DEF StoreFlags
    <2>3. CASE Goto(t, "exitStore", "dead")
      BY <1>3, <2>1, <2>3 DEF StoreFlags
    <2>4. QED
      BY <1>3, <2>2, <2>3 DEF StoreFlags
  <1>4. CASE InetInitFails(t)
    BY <1>4 DEF InetInitFails
  <1>5. CASE ScanSlot(t)
    <2>1. CASE NextSlot(t, "scan") /\ UNCHANGED state
      BY <1>5, <2>1 DEF ScanSlot
    <2>2. CASE NextSlot(t, "scan") /\ state' = [state EXCEPT ![at[t]] = "EMPTY"]
      BY <1>5, <2>2 DEF ScanSlot
    <2>3. CASE Goto(t, "scan", "connect") /\ UNCHANGED <<state, at>>
      BY <1>5, <2>3 DEF ScanSlot
    <2>4. QED
      BY <1>5, <2>1, <2>2, <2>3 DEF ScanSlot
  <1>6. CASE Connect(t)
    BY <1>6, ZenonT(60) DEF Connect
  <1>7. CASE PollApcon(t)
    BY <1>7, ZenonT(60) DEF PollApcon
  <1>8. CASE Claim(t)
    <2>1. CASE NextSlot(t, "claim") /\ state' = [state EXCEPT ![at[t]] = "EMPTY"]
      BY <1>8, <2>1 DEF Claim
    <2>2. CASE Goto(t, "claim", "claimed") /\ UNCHANGED <<state, at>>
      BY <1>8, <2>2 DEF Claim
    <2>3. QED
      BY <1>8, <2>1, <2>2 DEF Claim
  <1>9. CASE Claimed(t)
    BY <1>9 DEF Claimed
  <1>10. CASE Request(t)
    <2>1. CASE Goto(t, "request", "recvFirst")
      <3>1. at[t] \in Slots
        BY <2>1
      <3>2. serving' \in [Threads -> Reqs \cup {None}] /\ UNCHANGED state
        BY <1>10, <2>1, <3>1 DEF Request
      <3>3. QED
        BY <1>10, <2>1, <3>2 DEF Request
    <2>2. CASE Goto(t, "request", "dead")
      BY <1>10, <2>2, ZenonT(60) DEF Request
    <2>3. QED
      BY <1>10, <2>1, <2>2 DEF Request
  <1>11. CASE RecvFirst(t)
    BY <1>11 DEF RecvFirst
  <1>12. CASE RecvNothing(t)
    BY <1>12 DEF RecvNothing
  <1>13. CASE Recv(t)
    BY <1>13 DEF Recv
  <1>14. CASE RecvEnd(t)
    BY <1>14 DEF RecvEnd
  <1>15. CASE PutBack(t)
    <2>1. at[t] \in Slots
      BY <1>15 DEF PutBack
    <2>2. result' \in [Xhrs -> SUBSET (Reqs \cup {None})]
      BY <1>15, <2>1 DEF PutBack
    <2>3. QED
      BY <1>15, <2>2 DEF PutBack
  <1>16. CASE Finish(t)
    <2>1. CASE NextSlot(t, "finish") /\ state' = [state EXCEPT ![at[t]] = "EMPTY"]
      BY <1>16, <2>1 DEF Finish
    <2>2. CASE Goto(t, "finish", "finished") /\ UNCHANGED <<state, at>>
      BY <1>16, <2>2 DEF Finish
    <2>3. QED
      BY <1>16, <2>1, <2>2 DEF Finish
  <1>17. CASE Finished(t)
    BY <1>17 DEF Finished
  <1>18. CASE EndScan(t)
    <2>1. CASE Goto(t, "scan", "exit") /\ UNCHANGED <<con, at>>
      BY <1>18, <2>1 DEF EndScan
    <2>2. CASE UNCHANGED pc /\ at' = [at EXCEPT ![t] = 0]
      <3>1. con' \in {"NOTCONN", "ATTEMPT", "CONNED"}
        BY <1>18 DEF EndScan
      <3>2. QED
        BY <1>18, <2>2, <3>1 DEF EndScan
    <2>3. QED
      BY <1>18, <2>1, <2>2 DEF EndScan
  <1>19. QED
    BY <1>1, <1>2, <1>3, <1>4, <1>5, <1>6, <1>7, <1>8, <1>9, <1>10, <1>11, <1>12,
       <1>13, <1>14, <1>15, <1>16, <1>17, <1>18 DEF Thread

LEMMA TypeNext == TypeInv /\ [Next]_vars => TypeInv'
  <1>1. TypeInv /\ UNCHANGED vars => TypeInv'
    BY DEF TypeInv, TypeOK, IndexInv, BusyPCs, ServingPCs, vars,
           slotVars, threadVars, mainVars, xhrVars
  <1>2. QED
    BY <1>1, TypeMain, TypeUser, TypeThread DEF Next, Terminated

(* In every environment the shared table, the flags, the threads' and the  *)
(* main thread's indices stay in range.                                    *)
THEOREM TypeCorrect == Spec => []TypeOK
  <1>1. TypeInv => TypeOK
    BY DEF TypeInv
  <1>2. QED
    BY TypeInit, TypeNext, <1>1, PTL DEF Spec

-----------------------------------------------------------------------------
(* The stop protocol, when every stop request is answered and the flags    *)
(* are updated in one step.                                                *)

Calm == "slowNet" \notin Env /\ "tornFlags" \notin Env

(* A thread that takes a step is running, starts no other thread and       *)
(* leaves the main thread's variables alone.                               *)
LEMMA ThreadFrame ==
  ASSUME TypeInv, NEW t \in Threads, Thread(t)
  PROVE  /\ t \in Alive
         /\ Alive' \subseteq Alive
         /\ \A u \in Threads \ {t} : pc'[u] = pc[u]
         /\ UNCHANGED <<mpc, mi, op, sent, xhr, calls, item, url, nap>>
  <1> USE DEF TypeInv, TypeOK, Alive, AlivePCs, Goto, NextSlot, Fail, threadVars,
              slotVars, mainVars, xhrVars
  <1>1. CASE UpdateFlags(t)
    BY <1>1 DEF UpdateFlags
  <1>2. CASE LoadFlags(t)
    BY <1>2 DEF LoadFlags
  <1>3. CASE StoreFlags(t)
    BY <1>3 DEF StoreFlags
  <1>4. CASE InetInitFails(t)
    BY <1>4 DEF InetInitFails
  <1>5. CASE ScanSlot(t)
    BY <1>5 DEF ScanSlot
  <1>6. CASE Connect(t)
    BY <1>6 DEF Connect
  <1>7. CASE PollApcon(t)
    BY <1>7 DEF PollApcon
  <1>8. CASE Claim(t)
    BY <1>8 DEF Claim
  <1>9. CASE Claimed(t)
    BY <1>9 DEF Claimed
  <1>10. CASE Request(t)
    BY <1>10 DEF Request
  <1>11. CASE RecvFirst(t)
    BY <1>11 DEF RecvFirst
  <1>12. CASE RecvNothing(t)
    BY <1>12 DEF RecvNothing
  <1>13. CASE Recv(t)
    BY <1>13 DEF Recv
  <1>14. CASE RecvEnd(t)
    BY <1>14 DEF RecvEnd
  <1>15. CASE PutBack(t)
    BY <1>15 DEF PutBack
  <1>16. CASE Finish(t)
    BY <1>16 DEF Finish
  <1>17. CASE Finished(t)
    BY <1>17 DEF Finished
  <1>18. CASE EndScan(t)
    BY <1>18 DEF EndScan
  <1>19. QED
    BY <1>1, <1>2, <1>3, <1>4, <1>5, <1>6, <1>7, <1>8, <1>9, <1>10, <1>11, <1>12,
       <1>13, <1>14, <1>15, <1>16, <1>17, <1>18 DEF Thread

(* What a thread does to the flags, and how it comes to exit.              *)
LEMMA ThreadFlags ==
  ASSUME Calm, TypeInv, NEW t \in Threads, Thread(t)
  PROVE  /\ pc'[t] \notin {"initStore", "exitStore"} \/ pc'[t] = pc[t]
         /\ pc'[t] = "exit" => "EXIT" \in flags'
         /\ \/ "EXIT" \in flags' <=> "EXIT" \in flags
            \/ pc[t] = "exit" /\ pc'[t] = "dead"
            \/ pc[t] \in {"initStore", "exitStore"}
  <1> USE DEF Calm, TypeInv, TypeOK, Goto, NextSlot, Fail, threadVars
  <1>1. CASE UpdateFlags(t)
    BY <1>1 DEF UpdateFlags, Updated
  <1>2. CASE LoadFlags(t)
    BY <1>2 DEF LoadFlags
  <1>3. CASE StoreFlags(t)
    BY <1>3 DEF StoreFlags
  <1>4. CASE InetInitFails(t)
    BY <1>4 DEF InetInitFails
  <1>5. CASE ScanSlot(t)
    BY <1>5 DEF ScanSlot
  <1>6. CASE Connect(t)
    BY <1>6 DEF Connect
  <1>7. CASE PollApcon(t)
    BY <1>7 DEF PollApcon
  <1>8. CASE Claim(t)
    BY <1>8 DEF Claim
  <1>9. CASE Claimed(t)
    BY <1>9 DEF Claimed
  <1>10. CASE Request(t)
    BY <1>10 DEF Request
  <1>11. CASE RecvFirst(t)
    BY <1>11 DEF RecvFirst
  <1>12. CASE RecvNothing(t)
    BY <1>12 DEF RecvNothing
  <1>13. CASE Recv(t)
    BY <1>13 DEF Recv
  <1>14. CASE RecvEnd(t)
    BY <1>14 DEF RecvEnd
  <1>15. CASE PutBack(t)
    BY <1>15 DEF PutBack
  <1>16. CASE Finish(t)
    BY <1>16 DEF Finish
  <1>17. CASE Finished(t)
    BY <1>17 DEF Finished
  <1>18. CASE EndScan(t)
    BY <1>18 DEF EndScan
  <1>19. QED
    BY <1>1, <1>2, <1>3, <1>4, <1>5, <1>6, <1>7, <1>8, <1>9, <1>10, <1>11, <1>12,
       <1>13, <1>14, <1>15, <1>16, <1>17, <1>18 DEF Thread

LEMMA ExitThread ==
  ASSUME Calm, TypeInv, ExitInv, NEW t \in Threads, Thread(t) PROVE ExitInv'
  <1>1. t \in Alive /\ Alive' \subseteq Alive /\ UNCHANGED mpc
    BY ThreadFrame
  <1>2. Alive = {t}
    BY <1>1 DEF ExitInv, OneThread, Alive
  <1>3. mpc \notin {"mark", "start", "disconnect", "done"}
    BY <1>2 DEF ExitInv, ThreadGoneAfterWait
  <1>4. OneThread' /\ ThreadGoneAfterWait'
    BY <1>1, <1>2, <1>3 DEF OneThread, ThreadGoneAfterWait
  <1>5. (mpc = "wait" /\ "EXIT" \notin flags => Alive = {})'
    <2>1. SUFFICES ASSUME mpc = "wait", "EXIT" \notin flags' PROVE Alive' = {}
      BY <1>1
    <2>2. "EXIT" \in flags
      BY <1>2, <2>1 DEF ExitInv
    <2>3. pc'[t] = "dead"
      BY <2>1, <2>2, ThreadFlags DEF ExitInv
    <2>4. t \notin Alive'
      BY <2>3 DEF Alive, AlivePCs
    <2>5. QED
      BY <1>1, <1>2, <2>4
  <1>6. \A u \in Threads : pc'[u] = "exit" => "EXIT" \in flags'
    <2>1. SUFFICES ASSUME NEW u \in Threads, pc'[u] = "exit" PROVE "EXIT" \in flags'
      OBVIOUS
    <2>2. u \in Alive'
      BY <2>1 DEF Alive, AlivePCs
    <2>3. QED
      BY <1>1, <1>2, <2>1, <2>2, ThreadFlags
  <1>7. \A u \in Threads : pc'[u] \notin {"initStore", "exitStore"}
    BY ThreadFrame, ThreadFlags DEF ExitInv
  <1>8. QED
    BY <1>4, <1>5, <1>6, <1>7 DEF ExitInv

LEMMA ExitMain ==
  ASSUME Calm, TypeInv, ExitInv, Main PROVE ExitInv'
  <1> USE DEF TypeInv, TypeOK, ExitInv, OneThread, ThreadGoneAfterWait, Alive, threadVars
  <1>1. CASE DoQueue
    BY <1>1 DEF DoQueue
  <1>2. CASE CallBack
    BY <1>2 DEF CallBack
  <1>3. CASE CallBackReturn
    BY <1>3 DEF CallBackReturn
  <1>4. CASE SkipSlot
    BY <1>4 DEF SkipSlot
  <1>5. CASE QueueDone
    BY <1>5 DEF QueueDone
  <1>6. CASE SetExit
    BY <1>6 DEF SetExit
  <1>7. CASE WaitExit
    <2>1. Alive = {}
      BY <1>7 DEF WaitExit, WaitTimesOut, Calm
    <2>2. UNCHANGED <<flags, pc>> /\ mpc' \in {"mark", "disconnect"}
      BY <1>7 DEF WaitExit, AfterWait
    <2>3. QED
      BY <2>1, <2>2
  <1>8. CASE MarkSlot
    BY <1>8 DEF MarkSlot
  <1>9. CASE MarkDone
    BY <1>9 DEF MarkDone
  <1>10. CASE StartThread
    <2>1. Alive = {} /\ mpc' = "loop" /\ UNCHANGED flags
      BY <1>10 DEF StartThread
    <2>2. CASE UNCHANGED pc
      BY <2>1, <2>2
    <2>3. ASSUME NEW t \in Threads, pc' = [pc EXCEPT ![t] = "init"] PROVE ExitInv'
      <3>1. \A u \in Threads \ {t} : pc'[u] = pc[u] /\ u \notin Alive'
        BY <2>1, <2>3
      <3>2. pc'[t] = "init"
        BY <2>3
      <3>3. QED
        BY <2>1, <3>1, <3>2
    <2>4. QED
      BY <1>10, <2>2, <2>3 DEF StartThread
  <1>11. CASE Disconnect
    BY <1>11 DEF Disconnect
  <1>12. QED
    BY <1>1, <1>2, <1>3, <1>4, <1>5, <1>6, <1>7, <1>8, <1>9, <1>10, <1>11 DEF Main

LEMMA ExitUser ==
  ASSUME ExitInv, User PROVE ExitInv'
  <1> USE DEF ExitInv, OneThread, ThreadGoneAfterWait, Alive, threadVars, mainVars
  <1>1. UNCHANGED <<flags, pc>> /\ mpc' \in {mpc, "setExit"}
    <2>1. ASSUME NEW r \in Reqs, Send(r) PROVE UNCHANGED <<flags, pc, mpc>>
      BY <2>1 DEF Send
    <2>2. ASSUME NEW x \in Xhrs, Collect(x) PROVE UNCHANGED <<flags, pc, mpc>>
      BY <2>2 DEF Collect
    <2>3. QED
      BY <2>1, <2>2 DEF User, SelectWlanAp, SelectProfile, Quit
  <1>2. QED
    BY <1>1

LEMMA ExitInit == Init => ExitInv
  BY DEF Init, ExitInv, OneThread, ThreadGoneAfterWait, Alive, AlivePCs

LEMMA ExitNext ==
  ASSUME Calm PROVE TypeInv /\ ExitInv /\ [Next]_vars => ExitInv'
  <1>1. ExitInv /\ UNCHANGED vars => ExitInv'
    BY DEF ExitInv, OneThread, ThreadGoneAfterWait, Alive, vars, threadVars, mainVars
  <1>2. QED
    BY <1>1, ExitMain, ExitUser, ExitThread DEF Next, Terminated

(* On a profile switch and at the exit, the main thread goes on only when  *)
(* the xpnet thread is gone, so that two threads never work on the table.  *)
THEOREM StopProtocol ==
  ASSUME Calm PROVE Spec => [](OneThread /\ ThreadGoneAfterWait)
  <1>1. TypeInv /\ ExitInv /\ [Next]_vars => (TypeInv /\ ExitInv)'
    BY TypeNext, ExitNext
  <1>2. ExitInv => OneThread /\ ThreadGoneAfterWait
    BY DEF ExitInv
  <1>3. QED
    BY TypeInit, ExitInit, <1>1, <1>2, PTL DEF Spec

-----------------------------------------------------------------------------
(* The jobs                                                                *)

USE NSlotsAssumption DEF Slots, States, Flags, ThreadPCs, MainPCs

-----------------------------------------------------------------------------
(* Who may touch a slot                                                    *)

(* What a slot becomes by a step of the thread that holds it.              *)
Worked(before, after) ==
  \/ after = before
  \/ before = "SENDREADY" /\ after \in {"EMPTY", "SENT"}
  \/ before = "SENT" /\ after \in {"EMPTY", "RESPREADY"}

(* A thread changes the slot it holds only, and holds the one it takes.    *)
LEMMA ThreadSlots ==
  ASSUME TypeInv, OwnershipInv, NEW t \in Threads, Thread(t)
  PROVE  /\ \A s \in Slots : Worked(state[s], state'[s])
         /\ pc'[t] \in BusyPCs \ ServingPCs => state'[at'[t]] = "SENDREADY"
         /\ pc'[t] \in ServingPCs => state'[at'[t]] = "SENT"
         /\ pc'[t] \in ServingPCs \ {"request"} => item'[at'[t]] = serving'[t]
  <1> USE DEF TypeInv, TypeOK, IndexInv, OwnershipInv, BusyPCs, ServingPCs, Worked,
              Goto, NextSlot, Fail, slotVars, threadVars, mainVars, xhrVars
  <1>1. CASE UpdateFlags(t)
    BY <1>1 DEF UpdateFlags
  <1>2. CASE LoadFlags(t)
    BY <1>2 DEF LoadFlags
  <1>3. CASE StoreFlags(t)
    BY <1>3 DEF StoreFlags
  <1>4. CASE InetInitFails(t)
    BY <1>4 DEF InetInitFails
  <1>5. CASE ScanSlot(t)
    <2>1. at[t] \in Slots
      BY <1>5 DEF ScanSlot
    <2>2. CASE NextSlot(t, "scan") /\ UNCHANGED state
      BY <2>2
    <2>3. CASE /\ NextSlot(t, "scan")
               /\ state[at[t]] = "SENDREADY"
               /\ state' = [state EXCEPT ![at[t]] = "EMPTY"]
      BY <2>1, <2>3
    <2>4. CASE /\ Goto(t, "scan", "connect")
               /\ state[at[t]] = "SENDREADY"
               /\ UNCHANGED <<state, at>>
      BY <2>1, <2>4
    <2>5. QED
      BY <1>5, <2>2, <2>3, <2>4 DEF ScanSlot
  <1>6. CASE Connect(t)
    BY <1>6 DEF Connect
  <1>7. CASE PollApcon(t)
    BY <1>7 DEF PollApcon
  <1>8. CASE Claim(t)
    <2>1. at[t] \in Slots /\ state[at[t]] = "SENDREADY"
      <3>1. pc[t] = "claim"
        BY <1>8 DEF Claim
      <3>2. pc[t] \in BusyPCs \ ServingPCs
        BY <3>1
      <3>3. QED
        BY <3>2
    <2>2. pc'[t] = "claimed" /\ UNCHANGED <<state, at>>
      BY <1>8, <2>1 DEF Claim
    <2>3. QED
      BY <2>1, <2>2
  <1>9. CASE Claimed(t)
    <2>1. at[t] \in Slots /\ state[at[t]] = "SENDREADY"
      BY <1>9, SMTT(30) DEF Claimed
    <2>2. pc'[t] = "request" /\ at' = at /\ state' = [state EXCEPT ![at[t]] = "SENT"]
      BY <1>9 DEF Claimed
    <2>3. QED
      BY <2>1, <2>2
  <1>10. CASE Request(t)
    BY <1>10 DEF Request
  <1>11. CASE RecvFirst(t)
    BY <1>11 DEF RecvFirst
  <1>12. CASE RecvNothing(t)
    BY <1>12 DEF RecvNothing
  <1>13. CASE Recv(t)
    BY <1>13 DEF Recv
  <1>14. CASE RecvEnd(t)
    BY <1>14 DEF RecvEnd
  <1>15. CASE PutBack(t)
    BY <1>15 DEF PutBack
  <1>16. CASE Finish(t)
    BY <1>16 DEF Finish
  <1>17. CASE Finished(t)
    BY <1>17 DEF Finished
  <1>18. CASE EndScan(t)
    BY <1>18 DEF EndScan
  <1>19. QED
    BY <1>1, <1>2, <1>3, <1>4, <1>5, <1>6, <1>7, <1>8, <1>9, <1>10, <1>11, <1>12,
       <1>13, <1>14, <1>15, <1>16, <1>17, <1>18 DEF Thread

LEMMA OwnThread ==
  ASSUME TypeInv, OneThread, OwnershipInv, NEW t \in Threads, Thread(t)
  PROVE  OwnershipInv'
  <1>1. /\ t \in Alive
        /\ \A u \in Threads \ {t} : pc'[u] = pc[u]
        /\ UNCHANGED <<mpc, mi, item>>
    BY ThreadFrame
  <1>2. ASSUME NEW u \in Threads \ {t} PROVE pc'[u] \notin BusyPCs
    <2>1. u \notin Alive
      BY <1>1 DEF OneThread
    <2>2. pc[u] \notin BusyPCs
      BY <2>1 DEF Alive, AlivePCs, BusyPCs, ServingPCs
    <2>3. pc'[u] = pc[u]
      BY <1>1
    <2>4. QED
      BY <2>2, <2>3
  <1>3. mpc' = "callback" => state'[mi'] = "RESPREADY"
    <2>1. SUFFICES ASSUME mpc = "callback" PROVE state'[mi] = "RESPREADY"
      BY <1>1
    <2>2. mi \in Slots /\ state[mi] = "RESPREADY"
      BY <2>1 DEF OwnershipInv, TypeInv, TypeOK, IndexInv
    <2>3. Worked(state[mi], state'[mi])
      BY <2>2, ThreadSlots
    <2>4. QED
      BY <2>2, <2>3 DEF Worked
  <1>4. QED
    BY <1>2, <1>3, ThreadSlots DEF OwnershipInv, BusyPCs

(* A slot that no thread works on is changed by the main thread.           *)
Served(before, after) ==
  \/ after = before
  \/ before \in {"RESPREADY", "OBSOLETED"} /\ after = "EMPTY"

LEMMA OwnMain ==
  ASSUME TypeInv, ExitInv, OwnershipInv, Main
  PROVE  OwnershipInv'
  <1> USE DEF TypeInv, TypeOK, IndexInv, OwnershipInv, slotVars, threadVars, mainVars, xhrVars
  <1>1. ASSUME \A s \in Slots : Served(state[s], state'[s]),
               UNCHANGED <<item, threadVars>>,
               mpc' = "callback" => state'[mi'] = "RESPREADY"
        PROVE  OwnershipInv'
    <2>1. UNCHANGED <<pc, at, serving, item>>
      BY <1>1
    <2>2. ASSUME NEW t \in Threads, pc[t] \in BusyPCs PROVE state'[at[t]] = state[at[t]]
      <3>1. at[t] \in Slots /\ state[at[t]] \in {"SENDREADY", "SENT"}
        BY <2>2, SMTT(30)
      <3>2. Served(state[at[t]], state'[at[t]])
        BY <1>1, <3>1
      <3>3. QED
        BY <3>1, <3>2 DEF Served
    <2>3. QED
      BY <1>1, <2>1, <2>2 DEF BusyPCs
  <1>2. CASE DoQueue
    BY <1>1, <1>2 DEF DoQueue, Served
  <1>3. CASE CallBack
    BY <1>1, <1>3 DEF CallBack, Served
  <1>4. CASE CallBackReturn
    BY <1>1, <1>4 DEF CallBackReturn, Served
  <1>5. CASE SkipSlot
    BY <1>1, <1>5 DEF SkipSlot, Served
  <1>6. CASE QueueDone
    BY <1>1, <1>6 DEF QueueDone, Served
  <1>7. CASE SetExit
    BY <1>1, <1>7 DEF SetExit, Served
  <1>8. CASE WaitExit
    BY <1>1, <1>8 DEF WaitExit, AfterWait, Served
  <1>9. CASE MarkSlot
    <2>1. Alive = {}
      BY <1>9 DEF MarkSlot, ExitInv, ThreadGoneAfterWait
    <2>2. \A t \in Threads : pc'[t] \notin BusyPCs
      BY <1>9, <2>1 DEF MarkSlot, Alive, AlivePCs, BusyPCs, ServingPCs
    <2>3. QED
      BY <1>9, <2>2 DEF MarkSlot, BusyPCs
  <1>10. CASE MarkDone
    BY <1>1, <1>10 DEF MarkDone, Served
  <1>11. CASE StartThread
    <2>1. \A t \in Threads : pc'[t] \in {pc[t], "init"}
      BY <1>11 DEF StartThread
    <2>2. UNCHANGED <<state, item, at, serving>> /\ mpc' = "loop"
      BY <1>11 DEF StartThread
    <2>3. QED
      BY <2>1, <2>2 DEF BusyPCs, ServingPCs
  <1>12. CASE Disconnect
    BY <1>1, <1>12 DEF Disconnect, Served
  <1>13. QED
    BY <1>2, <1>3, <1>4, <1>5, <1>6, <1>7, <1>8, <1>9, <1>10, <1>11, <1>12 DEF Main

(* send() takes an empty slot, if any.                                     *)
LEMMA SendSlots ==
  ASSUME TypeInv, NEW r \in Reqs, Send(r)
  PROVE  /\ \/ UNCHANGED <<state, item, got>>
            \/ \E s \in Slots :
                 /\ state[s] = "EMPTY"
                 /\ state' = [state EXCEPT ![s] = "SENDREADY"]
                 /\ item' = [item EXCEPT ![s] = r]
                 /\ got' = [got EXCEPT ![s] = {}]
         /\ r \notin sent /\ sent' = sent \cup {r}
         /\ xhr' = [xhr EXCEPT ![Owner[r]] = "live"]
         /\ UNCHANGED <<pc, at, serving, mpc, mi, op, result, calls>>
  BY DEF Send, FirstEmpty, FillSlot, threadVars, mainVars

LEMMA OwnUser ==
  ASSUME TypeInv, OwnershipInv, User
  PROVE  OwnershipInv'
  <1> USE DEF TypeInv, TypeOK, IndexInv, OwnershipInv, slotVars, threadVars, mainVars, xhrVars
  <1>1. ASSUME NEW r \in Reqs, Send(r) PROVE OwnershipInv'
    <2>1. UNCHANGED <<pc, at, serving, mpc, mi>>
      BY <1>1, SendSlots
    <2>2. ASSUME NEW s \in Slots, state[s] # "EMPTY"
          PROVE  state'[s] = state[s] /\ item'[s] = item[s]
      <3>1. CASE UNCHANGED <<state, item, got>>
        BY <3>1
      <3>2. CASE \E u \in Slots : /\ state[u] = "EMPTY"
                                  /\ state' = [state EXCEPT ![u] = "SENDREADY"]
                                  /\ item' = [item EXCEPT ![u] = r]
        BY <2>2, <3>2
      <3>3. QED
        BY <1>1, <3>1, <3>2, SendSlots
    <2>3. ASSUME NEW t \in Threads, pc[t] \in BusyPCs
          PROVE  at[t] \in Slots /\ state[at[t]] # "EMPTY"
      BY <2>3 DEF BusyPCs
    <2>4. mpc = "callback" => mi \in Slots /\ state[mi] # "EMPTY"
      OBVIOUS
    <2>5. QED
      BY <2>1, <2>2, <2>3, <2>4 DEF BusyPCs
  <1>2. ASSUME NEW x \in Xhrs, Collect(x) PROVE OwnershipInv'
    BY <1>2 DEF Collect
  <1>3. CASE SelectWlanAp \/ SelectProfile \/ Quit
    BY <1>3 DEF SelectWlanAp, SelectProfile, Quit
  <1>4. QED
    BY <1>1, <1>2, <1>3 DEF User

LEMMA OwnInit == Init => OwnershipInv
  BY DEF Init, OwnershipInv, BusyPCs, ServingPCs

LEMMA OwnNext == TypeInv /\ ExitInv /\ OwnershipInv /\ [Next]_vars => OwnershipInv'
  <1>1. OwnershipInv /\ UNCHANGED vars => OwnershipInv'
    BY DEF OwnershipInv, vars, slotVars, threadVars, mainVars
  <1>2. QED
    BY <1>1, OwnMain, OwnUser, OwnThread DEF Next, Terminated, ExitInv

(* While the xpnet thread works for a request, its slot stays SENT and its *)
(* own, whatever scripts, menu and main loop do meanwhile.                 *)
THEOREM SlotStaysHeld ==
  ASSUME Calm PROVE Spec => []SlotHeld
  <1>1. TypeInv /\ ExitInv /\ OwnershipInv /\ [Next]_vars => (TypeInv /\ ExitInv /\ OwnershipInv)'
    BY TypeNext, ExitNext, OwnNext
  <1>2. OwnershipInv => SlotHeld
    BY DEF OwnershipInv, SlotHeld
  <1>3. QED
    BY TypeInit, ExitInit, OwnInit, <1>1, <1>2, PTL DEF Spec

-----------------------------------------------------------------------------
(* A taken slot stands for one accepted call of send()                     *)

LEMMA JobInit == Init => JobInv
  BY DEF Init, JobInv, Taken

(* Giving slots up disturbs no other job.                                  *)
LEMMA JobFrame ==
  ASSUME JobInv, UNCHANGED <<item, sent, calls>>,
         \A s \in Slots : state[s] = "EMPTY" => state'[s] = "EMPTY",
         \A s \in Slots : \/ state'[s] = "EMPTY"
                          \/ mpc' = mpc /\ mi' = mi
                          \/ mpc # "callback" \/ s # mi
  PROVE  JobInv'
  BY DEF JobInv, Taken

LEMMA JobThread ==
  ASSUME TypeInv, OwnershipInv, JobInv, NEW t \in Threads, Thread(t)
  PROVE  JobInv'
  <1>1. UNCHANGED <<mpc, mi, item, sent, calls>>
    BY ThreadFrame
  <1>2. \A s \in Slots : state[s] = "EMPTY" => state'[s] = "EMPTY"
    BY ThreadSlots DEF Worked
  <1>3. QED
    BY <1>1, <1>2, JobFrame

LEMMA JobMain ==
  ASSUME TypeInv, OwnershipInv, JobInv, Main
  PROVE  JobInv'
  <1> USE DEF slotVars, threadVars, mainVars, xhrVars
  <1>1. CASE DoQueue
    BY <1>1, JobFrame DEF DoQueue
  <1>2. CASE CallBack
    <2>1. mi \in Taken /\ mi \in Slots
      BY <1>2 DEF CallBack, Taken, TypeInv, TypeOK
    <2>2. item[mi] \in sent /\ item[mi] \in Reqs
      BY <2>1 DEF JobInv, TypeInv, TypeOK
    <2>3. calls[item[mi]] = 0
      BY <1>2, <2>1, <2>2 DEF CallBack, JobInv, TypeInv, TypeOK
    <2>4. Taken' = Taken /\ UNCHANGED <<item, sent, mi>> /\ mpc' = "callback"
      BY <1>2 DEF CallBack, Taken
    <2>5. /\ calls'[item[mi]] = 1
          /\ \A r \in Reqs \ {item[mi]} : calls'[r] = calls[r]
      BY <1>2, <2>2, <2>3 DEF CallBack, TypeInv, TypeOK
    <2>6. \A r \in Reqs : calls'[r] <= 1 /\ (calls'[r] > 0 => r \in sent')
      BY <2>2, <2>4, <2>5 DEF JobInv
    <2>7. ASSUME NEW s \in Taken, calls'[item[s]] > 0 PROVE s = mi
      <3>1. item[s] \in Reqs
        BY DEF JobInv, TypeInv, TypeOK
      <3>2. CASE item[s] = item[mi]
        BY <2>1, <3>2 DEF JobInv
      <3>3. CASE item[s] # item[mi]
        BY <1>2, <2>5, <2>7, <3>1, <3>3 DEF CallBack, JobInv
      <3>4. QED
        BY <3>2, <3>3
    <2>8. QED
      BY <2>4, <2>6, <2>7 DEF JobInv
  <1>3. CASE CallBackReturn
    <2>1. state' = [state EXCEPT ![mi] = "EMPTY"] /\ UNCHANGED <<item, sent, calls>>
      BY <1>3 DEF CallBackReturn
    <2>2. QED
      BY <2>1, JobFrame DEF TypeInv, TypeOK
  <1>4. CASE SkipSlot
    <2>1. mpc # "callback"
      BY <1>4 DEF SkipSlot
    <2>2. \A s \in Slots : state[s] = "EMPTY" => state'[s] = "EMPTY"
      BY <1>4 DEF SkipSlot, TypeInv, TypeOK
    <2>3. QED
      BY <1>4, <2>1, <2>2, JobFrame DEF SkipSlot
  <1>5. CASE QueueDone
    BY <1>5, JobFrame DEF QueueDone
  <1>6. CASE SetExit
    BY <1>6, JobFrame DEF SetExit
  <1>7. CASE WaitExit
    BY <1>7, JobFrame DEF WaitExit
  <1>8. CASE MarkSlot
    <2>1. mpc # "callback"
      BY <1>8 DEF MarkSlot
    <2>2. \A s \in Slots : state[s] = "EMPTY" => state'[s] = "EMPTY"
      BY <1>8 DEF MarkSlot, NeedReset, TypeInv, TypeOK
    <2>3. QED
      BY <1>8, <2>1, <2>2, JobFrame DEF MarkSlot
  <1>9. CASE MarkDone
    BY <1>9, JobFrame DEF MarkDone
  <1>10. CASE StartThread
    BY <1>10, JobFrame DEF StartThread
  <1>11. CASE Disconnect
    BY <1>11, JobFrame DEF Disconnect
  <1>12. QED
    BY <1>1, <1>2, <1>3, <1>4, <1>5, <1>6, <1>7, <1>8, <1>9, <1>10, <1>11 DEF Main

LEMMA JobUser ==
  ASSUME TypeInv, OwnershipInv, JobInv, User
  PROVE  JobInv'
  <1> USE DEF slotVars, threadVars, mainVars, xhrVars
  <1>1. ASSUME NEW r \in Reqs, Send(r) PROVE JobInv'
    <2>1. r \notin sent /\ sent' = sent \cup {r} /\ UNCHANGED <<mpc, mi, calls>>
      BY <1>1, SendSlots
    <2>2. CASE UNCHANGED <<state, item, got>>
      BY <2>1, <2>2 DEF JobInv, Taken
    <2>3. CASE \E s \in Slots : /\ state[s] = "EMPTY"
                                /\ state' = [state EXCEPT ![s] = "SENDREADY"]
                                /\ item' = [item EXCEPT ![s] = r]
      <3>1. PICK s \in Slots : /\ state[s] = "EMPTY"
                               /\ state' = [state EXCEPT ![s] = "SENDREADY"]
                               /\ item' = [item EXCEPT ![s] = r]
        BY <2>3
      <3>2. s \notin Taken /\ Taken' = Taken \cup {s}
        BY <3>1 DEF Taken, TypeInv, TypeOK
      <3>3. item'[s] = r /\ \A s2 \in Taken : item'[s2] = item[s2]
        BY <3>1, <3>2 DEF Taken, TypeInv, TypeOK
      <3>4. calls[r] = 0
        BY <2>1 DEF JobInv, TypeInv, TypeOK
      <3>5. QED
        BY <2>1, <3>2, <3>3, <3>4 DEF JobInv
    <2>4. QED
      BY <1>1, <2>2, <2>3, SendSlots
  <1>2. ASSUME NEW x \in Xhrs, Collect(x) PROVE JobInv'
    BY <1>2, JobFrame DEF Collect
  <1>3. CASE SelectWlanAp
    BY <1>3, JobFrame DEF SelectWlanAp
  <1>4. CASE SelectProfile
    BY <1>4, JobFrame DEF SelectProfile
  <1>5. CASE Quit
    BY <1>5, JobFrame DEF Quit
  <1>6. QED
    BY <1>1, <1>2, <1>3, <1>4, <1>5 DEF User

LEMMA JobNext ==
  TypeInv /\ OwnershipInv /\ JobInv /\ [Next]_vars => JobInv'
  <1>1. JobInv /\ UNCHANGED vars => JobInv'
    BY DEF JobInv, Taken, vars, slotVars, mainVars, xhrVars
  <1>2. QED
    BY <1>1, JobMain, JobUser, JobThread DEF Next, Terminated

(* A script's onreadystatechange is called at most once for each send(),   *)
(* whatever is thrown, canceled, restarted or sent from inside a callback. *)
THEOREM CalledAtMostOnce ==
  ASSUME Calm PROVE Spec => []CalledOnce
  <1> DEFINE Inv == TypeInv /\ ExitInv /\ OwnershipInv /\ JobInv
  <1>1. Init => Inv
    BY TypeInit, ExitInit, OwnInit, JobInit
  <1>2. Inv /\ [Next]_vars => Inv'
    BY TypeNext, ExitNext, OwnNext, JobNext
  <1>3. Inv => CalledOnce
    BY DEF JobInv, CalledOnce
  <1>4. QED
    <2> HIDE DEF Inv
    <2> QED
      BY <1>1, <1>2, <1>3, PTL DEF Spec

-----------------------------------------------------------------------------
(* Jobs of a deleted script context are gone before the next callback      *)

LEMMA LiveInit == Init => LiveInv
  BY DEF Init, LiveInv, NeedReset

(* A step that gives no slot new work, deletes no object and leaves the    *)
(* main thread where it is.                                                *)
LEMMA LiveFrame ==
  ASSUME LiveInv, UNCHANGED <<item, xhr>>,
         \A s \in Slots : state'[s] \in NeedReset => state[s] \in NeedReset,
         \/ UNCHANGED <<mpc, mi, op>>
         \/ /\ mpc \in {"loop", "queue", "callback", "start", "disconnect", "done"}
            /\ mpc' \in {"loop", "setExit"} => mi' = 0
            /\ mpc' \notin {"wait", "start"}
  PROVE  LiveInv'
  BY DEF LiveInv

LEMMA LiveThread ==
  ASSUME TypeInv, OwnershipInv, LiveInv, NEW t \in Threads, Thread(t)
  PROVE  LiveInv'
  <1>1. UNCHANGED <<mpc, mi, op, item, xhr>>
    BY ThreadFrame
  <1>2. \A s \in Slots : state'[s] \in NeedReset => state[s] \in NeedReset
    BY ThreadSlots DEF Worked, NeedReset
  <1>3. QED
    BY <1>1, <1>2, LiveFrame

LEMMA LiveMain ==
  ASSUME TypeInv, LiveInv, Main
  PROVE  LiveInv'
  <1> USE DEF TypeInv, TypeOK, slotVars, threadVars, mainVars, xhrVars
  <1>1. CASE DoQueue
    BY <1>1, LiveFrame DEF DoQueue
  <1>2. CASE CallBack
    BY <1>2, LiveFrame DEF CallBack
  <1>3. CASE CallBackReturn
    <2>1. \A s \in Slots : state'[s] \in NeedReset => state[s] \in NeedReset
      BY <1>3 DEF CallBackReturn, NeedReset
    <2>2. QED
      BY <1>3, <2>1, LiveFrame DEF CallBackReturn
  <1>4. CASE SkipSlot
    <2>1. \A s \in Slots : state'[s] \in NeedReset => state[s] \in NeedReset
      BY <1>4 DEF SkipSlot, NeedReset
    <2>2. QED
      BY <1>4, <2>1, LiveFrame DEF SkipSlot
  <1>5. CASE QueueDone
    BY <1>5, LiveFrame DEF QueueDone
  <1>6. CASE SetExit
    BY <1>6 DEF SetExit, LiveInv
  <1>7. CASE WaitExit
    BY <1>7 DEF WaitExit, AfterWait, LiveInv
  <1>8. CASE MarkSlot
    <2>1. mpc = "mark" /\ mpc' = "mark" /\ mi' = mi + 1 /\ UNCHANGED <<item, xhr, op>>
      BY <1>8 DEF MarkSlot
    <2>2. ASSUME NEW s \in Slots, state'[s] \in NeedReset
          PROVE  state[s] \in NeedReset /\ s # mi
      BY <1>8, <2>2 DEF MarkSlot, NeedReset
    <2>3. ASSUME NEW s \in Slots, state'[s] \in NeedReset
          PROVE  xhr[Owner[item[s]]] = "live" \/ s >= mi + 1
      BY <2>1, <2>2, <2>3 DEF LiveInv
    <2>4. QED
      BY <2>1, <2>3 DEF LiveInv
  <1>9. CASE MarkDone
    BY <1>9 DEF MarkDone, LiveInv
  <1>10. CASE StartThread
    BY <1>10 DEF StartThread, LiveInv
  <1>11. CASE Disconnect
    BY <1>11, LiveFrame DEF Disconnect
  <1>12. QED
    BY <1>1, <1>2, <1>3, <1>4, <1>5, <1>6, <1>7, <1>8, <1>9, <1>10, <1>11 DEF Main

LEMMA LiveUser ==
  ASSUME "collect" \notin Env, TypeInv, JobInv, LiveInv, User
  PROVE  LiveInv'
  <1> USE OwnerAssumption
      DEF TypeInv, TypeOK, slotVars, threadVars, mainVars, xhrVars
  <1>1. ASSUME NEW r \in Reqs, Send(r) PROVE LiveInv'
    <2>1. /\ xhr' = [xhr EXCEPT ![Owner[r]] = "live"]
          /\ UNCHANGED <<mpc, mi, op>>
          /\ mpc \in {"loop", "callback"}
      BY <1>1, SendSlots DEF Send
    <2>2. \A x \in Xhrs : xhr[x] = "live" => xhr'[x] = "live"
      BY <2>1
    <2>3. ASSUME NEW s \in Slots, state'[s] \in NeedReset
          PROVE  xhr'[Owner[item'[s]]] = "live"
      <3>1. CASE state[s] \in NeedReset /\ item'[s] = item[s]
        <4>1. item[s] \in Reqs
          BY <3>1 DEF JobInv, Taken, NeedReset
        <4>2. xhr[Owner[item[s]]] = "live"
          BY <2>1, <3>1 DEF LiveInv
        <4>3. QED
          BY <2>2, <3>1, <4>1, <4>2
      <3>2. CASE item'[s] = r
        BY <2>1, <3>2
      <3>3. (state[s] \in NeedReset /\ item'[s] = item[s]) \/ item'[s] = r
        <4>1. CASE UNCHANGED <<state, item, got>>
          BY <2>3, <4>1
        <4>2. CASE \E u \in Slots : /\ state[u] = "EMPTY"
                                    /\ state' = [state EXCEPT ![u] = "SENDREADY"]
                                    /\ item' = [item EXCEPT ![u] = r]
          BY <2>3, <4>2
        <4>3. QED
          BY <1>1, <4>1, <4>2, SendSlots
      <3>4. QED
        BY <3>1, <3>2, <3>3
    <2>4. QED
      BY <2>1, <2>3 DEF LiveInv
  <1>2. ASSUME NEW x \in Xhrs, Collect(x) PROVE LiveInv'
    BY <1>2 DEF Collect
  <1>3. CASE SelectWlanAp
    BY <1>3, LiveFrame DEF SelectWlanAp
  <1>4. CASE SelectProfile
    BY <1>4 DEF SelectProfile, LiveInv
  <1>5. CASE Quit
    BY <1>5 DEF Quit, LiveInv
  <1>6. QED
    BY <1>1, <1>2, <1>3, <1>4, <1>5 DEF User

LEMMA LiveNext ==
  ASSUME "collect" \notin Env
  PROVE  TypeInv /\ OwnershipInv /\ JobInv /\ LiveInv /\ [Next]_vars => LiveInv'
  <1>1. LiveInv /\ UNCHANGED vars => LiveInv'
    BY DEF LiveInv, vars, slotVars, mainVars, xhrVars
  <1>2. QED
    BY <1>1, LiveMain, LiveUser, LiveThread DEF Next, Terminated

(* Unless the collector takes an object with a job in the table, the       *)
(* object whose onreadystatechange is called exists: a profile switch      *)
(* deletes the objects at once and their jobs before the next callback.    *)
THEOREM CalledObjectExists ==
  ASSUME Calm, "collect" \notin Env PROVE Spec => []CallBackLive
  <1> DEFINE Inv == TypeInv /\ ExitInv /\ OwnershipInv /\ JobInv /\ LiveInv
  <1>1. Init => Inv
    BY TypeInit, ExitInit, OwnInit, JobInit, LiveInit
  <1>2. Inv /\ [Next]_vars => Inv'
    BY TypeNext, ExitNext, OwnNext, JobNext, LiveNext
  <1>3. Inv => CallBackLive
    BY DEF TypeInv, TypeOK, IndexInv, OwnershipInv, LiveInv, CallBackLive, NeedReset
  <1>4. QED
    <2> HIDE DEF Inv
    <2> QED
      BY <1>1, <1>2, <1>3, PTL DEF Spec

-----------------------------------------------------------------------------
(* Response bytes stay with their request                                  *)

LEMMA ResponseInit == Init => ResponseInv
  BY DEF Init, ResponseInv, NeedReset

(* A step that writes no response bytes and gives no slot new work.        *)
LEMMA ResponseFrame ==
  ASSUME ResponseInv, UNCHANGED <<item, got, result>>,
         \A s \in Slots : state'[s] \in NeedReset => state[s] \in NeedReset
  PROVE  ResponseInv'
  BY DEF ResponseInv

LEMMA ResponseThread ==
  ASSUME TypeInv, OwnershipInv, JobInv, ResponseInv, NEW t \in Threads, Thread(t)
  PROVE  ResponseInv'
  <1> USE DEF slotVars, threadVars, mainVars, xhrVars
  <1>1. \A s \in Slots : state'[s] \in NeedReset => state[s] \in NeedReset
    BY ThreadSlots DEF Worked, NeedReset
  <1>2. ASSUME pc[t] \in {"recvFirst", "recv", "putBack"}
        PROVE  /\ at[t] \in Slots /\ state[at[t]] = "SENT"
               /\ item[at[t]] = serving[t] /\ item[at[t]] \in Reqs
    <2>1. pc[t] \in ServingPCs \ {"request"} /\ pc[t] \in BusyPCs
      BY <1>2 DEF ServingPCs, BusyPCs
    <2>2. at[t] \in Slots /\ state[at[t]] = "SENT" /\ item[at[t]] = serving[t]
      BY <2>1 DEF TypeInv, TypeOK, IndexInv, OwnershipInv
    <2>3. item[at[t]] \in Reqs
      BY <2>2 DEF JobInv, Taken, TypeInv, TypeOK
    <2>4. QED
      BY <2>2, <2>3
  <1>3. ASSUME pc[t] \in {"recvFirst", "recv"}, UNCHANGED <<state, item, result>>,
               got' = [got EXCEPT ![at[t]] = @ \cup {serving[t]}]
        PROVE  ResponseInv'
    <2>1. ASSUME NEW s \in Slots, state[s] \in NeedReset PROVE got'[s] \subseteq {item[s]}
      <3>1. got[s] \subseteq {item[s]}
        BY <2>1 DEF ResponseInv
      <3>2. CASE s = at[t]
        BY <1>2, <1>3, <3>1, <3>2 DEF TypeInv, TypeOK
      <3>3. CASE s # at[t]
        BY <1>3, <3>1, <3>3 DEF TypeInv, TypeOK
      <3>4. QED
        BY <3>2, <3>3
    <2>2. QED
      BY <1>3, <2>1 DEF ResponseInv
  <1>4. CASE RecvFirst(t)
    <2>1. pc[t] = "recvFirst" /\ UNCHANGED <<state, item, result>>
      BY <1>4 DEF RecvFirst, Goto
    <2>2. CASE UNCHANGED got
      BY <1>1, <2>1, <2>2, ResponseFrame
    <2>3. CASE got' = [got EXCEPT ![at[t]] = @ \cup {serving[t]}]
      BY <1>3, <2>1, <2>3
    <2>4. QED
      BY <1>4, <2>2, <2>3 DEF RecvFirst
  <1>5. CASE Recv(t)
    BY <1>3, <1>5 DEF Recv
  <1>6. CASE PutBack(t)
    <2>1. pc[t] = "putBack" /\ UNCHANGED <<state, item, got>>
      BY <1>6 DEF PutBack, Goto
    <2>2. got[at[t]] \subseteq {item[at[t]]} /\ item[at[t]] \in Reqs
      BY <1>2, <2>1 DEF ResponseInv, NeedReset
    <2>3. result' = [result EXCEPT ![Owner[item[at[t]]]] = got[at[t]]]
      BY <1>6 DEF PutBack
    <2>4. ASSUME NEW x \in Xhrs, NEW r \in result'[x] PROVE r \in Reqs /\ Owner[r] = x
      <3>1. CASE x = Owner[item[at[t]]]
        BY <2>2, <2>3, <2>4, <3>1 DEF TypeInv, TypeOK
      <3>2. CASE x # Owner[item[at[t]]]
        BY <2>3, <2>4, <3>2 DEF ResponseInv, TypeInv, TypeOK
      <3>3. QED
        BY <3>1, <3>2
    <2>5. QED
      BY <2>1, <2>4 DEF ResponseInv
  <1>7. CASE UpdateFlags(t) \/ LoadFlags(t) \/ StoreFlags(t) \/ InetInitFails(t)
    BY <1>1, <1>7, ResponseFrame DEF UpdateFlags, LoadFlags, StoreFlags, InetInitFails
  <1>8. CASE ScanSlot(t) \/ Connect(t) \/ PollApcon(t) \/ Claim(t) \/ Claimed(t)
    BY <1>1, <1>8, ResponseFrame DEF ScanSlot, Connect, PollApcon, Claim, Claimed
  <1>9. CASE Request(t) \/ RecvNothing(t) \/ RecvEnd(t) \/ Finish(t) \/ Finished(t)
    BY <1>1, <1>9, ResponseFrame DEF Request, RecvNothing, RecvEnd, Finish, Finished
  <1>10. CASE EndScan(t)
    BY <1>1, <1>10, ResponseFrame DEF EndScan
  <1>11. QED
    BY <1>4, <1>5, <1>6, <1>7, <1>8, <1>9, <1>10 DEF Thread

LEMMA ResponseMain ==
  ASSUME TypeInv, ResponseInv, Main
  PROVE  ResponseInv'
  <1> USE DEF slotVars, threadVars, mainVars, xhrVars
  <1>1. UNCHANGED <<item, got, result>>
    BY DEF Main, DoQueue, CallBack, CallBackReturn, SkipSlot, QueueDone, SetExit,
           WaitExit, MarkSlot, MarkDone, StartThread, Disconnect
  <1>2. ASSUME NEW s \in Slots, state'[s] \in NeedReset PROVE state[s] \in NeedReset
    <2>1. CASE UNCHANGED state
      BY <1>2, <2>1
    <2>2. CASE CallBackReturn
      BY <1>2, <2>2 DEF CallBackReturn, NeedReset, TypeInv, TypeOK
    <2>3. CASE SkipSlot
      BY <1>2, <2>3 DEF SkipSlot, NeedReset, TypeInv, TypeOK
    <2>4. CASE MarkSlot
      BY <1>2, <2>4 DEF MarkSlot, NeedReset, TypeInv, TypeOK
    <2>5. QED
      BY <2>1, <2>2, <2>3, <2>4
         DEF Main, DoQueue, CallBack, QueueDone, SetExit, WaitExit, MarkDone,
             StartThread, Disconnect
  <1>3. QED
    BY <1>1, <1>2, ResponseFrame

LEMMA ResponseUser ==
  ASSUME TypeInv, ResponseInv, User
  PROVE  ResponseInv'
  <1> USE DEF slotVars, threadVars, mainVars, xhrVars
  <1>1. ASSUME NEW r \in Reqs, Send(r) PROVE ResponseInv'
    <2>1. UNCHANGED result
      BY <1>1, SendSlots
    <2>2. CASE UNCHANGED <<state, item, got>>
      BY <2>1, <2>2, ResponseFrame
    <2>3. CASE \E s \in Slots : /\ state[s] = "EMPTY"
                                /\ state' = [state EXCEPT ![s] = "SENDREADY"]
                                /\ item' = [item EXCEPT ![s] = r]
                                /\ got' = [got EXCEPT ![s] = {}]
      BY <2>1, <2>3 DEF ResponseInv, TypeInv, TypeOK
    <2>4. QED
      BY <1>1, <2>2, <2>3, SendSlots
  <1>2. CASE SelectWlanAp \/ SelectProfile \/ Quit
    BY <1>2, ResponseFrame DEF SelectWlanAp, SelectProfile, Quit
  <1>3. ASSUME NEW x \in Xhrs, Collect(x) PROVE ResponseInv'
    BY <1>3, ResponseFrame DEF Collect
  <1>4. QED
    BY <1>1, <1>2, <1>3 DEF User

LEMMA ResponseNext ==
  TypeInv /\ OwnershipInv /\ JobInv /\ ResponseInv /\ [Next]_vars => ResponseInv'
  <1>1. ResponseInv /\ UNCHANGED vars => ResponseInv'
    BY DEF ResponseInv, vars, slotVars, xhrVars
  <1>2. QED
    BY <1>1, ResponseMain, ResponseUser, ResponseThread DEF Next, Terminated

(* When every send() is made on an object of its own, a script finds bytes *)
(* of no other response in the object it is called for.                    *)
THEOREM ResponsesNeverMix ==
  ASSUME Calm, \A r1, r2 \in Reqs : Owner[r1] = Owner[r2] => r1 = r2
  PROVE  Spec => []OwnResponse
  <1> DEFINE Inv == TypeInv /\ ExitInv /\ OwnershipInv /\ JobInv /\ ResponseInv
  <1>1. Init => Inv
    BY TypeInit, ExitInit, OwnInit, JobInit, ResponseInit
  <1>2. Inv /\ [Next]_vars => Inv'
    BY TypeNext, ExitNext, OwnNext, JobNext, ResponseNext
  <1>3. Inv => OwnResponse
    <2>1. SUFFICES ASSUME Inv, NEW s \in Slots, state[s] = "RESPREADY"
                   PROVE  got[s] \subseteq {item[s]} /\ result[Owner[item[s]]] \subseteq {item[s]}
      BY DEF OwnResponse
    <2>2. got[s] \subseteq {item[s]} /\ item[s] \in Reqs /\ Owner[item[s]] \in Xhrs
      BY <2>1, OwnerAssumption DEF ResponseInv, JobInv, Taken, NeedReset, TypeInv, TypeOK
    <2>3. ASSUME NEW r \in result[Owner[item[s]]] PROVE r = item[s]
      BY <2>1, <2>2 DEF ResponseInv
    <2>4. QED
      BY <2>2, <2>3
  <1>4. QED
    <2> HIDE DEF Inv
    <2> QED
      BY <1>1, <1>2, <1>3, PTL DEF Spec

-----------------------------------------------------------------------------
(* XpNet implements XpJobs                                                 *)

HIDE DEF Flags, ThreadPCs, MainPCs

(* A script that is called has been counted.                               *)
CallInv == mpc = "callback" => calls[item[mi]] > 0

(* The invariants the simulation needs.                                    *)
JobsInv == TypeInv /\ ExitInv /\ OwnershipInv /\ JobInv /\ CallInv

-----------------------------------------------------------------------------
(* The mapping: the phase of a request is told by the slot that is taken   *)
(* for it, if there is one.                                                *)

Job(s) ==
  IF mpc = "callback" /\ mi = s THEN "calling"
  ELSE IF state[s] \in {"SENDREADY", "SENT"} THEN "queued"
  ELSE IF state[s] = "RESPREADY" THEN "ready"
  ELSE IF state[s] = "OBSOLETED" THEN "obsolete" ELSE "free"

Over(r) == IF calls[r] > 0 THEN "called" ELSE "lost"

LEMMA CallingSlot ==
  ASSUME JobsInv, mpc = "callback"
  PROVE  mi \in Taken /\ state[mi] = "RESPREADY"
  BY DEF JobsInv, TypeInv, TypeOK, IndexInv, OwnershipInv, Taken

LEMMA PhaseTaken ==
  ASSUME JobsInv, NEW s \in Taken
  PROVE  /\ item[s] \in Reqs /\ item[s] \in sent
         /\ Phase[item[s]] = Job(s) /\ Holder[s] = item[s]
  <1> DEFINE r == item[s]
  <1>1. s \in Slots /\ state[s] # "EMPTY" /\ state[s] \in States /\ r \in Reqs /\ r \in sent
    BY DEF JobsInv, TypeInv, TypeOK, JobInv, Taken
  <1>2. Calling(r) <=> mpc = "callback" /\ mi = s
    BY CallingSlot DEF Calling, JobsInv, JobInv
  <1>3. \A S \in SUBSET (States \ {"EMPTY"}) : InTable(r, S) <=> state[s] \in S
    <2> SUFFICES ASSUME NEW S \in SUBSET (States \ {"EMPTY"})
                 PROVE  InTable(r, S) <=> state[s] \in S
      OBVIOUS
    <2>1. ASSUME NEW u \in Slots, item[u] = r, state[u] \in S PROVE u = s
      BY <2>1 DEF Taken, JobsInv, JobInv
    <2>2. QED
      BY <1>1, <2>1 DEF InTable
  <1>4. /\ InTable(r, {"SENDREADY", "SENT"}) <=> state[s] \in {"SENDREADY", "SENT"}
        /\ InTable(r, {"RESPREADY"}) <=> state[s] = "RESPREADY"
        /\ InTable(r, {"OBSOLETED"}) <=> state[s] = "OBSOLETED"
    BY <1>3
  <1>5. Holder[s] = r
    BY <1>1 DEF Holder
  <1> HIDE DEF r
  <1>6. Phase[r] = Job(s)
    BY <1>1, <1>2, <1>4 DEF Phase, Job
  <1>7. QED
    BY <1>1, <1>5, <1>6 DEF r

LEMMA PhaseOver ==
  ASSUME JobsInv, NEW r \in sent, \A s \in Taken : item[s] # r
  PROVE  r \in Reqs /\ Phase[r] = Over(r)
  <1>1. r \in Reqs
    BY DEF JobsInv, TypeInv, TypeOK
  <1>2. ~Calling(r)
    BY CallingSlot DEF Calling
  <1>3. \A S : "EMPTY" \notin S => ~InTable(r, S)
    BY DEF InTable, Taken
  <1>4. /\ ~InTable(r, {"SENDREADY", "SENT"}) /\ ~InTable(r, {"RESPREADY"})
        /\ ~InTable(r, {"OBSOLETED"})
    BY <1>3
  <1>5. QED
    BY <1>1, <1>2, <1>4 DEF Phase, Over

(* The same in the state after a step.                                     *)
PhaseRight ==
  /\ \A s \in Taken : Phase[item[s]] = Job(s)
  /\ \A r \in sent : (\A s \in Taken : item[s] # r) => Phase[r] = Over(r)

LEMMA PhaseAfter == JobsInv' => PhaseRight'
  <1>1. JobsInv => PhaseRight
    BY PhaseTaken, PhaseOver DEF PhaseRight
  <1>2. QED
    BY <1>1, PTL

LEMMA PhaseNew ==
  ASSUME NEW r \in Reqs, r \notin sent
  PROVE  Phase[r] = "new"
  BY DEF Phase

LEMMA HolderFree ==
  ASSUME NEW s \in Slots, s \notin Taken
  PROVE  Holder[s] = None
  BY DEF Holder, Taken

(* A slot is free in the promise when it is EMPTY.                         *)
LEMMA HolderNone ==
  ASSUME JobsInv, NEW s \in Slots
  PROVE  Holder[s] = None <=> state[s] = "EMPTY"
  <1>1. s \in Taken => item[s] \in Reqs
    BY PhaseTaken
  <1>2. QED
    BY <1>1, NoneAssumption DEF Holder, Taken

LEMMA MapDomains ==
  /\ Holder = [s \in Slots |-> Holder[s]]
  /\ Phase = [r \in Reqs |-> Phase[r]]
  BY DEF Holder, Phase

-----------------------------------------------------------------------------
(* What a step that touches at most one job does to the promise            *)

(* A request whose slot is not touched keeps its phase.                    *)
LEMMA PhaseStays ==
  ASSUME JobsInv, JobsInv', NEW q \in Reqs, q \in sent' <=> q \in sent, calls'[q] = calls[q],
         \A u \in Slots :
           u \in Taken /\ item[u] = q => u \in Taken' /\ item'[u] = q /\ Job(u)' = Job(u),
         \A u \in Slots : u \in Taken' /\ item'[u] = q => u \in Taken /\ item[u] = q
  PROVE  Phase'[q] = Phase[q]
  <1>1. CASE q \notin sent
    <2>1. Phase[q] = "new"
      BY <1>1, PhaseNew
    <2>2. (q \notin sent)' => (Phase[q] = "new")'
      BY DEF Phase
    <2>3. QED
      BY <1>1, <2>1, <2>2
  <1>2. CASE \E u \in Taken : item[u] = q
    <2>1. PICK u \in Taken : item[u] = q
      BY <1>2
    <2>2. u \in Slots /\ u \in Taken' /\ item'[u] = q /\ Job(u)' = Job(u)
      BY <2>1 DEF Taken
    <2>3. Phase[q] = Job(u)
      BY <2>1, PhaseTaken
    <2>4. Phase'[item'[u]] = Job(u)'
      BY <2>2, PhaseAfter DEF PhaseRight
    <2>5. QED
      BY <2>2, <2>3, <2>4
  <1>3. CASE q \in sent /\ \A u \in Taken : item[u] # q
    <2>1. q \in sent' /\ \A u \in Taken' : item'[u] # q
      BY <1>3 DEF Taken
    <2>2. Phase[q] = Over(q)
      BY <1>3, PhaseOver
    <2>3. Phase'[q] = Over(q)'
      BY <2>1, PhaseAfter DEF PhaseRight
    <2>4. QED
      BY <2>2, <2>3 DEF Over
  <1>4. QED
    BY <1>1, <1>2, <1>3

(* A step that moves no job on.                                            *)
LEMMA NoJobStep ==
  ASSUME JobsInv, JobsInv', UNCHANGED <<item, sent, calls>>,
         \A u \in Slots : state'[u] = "EMPTY" <=> state[u] = "EMPTY",
         \A u \in Taken : Job(u)' = Job(u)
  PROVE  UNCHANGED <<Holder, Phase>>
  <1>1. Taken' = Taken
    BY DEF Taken
  <1>2. Holder' = Holder
    BY DEF Holder
  <1>3. \A q \in Reqs : Phase'[q] = Phase[q]
    BY <1>1, PhaseStays
  <1>4. Phase' = Phase
    BY <1>3 DEF Phase
  <1>5. QED
    BY <1>2, <1>4

(* A step that moves on the job of slot s.                                 *)
LEMMA OneJobStep ==
  ASSUME JobsInv, JobsInv', NEW s \in Taken, UNCHANGED <<item, sent>>,
         \A u \in Slots \ {s} : state'[u] = state[u],
         \A u \in Slots \ {s} :
           (mpc' = "callback" /\ mi' = u) <=> (mpc = "callback" /\ mi = u),
         \A q \in Reqs \ {item[s]} : calls'[q] = calls[q]
  PROVE  /\ item[s] \in Reqs /\ Holder[s] = item[s] /\ Phase[item[s]] = Job(s)
         /\ state'[s] # "EMPTY" =>
              /\ Holder' = Holder
              /\ Phase' = [Phase EXCEPT ![item[s]] = Job(s)']
         /\ state'[s] = "EMPTY" =>
              /\ Holder' = [Holder EXCEPT ![s] = None]
              /\ Phase' = [Phase EXCEPT ![item[s]] = Over(item[s])']
  <1>1. /\ item[s] \in Reqs /\ item[s] \in sent
        /\ Holder[s] = item[s] /\ Phase[item[s]] = Job(s)
    BY PhaseTaken
  <1>2. s \in Slots /\ state[s] # "EMPTY"
    BY DEF Taken
  <1>3. \A u \in Slots \ {s} : (u \in Taken' <=> u \in Taken) /\ Job(u)' = Job(u)
    BY DEF Taken, Job
  <1>4. ASSUME NEW q \in Reqs \ {item[s]} PROVE Phase'[q] = Phase[q]
    <2>1. \A u \in Slots : item[u] = q => u # s
      OBVIOUS
    <2>2. QED
      BY <1>3, <2>1, PhaseStays
  <1>5. state'[s] # "EMPTY" => Phase'[item[s]] = Job(s)'
    <2>1. state'[s] # "EMPTY" => s \in Taken'
      BY <1>2 DEF Taken
    <2>2. s \in Taken' => Phase'[item'[s]] = Job(s)'
      BY PhaseAfter DEF PhaseRight
    <2>3. QED
      BY <2>1, <2>2
  <1>6. state'[s] = "EMPTY" => Phase'[item[s]] = Over(item[s])'
    <2>1. \A u \in Taken : item[u] = item[s] => u = s
      BY DEF JobsInv, JobInv
    <2>2. state'[s] = "EMPTY" => \A u \in Taken' : item'[u] # item[s]
      BY <1>3, <2>1 DEF Taken
    <2>3. QED
      BY <1>1, <2>2, PhaseAfter DEF PhaseRight
  <1>7. ASSUME NEW v, Phase'[item[s]] = v PROVE Phase' = [Phase EXCEPT ![item[s]] = v]
    <2>1. Phase = [q \in Reqs |-> Phase[q]]
      BY MapDomains
    <2>2. Phase' = [q \in Reqs |-> Phase'[q]]
      BY DEF Phase
    <2>3. QED
      BY <1>1, <1>4, <1>7, <2>1, <2>2
  <1>8. /\ state'[s] # "EMPTY" => Holder' = Holder
        /\ state'[s] = "EMPTY" => Holder' = [Holder EXCEPT ![s] = None]
    BY <1>2 DEF Holder
  <1>9. QED
    BY <1>1, <1>5, <1>6, <1>7, <1>8

-----------------------------------------------------------------------------
(* Every step is a step of the promise, or none                            *)

JobStep == Jobs!JobNext \/ UNCHANGED <<Holder, Phase>>

(* A job is given up, answered or sent off by a thread.                    *)
LEMMA ThreadOneSlot ==
  ASSUME NEW t \in Threads, Thread(t)
  PROVE  state' = state \/ \E v : state' = [state EXCEPT ![at[t]] = v]
  BY DEF Thread, UpdateFlags, LoadFlags, StoreFlags, InetInitFails, ScanSlot, Connect,
         PollApcon, Claim, Claimed, Request, RecvFirst, RecvNothing, Recv, RecvEnd,
         PutBack, Finish, Finished, EndScan, slotVars

LEMMA ThreadSteps ==
  ASSUME JobsInv, JobsInv', NEW t \in Threads, Thread(t)
  PROVE  JobStep
  <1>1. UNCHANGED <<mpc, mi, item, sent, calls>>
    BY ThreadFrame DEF JobsInv
  <1>2. \A u \in Slots : Worked(state[u], state'[u])
    BY ThreadSlots DEF JobsInv
  <1>3. ASSUME NEW s \in Slots, state'[s] # state[s]
        PROVE  \A u \in Slots \ {s} : state'[u] = state[u]
    <2>1. state \in [Slots -> States]
      BY DEF JobsInv, TypeInv, TypeOK
    <2>2. PICK v : state' = [state EXCEPT ![at[t]] = v]
      BY <1>3, ThreadOneSlot
    <2>3. s = at[t]
      BY <1>3, <2>1, <2>2
    <2>4. QED
      BY <2>1, <2>2, <2>3
  <1>4. CASE \A u \in Slots : state'[u] = "EMPTY" <=> state[u] = "EMPTY"
    <2>1. CASE \A u \in Slots : Job(u)' = Job(u)
      <3>1. \A u \in Taken : Job(u)' = Job(u)
        BY <2>1 DEF Taken
      <3>2. QED
        BY <1>1, <1>4, <3>1, NoJobStep DEF JobStep
    <2>2. CASE \E u \in Slots : Job(u)' # Job(u)
      <3>1. PICK s \in Slots : Job(s)' # Job(s)
        BY <2>2
      <3>2. state[s] = "SENT" /\ state'[s] = "RESPREADY"
        BY <1>1, <1>2, <1>4, <3>1 DEF Worked, Job
      <3>3. s \in Taken /\ Job(s) = "queued" /\ Job(s)' = "ready"
        BY <1>1, <3>1, <3>2, CallingSlot DEF Taken, Job
      <3>4. \A u \in Slots \ {s} : state'[u] = state[u]
        BY <1>3, <3>2
      <3>5. /\ item[s] \in Reqs /\ Phase[item[s]] = "queued" /\ Holder' = Holder
            /\ Phase' = [Phase EXCEPT ![item[s]] = "ready"]
        BY <1>1, <3>2, <3>3, <3>4, OneJobStep
      <3>6. Jobs!Answer(item[s])
        BY <3>5 DEF Jobs!Answer, Jobs!Change
      <3>7. QED
        BY <3>5, <3>6 DEF JobStep, Jobs!JobNext
    <2>3. QED
      BY <2>1, <2>2
  <1>5. CASE \E u \in Slots : state'[u] = "EMPTY" /\ state[u] # "EMPTY"
    <2>1. PICK s \in Slots : state'[s] = "EMPTY" /\ state[s] # "EMPTY"
      BY <1>5
    <2>2. state[s] \in {"SENDREADY", "SENT"}
      BY <1>2, <2>1 DEF Worked
    <2>3. s \in Taken /\ Job(s) = "queued" /\ ~(mpc = "callback" /\ mi = s)
      BY <2>1, <2>2, CallingSlot DEF Taken, Job
    <2>4. \A u \in Slots \ {s} : state'[u] = state[u]
      BY <1>3, <2>1
    <2>5. Over(item[s])' = "lost"
      <3>1. ~(calls[item[s]] > 0)
        BY <2>3 DEF JobsInv, JobInv
      <3>2. QED
        BY <1>1, <3>1 DEF Over
    <2>6. /\ item[s] \in Reqs /\ Holder[s] = item[s] /\ Phase[item[s]] = "queued"
          /\ Holder' = [Holder EXCEPT ![s] = None]
          /\ Phase' = [Phase EXCEPT ![item[s]] = "lost"]
      BY <1>1, <2>1, <2>3, <2>4, <2>5, OneJobStep
    <2>7. Jobs!Give(item[s], s)
      BY <2>6 DEF Jobs!Give, Jobs!Leave, Jobs!Change
    <2>8. QED
      BY <2>6, <2>7 DEF JobStep, Jobs!JobNext
  <1>6. \A u \in Slots : state[u] = "EMPTY" => state'[u] = "EMPTY"
    BY <1>2 DEF Worked
  <1>7. QED
    BY <1>4, <1>5, <1>6

LEMMA MainSteps ==
  ASSUME JobsInv, JobsInv', Main
  PROVE  JobStep
  <1> USE DEF slotVars, threadVars, mainVars, xhrVars
  <1>1. state \in [Slots -> States] /\ calls \in [Reqs -> Nat] /\ mi \in 0 .. NSlots
    BY DEF JobsInv, TypeInv, TypeOK
  <1>2. ASSUME UNCHANGED <<state, item, sent, calls>>,
               mpc # "callback", mpc' # "callback"
        PROVE  JobStep
    BY <1>2, NoJobStep DEF JobStep, Job
  <1>3. CASE DoQueue \/ QueueDone \/ SetExit \/ WaitExit \/ MarkDone
    BY <1>2, <1>3 DEF DoQueue, QueueDone, SetExit, WaitExit, AfterWait, MarkDone
  <1>4. CASE StartThread \/ Disconnect
    BY <1>2, <1>4 DEF StartThread, Disconnect
  <1>5. CASE CallBack
    <2>1. PICK s \in Slots : s = mi
      BY <1>1, <1>5 DEF CallBack
    <2>2. /\ mpc = "queue" /\ state[s] = "RESPREADY" /\ calls' = [calls EXCEPT ![item[s]] = @ + 1]
          /\ mpc' = "callback" /\ UNCHANGED <<state, item, sent, mi>>
      BY <1>5, <2>1 DEF CallBack
    <2>3. s \in Taken /\ Job(s) = "ready" /\ Job(s)' = "calling" /\ state'[s] # "EMPTY"
      BY <2>1, <2>2 DEF Taken, Job
    <2>4. \A q \in Reqs \ {item[s]} : calls'[q] = calls[q]
      BY <1>1, <2>2
    <2>5. /\ item[s] \in Reqs /\ Phase[item[s]] = "ready" /\ Holder' = Holder
          /\ Phase' = [Phase EXCEPT ![item[s]] = "calling"]
      BY <2>1, <2>2, <2>3, <2>4, OneJobStep
    <2>6. Jobs!Call(item[s])
      BY <2>5 DEF Jobs!Call, Jobs!Change
    <2>7. QED
      BY <2>5, <2>6 DEF JobStep, Jobs!JobNext
  <1>6. CASE CallBackReturn
    <2>1. PICK s \in Slots : s = mi /\ s \in Taken
      BY <1>6, CallingSlot DEF CallBackReturn, Taken
    <2>2. /\ mpc = "callback" /\ mpc' # "callback" /\ UNCHANGED <<item, sent, calls>>
          /\ state' = [state EXCEPT ![s] = "EMPTY"]
      BY <1>6, <2>1 DEF CallBackReturn
    <2>3. Job(s) = "calling"
      BY <2>1, <2>2 DEF Job
    <2>4. state'[s] = "EMPTY" /\ \A u \in Slots \ {s} : state'[u] = state[u]
      BY <1>1, <2>1, <2>2
    <2>5. Over(item[s])' = "called"
      BY <2>1, <2>2 DEF Over, JobsInv, CallInv
    <2>6. /\ item[s] \in Reqs /\ Holder[s] = item[s] /\ Phase[item[s]] = "calling"
          /\ Holder' = [Holder EXCEPT ![s] = None]
          /\ Phase' = [Phase EXCEPT ![item[s]] = "called"]
      BY <2>1, <2>2, <2>3, <2>4, <2>5, OneJobStep
    <2>7. Jobs!Return(item[s], s)
      BY <2>6 DEF Jobs!Return, Jobs!Leave, Jobs!Change
    <2>8. QED
      BY <2>6, <2>7 DEF JobStep, Jobs!JobNext
  <1>7. CASE SkipSlot
    <2>1. PICK s \in Slots : s = mi
      BY <1>1, <1>7 DEF SkipSlot
    <2>2. /\ mpc = "queue" /\ mpc' = "queue" /\ UNCHANGED <<item, sent, calls>>
          /\ state' = [state EXCEPT ![s] = IF @ = "OBSOLETED" THEN "EMPTY" ELSE @]
      BY <1>7, <2>1 DEF SkipSlot
    <2>3. CASE state[s] # "OBSOLETED"
      <3>1. state' = state
        BY <1>1, <2>2, <2>3
      <3>2. QED
        BY <1>2, <2>2, <3>1
    <2>4. CASE state[s] = "OBSOLETED"
      <3>1. s \in Taken /\ Job(s) = "obsolete"
        BY <2>2, <2>4 DEF Taken, Job
      <3>2. state'[s] = "EMPTY" /\ \A u \in Slots \ {s} : state'[u] = state[u]
        BY <1>1, <2>2, <2>4
      <3>3. Over(item[s])' = "lost"
        BY <2>2, <3>1 DEF Over, JobsInv, JobInv
      <3>4. /\ item[s] \in Reqs /\ Holder[s] = item[s] /\ Phase[item[s]] = "obsolete"
            /\ Holder' = [Holder EXCEPT ![s] = None]
            /\ Phase' = [Phase EXCEPT ![item[s]] = "lost"]
        BY <2>2, <3>1, <3>2, <3>3, OneJobStep
      <3>5. Jobs!Forget(item[s], s)
        BY <3>4 DEF Jobs!Forget, Jobs!Leave, Jobs!Change
      <3>6. QED
        BY <3>4, <3>5 DEF JobStep, Jobs!JobNext
    <2>5. QED
      BY <2>3, <2>4
  <1>8. CASE MarkSlot
    <2>1. PICK s \in Slots : s = mi
      BY <1>1, <1>8 DEF MarkSlot
    <2>2. mpc = "mark" /\ mpc' = "mark" /\ UNCHANGED <<item, sent, calls>>
      BY <1>8 DEF MarkSlot
    <2>3. CASE UNCHANGED state
      BY <1>2, <2>2, <2>3
    <2>4. CASE state[s] \in NeedReset /\ state' = [state EXCEPT ![s] = "OBSOLETED"]
      <3>1. s \in Taken /\ Job(s) \in {"queued", "ready"}
        BY <2>2, <2>4 DEF Taken, Job, NeedReset
      <3>2. state'[s] = "OBSOLETED" /\ \A u \in Slots \ {s} : state'[u] = state[u]
        BY <1>1, <2>4
      <3>3. Job(s)' = "obsolete"
        BY <2>2, <3>2 DEF Job
      <3>4. /\ item[s] \in Reqs /\ Phase[item[s]] \in {"queued", "ready"}
            /\ Holder' = Holder /\ Phase' = [Phase EXCEPT ![item[s]] = "obsolete"]
        BY <2>2, <3>1, <3>2, <3>3, OneJobStep
      <3>5. Jobs!Obsolete(item[s])
        BY <3>4 DEF Jobs!Obsolete, Jobs!Change
      <3>6. QED
        BY <3>4, <3>5 DEF JobStep, Jobs!JobNext
    <2>5. QED
      BY <1>8, <2>1, <2>3, <2>4 DEF MarkSlot
  <1>9. QED
    BY <1>3, <1>4, <1>5, <1>6, <1>7, <1>8 DEF Main

(* send() is accepted in a slot, or refused because there is none.         *)
LEMMA SendSteps ==
  ASSUME JobsInv, JobsInv', NEW r \in Reqs, Send(r)
  PROVE  JobStep
  <1>1. /\ r \notin sent /\ sent' = sent \cup {r} /\ UNCHANGED <<mpc, mi, calls>>
        /\ state \in [Slots -> States] /\ item \in [Slots -> Reqs \cup {None}]
    BY SendSlots DEF JobsInv, TypeInv, TypeOK
  <1>2. \A u \in Taken : item[u] # r
    BY <1>1 DEF JobsInv, JobInv
  <1>3. Phase[r] = "new"
    BY <1>1, PhaseNew
  <1>4. ASSUME NEW v, Phase'[r] = v, \A q \in Reqs \ {r} : Phase'[q] = Phase[q]
        PROVE  Phase' = [Phase EXCEPT ![r] = v]
    <2>1. Phase = [q \in Reqs |-> Phase[q]]
      BY MapDomains
    <2>2. Phase' = [q \in Reqs |-> Phase'[q]]
      BY DEF Phase
    <2>3. QED
      BY <1>4, <2>1, <2>2
  <1>5. CASE \E s \in Slots : FirstEmpty(s) /\ FillSlot(s, r)
    <2>1. PICK s \in Slots :
            /\ state[s] = "EMPTY"
            /\ state' = [state EXCEPT ![s] = "SENDREADY"]
            /\ item' = [item EXCEPT ![s] = r]
      BY <1>5 DEF FirstEmpty, FillSlot
    <2>2. s \notin Taken /\ s \in Taken' /\ item'[s] = r /\ state'[s] = "SENDREADY"
      BY <1>1, <2>1 DEF Taken
    <2>3. ~(mpc = "callback" /\ mi = s)
      BY <2>2, CallingSlot
    <2>4. Job(s)' = "queued"
      BY <1>1, <2>2, <2>3 DEF Job
    <2>5. \A u \in Slots \ {s} :
            /\ state'[u] = state[u] /\ item'[u] = item[u]
            /\ (u \in Taken' <=> u \in Taken) /\ Job(u)' = Job(u)
      BY <1>1, <2>1 DEF Taken, Job
    <2>6. ASSUME NEW q \in Reqs \ {r} PROVE Phase'[q] = Phase[q]
      <3>1. q \in sent' <=> q \in sent
        BY <1>1
      <3>2. ASSUME NEW u \in Slots, u \in Taken, item[u] = q
            PROVE  u \in Taken' /\ item'[u] = q /\ Job(u)' = Job(u)
        BY <2>2, <2>5, <3>2
      <3>3. ASSUME NEW u \in Slots, u \in Taken', item'[u] = q
            PROVE  u \in Taken /\ item[u] = q
        BY <2>2, <2>5, <3>3
      <3>4. QED
        BY <1>1, <3>1, <3>2, <3>3, PhaseStays
    <2>7. Phase'[r] = "queued"
      BY <2>2, <2>4, PhaseAfter DEF PhaseRight
    <2>8. Phase' = [Phase EXCEPT ![r] = "queued"]
      BY <1>4, <2>6, <2>7
    <2>9. Holder[s] = None /\ Holder' = [Holder EXCEPT ![s] = r]
      BY <2>1, <2>2, <2>5 DEF Holder
    <2>10. Jobs!Accept(r, s)
      BY <1>3, <2>8, <2>9 DEF Jobs!Accept
    <2>11. QED
      BY <2>10 DEF JobStep, Jobs!JobNext
  <1>6. CASE (\A s \in Slots : state[s] # "EMPTY") /\ UNCHANGED <<state, item>>
    <2>1. Taken' = Taken /\ \A u \in Slots : Job(u)' = Job(u)
      BY <1>1, <1>6 DEF Taken, Job
    <2>2. ASSUME NEW q \in Reqs \ {r} PROVE Phase'[q] = Phase[q]
      BY <1>1, <1>6, <2>1, PhaseStays
    <2>3. Phase'[r] = "lost"
      <3>1. Over(r)' = "lost"
        BY <1>1 DEF Over, JobsInv, JobInv
      <3>2. r \in sent' /\ \A u \in Taken' : item'[u] # r
        BY <1>1, <1>2, <1>6, <2>1
      <3>3. QED
        BY <3>1, <3>2, PhaseAfter DEF PhaseRight
    <2>4. Phase' = [Phase EXCEPT ![r] = "lost"]
      BY <1>4, <2>2, <2>3
    <2>5. Holder' = Holder /\ \A s \in Slots : Holder[s] # None
      BY <1>6, HolderNone DEF Holder
    <2>6. Jobs!Refuse(r)
      BY <1>3, <2>4, <2>5 DEF Jobs!Refuse
    <2>7. QED
      BY <2>6 DEF JobStep, Jobs!JobNext
  <1>7. QED
    BY <1>5, <1>6 DEF Send

LEMMA UserSteps ==
  ASSUME JobsInv, JobsInv', User
  PROVE  JobStep
  <1>1. ASSUME UNCHANGED <<state, item, sent, calls, mi>>,
               mpc' = mpc \/ (mpc # "callback" /\ mpc' # "callback")
        PROVE  JobStep
    BY <1>1, NoJobStep DEF JobStep, Job
  <1>2. ASSUME NEW x \in Xhrs, Collect(x) PROVE JobStep
    BY <1>1, <1>2 DEF Collect, mainVars
  <1>3. CASE SelectWlanAp \/ SelectProfile \/ Quit
    BY <1>1, <1>3 DEF SelectWlanAp, SelectProfile, Quit, slotVars, mainVars, xhrVars
  <1>4. QED
    BY <1>2, <1>3, SendSteps DEF User

-----------------------------------------------------------------------------
(* The invariant of the simulation                                         *)

LEMMA CallNext ==
  TypeInv /\ OwnershipInv /\ JobInv /\ CallInv /\ [Next]_vars => CallInv'
  <1> SUFFICES ASSUME TypeInv, OwnershipInv, JobInv, CallInv, [Next]_vars, mpc' = "callback"
               PROVE  calls'[item'[mi']] > 0
    BY DEF CallInv
  <1> USE DEF slotVars, threadVars, mainVars, xhrVars
  <1>1. calls \in [Reqs -> Nat] /\ item \in [Slots -> Reqs \cup {None}] /\ mi \in 0 .. NSlots
    BY DEF TypeInv, TypeOK
  <1>2. CASE UNCHANGED <<mpc, mi, item, calls>>
    BY <1>2 DEF CallInv
  <1>3. CASE CallBack
    <2>1. /\ mi \in Slots /\ mi \in Taken /\ UNCHANGED <<mi, item>>
          /\ calls' = [calls EXCEPT ![item[mi]] = @ + 1]
      BY <1>1, <1>3 DEF CallBack, Taken
    <2>2. item[mi] \in Reqs
      BY <2>1 DEF JobInv, TypeInv, TypeOK
    <2>3. QED
      BY <1>1, <2>1, <2>2
  <1>4. ASSUME NEW r \in Reqs, Send(r) PROVE calls'[item'[mi']] > 0
    <2>1. mpc = "callback" /\ UNCHANGED <<mi, calls>> /\ mi \in Slots /\ state[mi] = "RESPREADY"
      BY <1>4, SendSlots DEF OwnershipInv, TypeInv, TypeOK, IndexInv
    <2>2. item'[mi] = item[mi]
      BY <1>1, <1>4, <2>1, SendSlots
    <2>3. QED
      BY <2>1, <2>2 DEF CallInv
  <1>5. ASSUME NEW x \in Xhrs, Collect(x) PROVE calls'[item'[mi']] > 0
    BY <1>2, <1>5 DEF Collect
  <1>6. ASSUME NEW t \in Threads, Thread(t) PROVE calls'[item'[mi']] > 0
    BY <1>2, <1>6, ThreadFrame
  <1>7. CASE UNCHANGED vars
    BY <1>2, <1>7 DEF vars
  <1>8. CASE SelectWlanAp
    BY <1>2, <1>8 DEF SelectWlanAp
  <1>9. QED
    BY <1>3, <1>4, <1>5, <1>6, <1>7, <1>8
       DEF Next, Main, User, Terminated, DoQueue, CallBackReturn, SkipSlot, QueueDone,
           SetExit, WaitExit, AfterWait, MarkSlot, MarkDone, StartThread, Disconnect,
           SelectProfile, Quit

-----------------------------------------------------------------------------
(* "call js with each found object" (xjse_xpnet.c): the table, the flags   *)
(* and the two threads keep the promises XpJobs makes to scripts.  A job   *)
(* is refused only when the table is full, it keeps its slot until it is   *)
(* over, and it is answered and called once and in this order, or given    *)
(* up, or forgotten after a profile switch, and never called then.         *)
THEOREM JobsImplemented ==
  ASSUME Calm
  PROVE  Spec => ImplementsJobs
  <1>1. Init => JobsInv
    <2>1. Init => CallInv
      BY DEF Init, CallInv
    <2>2. QED
      BY <2>1, TypeInit, ExitInit, OwnInit, JobInit DEF JobsInv
  <1>2. JobsInv /\ [Next]_vars => JobsInv'
    BY TypeNext, ExitNext, OwnNext, JobNext, CallNext DEF JobsInv
  <1>3. Init => Jobs!JobInit
    BY DEF Init, Jobs!JobInit, Holder, Phase
  <1>4. JobsInv /\ JobsInv' /\ [Next]_vars => [Jobs!JobNext]_(Jobs!jobVars)
    <2> SUFFICES ASSUME JobsInv, JobsInv', [Next]_vars
                 PROVE  JobStep
      BY DEF JobStep, Jobs!jobVars
    <2>1. CASE UNCHANGED vars
      <3>1. UNCHANGED <<Holder, Phase>>
        BY <2>1, NoJobStep DEF vars, slotVars, mainVars, xhrVars, Job
      <3>2. QED
        BY <3>1 DEF JobStep
    <2>2. QED
      BY <2>1, MainSteps, UserSteps, ThreadSteps DEF Next, Terminated
  <1>5. QED
    BY <1>1, <1>2, <1>3, <1>4, PTL DEF Spec, ImplementsJobs, Jobs!JobSpec
=============================================================================
