------------------------------ MODULE XpNetInv ------------------------------
(***************************************************************************)
(* The inductive invariants behind the safety properties of XpNet.  All    *)
(* but the first describe an environment in which a stop request is        *)
(* answered (no "slowNet") and a read-modify-write of the flags is one     *)
(* step (no "tornFlags").                                                  *)
(***************************************************************************)
EXTENDS XpNet

(* The thread has found a job in a slot and has not left the slot yet.     *)
BusyPCs == {"connect", "pollApcon", "claim", "claimed"} \cup ServingPCs

(* Indices are in range wherever the code indexes the table with them.     *)
IndexInv ==
  /\ \A t \in Threads : pc[t] \in BusyPCs => at[t] < NSlots
  /\ mpc = "callback" => mi < NSlots

TypeInv == TypeOK /\ IndexInv

(***************************************************************************)
(* How EXIT passes the word from thread to thread: only an exiting thread  *)
(* takes EXIT away, so once the main thread has set it, its absence means  *)
(* that the thread is gone.                                                *)
(***************************************************************************)
ExitInv ==
  /\ OneThread
  /\ ThreadGoneAfterWait
  /\ mpc = "wait" /\ "EXIT" \notin flags => Alive = {}
  /\ \A t \in Threads : pc[t] = "exit" => "EXIT" \in flags
  /\ \A t \in Threads : pc[t] \notin {"initStore", "exitStore"}

(* Who may touch a slot: the thread holds the SENDREADY or SENT slot it is *)
(* working on, the main thread the RESPREADY slot it is calling back for.  *)
OwnershipInv ==
  /\ \A t \in Threads :
       /\ pc[t] \in BusyPCs \ ServingPCs => state[at[t]] = "SENDREADY"
       /\ pc[t] \in ServingPCs => state[at[t]] = "SENT"
       /\ pc[t] \in ServingPCs \ {"request"} => item[at[t]] = serving[t]
  /\ mpc = "callback" => state[mi] = "RESPREADY"

Taken == {s \in Slots : state[s] # "EMPTY"}

(* A taken slot stands for one accepted call of send(), which no other     *)
(* slot stands for and whose script has been called only if it is being    *)
(* called now.                                                             *)
JobInv ==
  /\ \A s \in Taken : item[s] \in sent
  /\ \A s1, s2 \in Taken : item[s1] = item[s2] => s1 = s2
  /\ \A r \in Reqs : calls[r] <= 1 /\ (calls[r] > 0 => r \in sent)
  /\ \A s \in Taken : calls[item[s]] > 0 => mpc = "callback" /\ mi = s

(* Response bytes stay with the request, or at least with its object.      *)
ResponseInv ==
  /\ \A s \in Slots : state[s] \in NeedReset => got[s] \subseteq {item[s]}
  /\ \A x \in Xhrs : \A r \in result[x] : r \in Reqs /\ Owner[r] = x

(* Jobs of a deleted script context are in the table only until the        *)
(* profile switch has marked them.                                         *)
LiveInv ==
  /\ mpc \in {"loop", "setExit", "wait", "start"} => mi = 0
  /\ \A s \in Slots :
       state[s] \in NeedReset =>
         \/ xhr[Owner[item[s]]] = "live"
         \/ mpc \in {"setExit", "wait"} /\ op = "reset"
         \/ mpc = "mark" /\ s >= mi

SafetyInv == TypeInv /\ ExitInv /\ OwnershipInv /\ JobInv /\ ResponseInv /\ LiveInv
=============================================================================
