------------------------------- MODULE XpNet -------------------------------
(***************************************************************************)
(* The network layer of Cyeonna (xjse_xpnet.c) and the part of             *)
(* XMLHttpRequest that uses it (xjse_xhr.c).                               *)
(*                                                                         *)
(* The main thread puts jobs into a fixed table of slots, looks for        *)
(* completed ones once per game loop and calls the script back; the xpnet  *)
(* thread connects to the access point, performs the HTTP request and      *)
(* marks the job completed.  Nothing is locked: the two threads            *)
(* communicate through the slots' state words and one word of flags.       *)
(* Switching the profile deletes the script contexts, stops the thread     *)
(* and starts a new one; leaving the program stops it for good.            *)
(***************************************************************************)
EXTENDS Naturals

CONSTANTS
  NSlots,     (* XPNETC_NMAXREQQITEMS, the size of the job table            *)
  Reqs,       (* the calls of XMLHttpRequest.send(), each made at most once *)
  Xhrs,       (* the XMLHttpRequest objects                                 *)
  Owner,      (* Owner[r]: the object whose send() is call r                *)
  Threads,    (* incarnations of the xpnet thread: a bound on the restarts  *)
  None,       (* no request                                                 *)
  Env         (* what the environment may do, see EnvKinds                  *)

(***************************************************************************)
(* "netFailure": access point, name lookup or socket may fail, and so may  *)
(*   pspSdkInetInit and the creation of a thread.                          *)
(* "earlyClose": the peer may close the connection without an answer.      *)
(* "slowNet": a network call may outlast the 4 s for which the main thread *)
(*   waits for the xpnet thread to exit.                                   *)
(* "tornFlags": the load and the store of a read-modify-write of the flags *)
(*   by the xpnet thread may be separated by a write of the main thread.   *)
(* "collect": the garbage collector may run and finalize an                *)
(*   XMLHttpRequest that the script has dropped; a queued job roots        *)
(*   nothing.                                                              *)
(***************************************************************************)
EnvKinds == {"netFailure", "earlyClose", "slowNet", "tornFlags", "collect"}

ASSUME NSlotsAssumption == NSlots \in Nat \ {0}
ASSUME OwnerAssumption == Owner \in [Reqs -> Xhrs]
ASSUME NoneAssumption == None \notin Reqs
ASSUME EnvAssumption == Env \subseteq EnvKinds

Slots == 0 .. NSlots - 1

States == {"EMPTY", "SENDREADY", "SENT", "RESPREADY", "OBSOLETED"}

(* Mutant: completed jobs are forgotten by the reset.                      *)
NeedResetUnanswered == {"SENDREADY", "SENT"}

NeedReset == {"SENDREADY", "SENT", "RESPREADY"}

Flags == {"EXIT", "INITDONE"}

ThreadPCs == {"none", "init", "initStore", "scan", "connect", "pollApcon",
              "claim", "claimed", "request", "recvFirst", "recv", "putBack",
              "finish", "finished", "exit", "exitStore", "dead"}

(* The thread has been started and has not returned.                       *)
AlivePCs == ThreadPCs \ {"none", "dead"}

(* The thread is working for the slot it has taken over with SENT.         *)
ServingPCs == {"request", "recvFirst", "recv", "putBack", "finish", "finished"}

(* The thread is in a call that lasts as long as the network takes.        *)
NetworkPCs == {"connect", "pollApcon", "request", "recvFirst", "recv"}

MainPCs == {"loop", "queue", "callback", "setExit", "wait", "mark", "start",
            "disconnect", "done"}

VARIABLES
  state,      (* XPNETREQQITEM.state of each slot                           *)
  item,       (* the call of send() the slot's fields were filled for       *)
  url,        (* pszurl: "set", "null", or "freed" under the slot           *)
  got,        (* calls whose response bytes pszresponsetext holds           *)
  flags,      (* XPNETCTX.flags                                             *)
  nap,        (* XPNETCTX.nap: 0 is offline                                 *)
  con,        (* XPNETCTX.napconstatus                                      *)
  pc,         (* of each xpnet thread                                       *)
  at,         (* i of its scan                                              *)
  serving,    (* the request whose url it has read                          *)
  reg,        (* the flags it has loaded                                    *)
  mpc,        (* of the main thread                                         *)
  mi,         (* i of its loop over the slots                               *)
  op,         (* what it stops the xpnet thread for                         *)
  sent,       (* calls of send() made so far                                *)
  xhr,        (* whether each object exists                                 *)
  result,     (* calls whose response the object's private data holds       *)
  calls       (* number of onreadystatechange calls made for each request   *)

slotVars == <<state, item, url, got>>
threadVars == <<pc, at, serving, reg>>
mainVars == <<mpc, mi, op>>
xhrVars == <<sent, xhr, result, calls>>
vars == <<slotVars, flags, nap, con, threadVars, mainVars, xhrVars>>

Alive == {t \in Threads : pc[t] \in AlivePCs}

-----------------------------------------------------------------------------
(* main() has called xjse_xpnet_init with access point 1.                  *)
Init ==
  /\ state = [s \in Slots |-> "EMPTY"]
  /\ item = [s \in Slots |-> None]
  /\ url = [s \in Slots |-> "null"]
  /\ got = [s \in Slots |-> {}]
  /\ flags = {}
  /\ nap = 1
  /\ con = "NOTCONN"
  /\ \E t \in Threads : pc = [u \in Threads |-> IF u = t THEN "init" ELSE "none"]
  /\ at = [t \in Threads |-> 0]
  /\ serving = [t \in Threads |-> None]
  /\ reg = [t \in Threads |-> {}]
  /\ mpc = "loop"
  /\ mi = 0
  /\ op = "none"
  /\ sent = {}
  /\ xhr = [x \in Xhrs |-> "fresh"]
  /\ result = [x \in Xhrs |-> {}]
  /\ calls = [r \in Reqs |-> 0]

-----------------------------------------------------------------------------
(* The main thread: scripts                                                *)

(* Mutant: a job that has been sent off does not count as taken.           *)
FirstEmptyOrSent(s) ==
  /\ state[s] \in {"EMPTY", "SENT"}
  /\ \A s2 \in Slots : s2 < s => state[s2] \notin {"EMPTY", "SENT"}

FirstEmpty(s) ==
  state[s] = "EMPTY" /\ \A s2 \in Slots : s2 < s => state[s2] # "EMPTY"

(* The urls of the jobs of X are freed: a slot holds the object's pointer. *)
FreeUrls(X) ==
  [s \in Slots |-> IF item[s] # None /\ url[s] = "set" /\ Owner[item[s]] \in X
                     THEN "freed" ELSE url[s]]

(* Objects in X are finalized: the private data and its url are freed.     *)
Finalize(X) ==
  /\ xhr' = [x \in Xhrs |-> IF x \in X THEN "freed" ELSE xhr[x]]
  /\ url' = FreeUrls(X)

(* Mutant: the slot is not cleared before its fields are set.              *)
FillSlotUncleared(s, r) ==
  /\ state' = [state EXCEPT ![s] = "SENDREADY"]
  /\ item' = [item EXCEPT ![s] = r]
  /\ url' = [FreeUrls({Owner[r]}) EXCEPT ![s] = "set"]
  /\ UNCHANGED got

(* xjse_xpnet_httpreq_send_queue clears the slot and sets its fields.      *)
FillSlot(s, r) ==
  /\ state' = [state EXCEPT ![s] = "SENDREADY"]
  /\ item' = [item EXCEPT ![s] = r]
  /\ url' = [FreeUrls({Owner[r]}) EXCEPT ![s] = "set"]
  /\ got' = [got EXCEPT ![s] = {}]

(***************************************************************************)
(* A script calls open() and send() on an object, from a timer or an event *)
(* handler or inside onreadystatechange.  open() frees the object's        *)
(* previous url, which a job of the same object still in the table shares. *)
(* send() fills the first empty slot; when there is none                   *)
(* xjse_xhr_send drops E_NOEMPTYREQQ and the script is told nothing.       *)
(* The search is one step: only the main thread fills slots.               *)
(***************************************************************************)
Send(r) ==
  /\ mpc \in {"loop", "callback"}
  /\ r \notin sent
  /\ xhr[Owner[r]] # "freed"
  /\ sent' = sent \cup {r}
  /\ xhr' = [xhr EXCEPT ![Owner[r]] = "live"]
  /\ \/ \E s \in Slots : FirstEmpty(s) /\ FillSlot(s, r)
     \/ /\ \A s \in Slots : state[s] # "EMPTY"
        /\ url' = FreeUrls({Owner[r]})
        /\ UNCHANGED <<state, item, got>>
  /\ UNCHANGED <<flags, nap, con, threadVars, mainVars, result, calls>>

(* The script drops its last reference to x and the collector runs.        *)
Collect(x) ==
  /\ "collect" \in Env
  /\ mpc \in {"loop", "callback"}
  /\ xhr[x] = "live"
  /\ mpc = "callback" => Owner[item[mi]] # x
  /\ Finalize({x})
  /\ UNCHANGED <<state, item, got, flags, nap, con, threadVars, mainVars,
                 sent, result, calls>>

(* The menu selects another access point, or none.                         *)
SelectWlanAp ==
  /\ mpc = "loop"
  /\ nap' = 1 - nap
  /\ UNCHANGED <<slotVars, flags, con, threadVars, mainVars, xhrVars>>

-----------------------------------------------------------------------------
(* The main thread: xjse_xpnet_do_queue                                    *)

(* Mutant: the pass begins with the second slot.                           *)
DoQueueFromOne ==
  /\ mpc = "loop"
  /\ mpc' = "queue"
  /\ mi' = 1
  /\ UNCHANGED <<slotVars, flags, nap, con, threadVars, op, xhrVars>>

DoQueue ==
  /\ mpc = "loop"
  /\ mpc' = "queue"
  /\ mi' = 0
  /\ UNCHANGED <<slotVars, flags, nap, con, threadVars, op, xhrVars>>

(* A completed job: onreadystatechange is entered, the slot stays taken.   *)
CallBack ==
  /\ mpc = "queue" /\ mi < NSlots
  /\ state[mi] = "RESPREADY"
  /\ mpc' = "callback"
  /\ calls' = [calls EXCEPT ![item[mi]] = @ + 1]
  /\ UNCHANGED <<slotVars, flags, nap, con, threadVars, mi, op, sent, xhr, result>>

(* Mutant: the slot is not emptied when the script has thrown.             *)
CallBackReturnKeeps ==
  /\ mpc = "callback"
  /\ \/ mpc' = "queue" /\ mi' = mi + 1 /\ state' = [state EXCEPT ![mi] = "EMPTY"]
     \/ mpc' = "loop" /\ mi' = 0 /\ UNCHANGED state
  /\ UNCHANGED <<item, url, got, flags, nap, con, threadVars, op, xhrVars>>

(* It returns; when it has thrown, the rest of the table is not looked at. *)
CallBackReturn ==
  /\ mpc = "callback"
  /\ state' = [state EXCEPT ![mi] = "EMPTY"]
  /\ \/ mpc' = "queue" /\ mi' = mi + 1
     \/ mpc' = "loop" /\ mi' = 0
  /\ UNCHANGED <<item, url, got, flags, nap, con, threadVars, op, xhrVars>>

SkipSlot ==
  /\ mpc = "queue" /\ mi < NSlots
  /\ state[mi] # "RESPREADY"
  /\ state' = [state EXCEPT ![mi] = IF @ = "OBSOLETED" THEN "EMPTY" ELSE @]
  /\ mi' = mi + 1
  /\ UNCHANGED <<item, url, got, flags, nap, con, threadVars, mpc, op, xhrVars>>

QueueDone ==
  /\ mpc = "queue" /\ mi = NSlots
  /\ mpc' = "loop" /\ mi' = 0
  /\ UNCHANGED <<slotVars, flags, nap, con, threadVars, op, xhrVars>>

-----------------------------------------------------------------------------
(* The main thread: profile switch (xjse_xpnet_reset) and exit             *)
(* (xjse_xpnet_cleanup)                                                    *)

(* cb_on_menuitem deletes every script context before it resets xpnet.     *)
SelectProfile ==
  /\ mpc = "loop"
  /\ \E t \in Threads : pc[t] = "none"       \* bound on the restarts
  /\ mpc' = "setExit" /\ op' = "reset"
  /\ Finalize({x \in Xhrs : xhr[x] = "live"})
  /\ UNCHANGED <<state, item, got, flags, nap, con, threadVars, mi, sent,
                 result, calls>>

Quit ==
  /\ mpc = "loop"
  /\ mpc' = "setExit" /\ op' = "cleanup"
  /\ UNCHANGED <<slotVars, flags, nap, con, threadVars, mi, xhrVars>>

SetExit ==
  /\ mpc = "setExit"
  /\ flags' = flags \cup {"EXIT"}
  /\ mpc' = "wait"
  /\ UNCHANGED <<slotVars, nap, con, threadVars, mi, op, xhrVars>>

AfterWait == IF op = "reset" THEN "mark" ELSE "disconnect"

(* Nobody is left to clear EXIT, or the thread hangs in a network call;    *)
(* the wait outlasts its other steps and its sleep of 400 ms.              *)
WaitTimesOut ==
  \/ Alive = {}
  \/ "slowNet" \in Env /\ \E t \in Threads : pc[t] \in NetworkPCs

(* Mutant: the wait has no timeout.                                        *)
WaitExitForever ==
  /\ mpc = "wait"
  /\ "EXIT" \notin flags
  /\ mpc' = AfterWait
  /\ UNCHANGED <<slotVars, flags, nap, con, threadVars, mi, op, xhrVars>>

(***************************************************************************)
(* xpnet_pollwait_flag: the flag has been cleared, or 40 polls have not    *)
(* seen it cleared.  Both return XJSE_SUCCESS.                             *)
(***************************************************************************)
WaitExit ==
  /\ mpc = "wait"
  /\ "EXIT" \notin flags \/ WaitTimesOut
  /\ mpc' = AfterWait
  /\ UNCHANGED <<slotVars, flags, nap, con, threadVars, mi, op, xhrVars>>

MarkSlot ==
  /\ mpc = "mark" /\ mi < NSlots
  /\ \/ /\ state[mi] \in NeedReset
        /\ state' = [state EXCEPT ![mi] = "OBSOLETED"]
        /\ url' = [url EXCEPT ![mi] = "null"]
     \/ /\ state[mi] \notin NeedReset
        /\ UNCHANGED <<state, url>>
  /\ mi' = mi + 1
  /\ UNCHANGED <<item, got, flags, nap, con, threadVars, mpc, op, xhrVars>>

MarkDone ==
  /\ mpc = "mark" /\ mi = NSlots
  /\ mpc' = "start" /\ mi' = 0
  /\ UNCHANGED <<slotVars, flags, nap, con, threadVars, op, xhrVars>>

(* The result is dropped by xjse_xpnet_reset and by its caller.            *)
StartThread ==
  /\ mpc = "start"
  /\ mpc' = "loop" /\ op' = "none"
  /\ \/ \E t \in Threads : pc[t] = "none" /\ pc' = [pc EXCEPT ![t] = "init"]
     \/ "netFailure" \in Env /\ UNCHANGED pc
  /\ UNCHANGED <<slotVars, flags, nap, con, at, serving, reg, mi, xhrVars>>

(* cleanup disconnects and frees the context.                              *)
Disconnect ==
  /\ mpc = "disconnect"
  /\ con' = "NOTCONN"
  /\ mpc' = "done"
  /\ UNCHANGED <<slotVars, flags, nap, threadVars, mi, op, xhrVars>>

(* The program has ended.                                                  *)
Terminated == mpc = "done" /\ UNCHANGED vars

-----------------------------------------------------------------------------
(* The xpnet thread                                                        *)

Goto(t, from, to) == pc[t] = from /\ pc' = [pc EXCEPT ![t] = to]

(* Mutant: the scan runs backwards.                                        *)
NextSlotBack(t, from) == Goto(t, from, "scan") /\ at' = [at EXCEPT ![t] = @ - 1]

(* On to the next slot of the scan.                                        *)
NextSlot(t, from) == Goto(t, from, "scan") /\ at' = [at EXCEPT ![t] = @ + 1]

(* Mutant: INITDONE is assigned instead of or-ed in.                       *)
UpdatedAssigns(how, f) ==
  IF how \in {"init", "initStore"} THEN {"INITDONE"}
  ELSE IF "EXIT" \in f THEN f \ {"EXIT"} ELSE f \cup {"EXIT"}

(* INITDONE is set on the way in, EXIT is toggled on the way out.          *)
Updated(how, f) ==
  IF how \in {"init", "initStore"} THEN f \cup {"INITDONE"}
  ELSE IF "EXIT" \in f THEN f \ {"EXIT"} ELSE f \cup {"EXIT"}

UpdateFlags(t) ==
  /\ Goto(t, "init", "scan") \/ Goto(t, "exit", "dead")
  /\ flags' = Updated(pc[t], flags)
  /\ UNCHANGED <<slotVars, nap, con, at, serving, reg, mainVars, xhrVars>>

LoadFlags(t) ==
  /\ "tornFlags" \in Env
  /\ Goto(t, "init", "initStore") \/ Goto(t, "exit", "exitStore")
  /\ reg' = [reg EXCEPT ![t] = flags]
  /\ UNCHANGED <<slotVars, flags, nap, con, at, serving, mainVars, xhrVars>>

StoreFlags(t) ==
  /\ Goto(t, "initStore", "scan") \/ Goto(t, "exitStore", "dead")
  /\ flags' = Updated(pc[t], reg[t])
  /\ UNCHANGED <<slotVars, nap, con, at, serving, reg, mainVars, xhrVars>>

(* goto failed: the thread returns and leaves EXIT as it is.               *)
Fail(t, from) == "netFailure" \in Env /\ Goto(t, from, "dead")

InetInitFails(t) ==
  /\ "INITDONE" \notin flags
  /\ Fail(t, "init")
  /\ UNCHANGED <<slotVars, flags, nap, con, at, serving, reg, mainVars, xhrVars>>

ScanSlot(t) ==
  /\ pc[t] = "scan" /\ at[t] < NSlots
  /\ \/ /\ state[at[t]] # "SENDREADY"
        /\ NextSlot(t, "scan")
        /\ UNCHANGED state
     \/ /\ state[at[t]] = "SENDREADY" /\ nap = 0      \* offline: canceled
        /\ state' = [state EXCEPT ![at[t]] = "EMPTY"]
        /\ NextSlot(t, "scan")
     \/ /\ state[at[t]] = "SENDREADY" /\ nap # 0
        /\ Goto(t, "scan", "connect")
        /\ UNCHANGED <<state, at>>
  /\ UNCHANGED <<item, url, got, flags, nap, con, serving, reg, mainVars, xhrVars>>

(* xpnet_apctl_connect, unless the connection is there.                    *)
Connect(t) ==
  /\ \/ /\ Goto(t, "connect", "pollApcon")
        /\ con' = IF con = "NOTCONN" THEN "ATTEMPT" ELSE con
     \/ /\ con = "NOTCONN"
        /\ Fail(t, "connect")
        /\ UNCHANGED con
  /\ UNCHANGED <<slotVars, flags, nap, at, serving, reg, mainVars, xhrVars>>

(* xpnet_pollwait_apcon                                                    *)
PollApcon(t) ==
  /\ \/ Goto(t, "pollApcon", "claim") /\ con' = "CONNED"
     \/ Fail(t, "pollApcon") /\ con' = "NOTCONN"
  /\ UNCHANGED <<slotVars, flags, nap, at, serving, reg, mainVars, xhrVars>>

(* The test and the store that takes the slot over are two steps.          *)
Claim(t) ==
  /\ pc[t] = "claim"
  /\ \/ /\ state[at[t]] = "OBSOLETED"
        /\ state' = [state EXCEPT ![at[t]] = "EMPTY"]
        /\ NextSlot(t, "claim")
     \/ /\ state[at[t]] # "OBSOLETED"
        /\ Goto(t, "claim", "claimed")
        /\ UNCHANGED <<state, at>>
  /\ UNCHANGED <<item, url, got, flags, nap, con, serving, reg, mainVars, xhrVars>>

Claimed(t) ==
  /\ Goto(t, "claimed", "request")
  /\ state' = [state EXCEPT ![at[t]] = "SENT"]
  /\ UNCHANGED <<item, url, got, flags, nap, con, at, serving, reg, mainVars, xhrVars>>

(***************************************************************************)
(* xjse_xpnet_httprequest reads the url, resolves the name, connects and   *)
(* sends the GET.  A null url ends the process, so only the other urls go  *)
(* on.  On a failure the slot is emptied and the thread ends.              *)
(***************************************************************************)
Request(t) ==
  /\ pc[t] = "request" /\ url[at[t]] # "null"
  /\ \/ /\ Goto(t, "request", "recvFirst")
        /\ serving' = [serving EXCEPT ![t] = item[at[t]]]
        /\ UNCHANGED state
     \/ /\ Fail(t, "request")
        /\ state' = [state EXCEPT ![at[t]] = "EMPTY"]
        /\ UNCHANGED serving
  /\ UNCHANGED <<item, url, got, flags, nap, con, at, reg, mainVars, xhrVars>>

(* The first packet is the header, with or without a part of the body.     *)
RecvFirst(t) ==
  /\ Goto(t, "recvFirst", "recv")
  /\ \/ got' = [got EXCEPT ![at[t]] = @ \cup {serving[t]}]
     \/ UNCHANGED got
  /\ UNCHANGED <<state, item, url, flags, nap, con, at, serving, reg, mainVars, xhrVars>>

(***************************************************************************)
(* The peer closes before the first byte: the data callback is not called  *)
(* with 0 bytes, and the request counts as done with its slot left SENT.   *)
(***************************************************************************)
RecvNothing(t) ==
  /\ "earlyClose" \in Env
  /\ NextSlot(t, "recvFirst")
  /\ UNCHANGED <<slotVars, flags, nap, con, serving, reg, mainVars, xhrVars>>

Recv(t) ==
  /\ pc[t] = "recv"
  /\ got' = [got EXCEPT ![at[t]] = @ \cup {serving[t]}]
  /\ UNCHANGED <<state, item, url, flags, nap, con, threadVars, mainVars, xhrVars>>

(* Mutant: the end of the response is not reported.                        *)
RecvEndSilent(t) ==
  /\ NextSlot(t, "recv")
  /\ UNCHANGED <<slotVars, flags, nap, con, serving, reg, mainVars, xhrVars>>

RecvEnd(t) ==
  /\ Goto(t, "recv", "putBack")
  /\ UNCHANGED <<slotVars, flags, nap, con, at, serving, reg, mainVars, xhrVars>>

(* xpnet_butback_httpresult, into the private data of the slot's object.   *)
PutBack(t) ==
  /\ Goto(t, "putBack", "finish")
  /\ result' = [result EXCEPT ![Owner[item[at[t]]]] = got[at[t]]]
  /\ UNCHANGED <<slotVars, flags, nap, con, at, serving, reg, mainVars, sent, xhr, calls>>

(* Again the test and the store are two steps.                             *)
Finish(t) ==
  /\ pc[t] = "finish"
  /\ \/ /\ state[at[t]] = "OBSOLETED"
        /\ state' = [state EXCEPT ![at[t]] = "EMPTY"]
        /\ NextSlot(t, "finish")
     \/ /\ state[at[t]] # "OBSOLETED"
        /\ Goto(t, "finish", "finished")
        /\ UNCHANGED <<state, at>>
  /\ UNCHANGED <<item, url, got, flags, nap, con, serving, reg, mainVars, xhrVars>>

Finished(t) ==
  /\ NextSlot(t, "finished")
  /\ state' = [state EXCEPT ![at[t]] = "RESPREADY"]
  /\ UNCHANGED <<item, url, got, flags, nap, con, serving, reg, mainVars, xhrVars>>

(* The scan is over: exit, or go offline after 5 s of silence, and sleep.  *)
EndScan(t) ==
  /\ at[t] = NSlots
  /\ \/ /\ "EXIT" \in flags
        /\ Goto(t, "scan", "exit")
        /\ UNCHANGED <<con, at>>
     \/ /\ "EXIT" \notin flags
        /\ pc[t] = "scan" /\ UNCHANGED pc
        /\ at' = [at EXCEPT ![t] = 0]
        /\ con' \in {con} \cup (IF con = "CONNED" THEN {"NOTCONN"} ELSE {})
  /\ UNCHANGED <<slotVars, flags, nap, serving, reg, mainVars, xhrVars>>

-----------------------------------------------------------------------------
Main ==
  \/ DoQueue \/ CallBack \/ CallBackReturn \/ SkipSlot \/ QueueDone
  \/ SetExit \/ WaitExit \/ MarkSlot \/ MarkDone \/ StartThread \/ Disconnect

User ==
  \/ \E r \in Reqs : Send(r)
  \/ \E x \in Xhrs : Collect(x)
  \/ SelectWlanAp \/ SelectProfile \/ Quit

Thread(t) ==
  \/ UpdateFlags(t) \/ LoadFlags(t) \/ StoreFlags(t) \/ InetInitFails(t)
  \/ ScanSlot(t) \/ Connect(t) \/ PollApcon(t) \/ Claim(t) \/ Claimed(t)
  \/ Request(t) \/ RecvFirst(t) \/ RecvNothing(t) \/ Recv(t) \/ RecvEnd(t)
  \/ PutBack(t) \/ Finish(t) \/ Finished(t) \/ EndScan(t)

Next == Main \/ User \/ Terminated \/ \E t \in Threads : Thread(t)

Spec == Init /\ [][Next]_vars

(***************************************************************************)
(* The main loop and the xpnet thread keep running: neither waits for a    *)
(* lock, and the operating system schedules both.  Scripts and the user    *)
(* owe nothing.                                                            *)
(***************************************************************************)
Fairness == WF_vars(Main) /\ \A t \in Threads : WF_vars(Thread(t))

FairSpec == Spec /\ Fairness

-----------------------------------------------------------------------------
(* Type invariant: every field of the shared context, of the threads and   *)
(* of the script objects stays in its range.                               *)
TypeOK ==
  /\ state \in [Slots -> States]
  /\ item \in [Slots -> Reqs \cup {None}]
  /\ url \in [Slots -> {"set", "null", "freed"}]
  /\ got \in [Slots -> SUBSET (Reqs \cup {None})]
  /\ flags \in SUBSET Flags
  /\ nap \in {0, 1}
  /\ con \in {"NOTCONN", "ATTEMPT", "CONNED"}
  /\ pc \in [Threads -> ThreadPCs]
  /\ at \in [Threads -> 0 .. NSlots]
  /\ serving \in [Threads -> Reqs \cup {None}]
  /\ reg \in [Threads -> SUBSET Flags]
  /\ mpc \in MainPCs
  /\ mi \in 0 .. NSlots
  /\ op \in {"none", "reset", "cleanup"}
  /\ sent \in SUBSET Reqs
  /\ xhr \in [Xhrs -> {"fresh", "live", "freed"}]
  /\ result \in [Xhrs -> SUBSET (Reqs \cup {None})]
  /\ calls \in [Reqs -> Nat]

(* Restarting on a profile switch never leaves two xpnet threads working   *)
(* on the same table (reset stops the old one before it starts another).   *)
OneThread == \A t, u \in Alive : t = u

(* "wait until thread exits" (xjse_xpnet_reset): when the main thread goes *)
(* on to mark the slots, to start another thread or to free the context,   *)
(* no xpnet thread is running.                                             *)
ThreadGoneAfterWait ==
  mpc \in {"mark", "start", "disconnect", "done"} => Alive = {}

(* While the xpnet thread performs a request, its slot stays SENT and is   *)
(* not given to another request, whatever scripts and menu do meanwhile.   *)
SlotHeld ==
  \A t \in Threads :
    /\ pc[t] \in ServingPCs => state[at[t]] = "SENT"
    /\ pc[t] \in ServingPCs \ {"request"} => item[at[t]] = serving[t]

(* A job that the main loop will hand to a script holds bytes of its own   *)
(* response only, in the slot and in the object the script will ask.       *)
OwnResponse ==
  \A s \in Slots :
    state[s] = "RESPREADY" =>
      got[s] \subseteq {item[s]} /\ result[Owner[item[s]]] \subseteq {item[s]}

(* onreadystatechange is called at most once per send().                   *)
CalledOnce == \A r \in Reqs : calls[r] <= 1

(* "call js with each found object" (xjse_xpnet.c, head): the object whose *)
(* onreadystatechange is called exists, although jobs of a profile that    *)
(* has been left may still be in the table.                                *)
CallBackLive == mpc = "callback" => xhr[Owner[item[mi]]] = "live"

(* "send back result data to xhr private object" (xjse_xpnet_cb_data): the *)
(* object the xpnet thread writes a response to exists.                    *)
PutBackLive ==
  \A t \in Threads : pc[t] = "putBack" => xhr[Owner[item[at[t]]]] = "live"

(* "this should have been done by thread" (xjse_xpnet_reset): when the     *)
(* wait is over, the thread has cleared EXIT for its successor.            *)
ExitClearedByThread == mpc \in {"mark", "start"} => "EXIT" \notin flags

(* "only sub thread does apcon and socket jobs" (xjse_xpnet.c, head): no   *)
(* step of the main thread connects or disconnects.                        *)
OnlyThreadConnects == [][Main => con' = con]_vars

InTable(r, S) == \E s \in Slots : item[s] = r /\ state[s] \in S

(* "sub thread only exec jobs and mark them completed" (xjse_xpnet.c,      *)
(* head): a queued job is completed, canceled or obsoleted sooner or later,*)
(* unless the program ends.                                                *)
JobCompletes ==
  \A r \in Reqs :
    InTable(r, {"SENDREADY", "SENT"}) ~>
      mpc = "done" \/ ~InTable(r, {"SENDREADY", "SENT"})

(* Every completed job is handed to its script, unless the profile is left *)
(* or the program ends first.                                              *)
AnswerDelivered ==
  \A r \in Reqs :
    InTable(r, {"RESPREADY"}) ~>
      calls[r] > 0 \/ InTable(r, {"OBSOLETED"}) \/ mpc = "done"

(* A profile switch and an exit never hang in the wait for the thread, not *)
(* even when the thread has died or is held up by the network.             *)
StopReturns == mpc = "setExit" ~> mpc \in {"loop", "done"}
=============================================================================
