------------------------------- MODULE XpJobs -------------------------------
(***************************************************************************)
(* What the network layer promises to scripts, without threads, flags or   *)
(* connections: the abstract specification of XpNet.                       *)
(*                                                                         *)
(* A table holds at most one job per slot.  A job is refused only when the *)
(* table is full; an accepted job keeps its slot until it is over; it is   *)
(* answered at most once, its script is called at most once and only after *)
(* the answer; a job that a profile switch has made obsolete is never      *)
(* answered and never called.                                              *)
(***************************************************************************)
CONSTANTS Slots, Reqs, None

VARIABLES
  holder,     (* holder[s]: the request that occupies slot s, or None       *)
  phase       (* of each request                                            *)

jobVars == <<holder, phase>>

(* lost: refused, canceled, failed, or over without having been called.    *)
Phases == {"new", "queued", "ready", "calling", "called", "obsolete", "lost"}

JobTypeOK ==
  /\ holder \in [Slots -> Reqs \cup {None}]
  /\ phase \in [Reqs -> Phases]

JobInit ==
  /\ holder = [s \in Slots |-> None]
  /\ phase = [r \in Reqs |-> "new"]

Accept(r, s) ==
  /\ phase[r] = "new" /\ holder[s] = None
  /\ phase' = [phase EXCEPT ![r] = "queued"]
  /\ holder' = [holder EXCEPT ![s] = r]

Refuse(r) ==
  /\ phase[r] = "new"
  /\ \A s \in Slots : holder[s] # None
  /\ phase' = [phase EXCEPT ![r] = "lost"]
  /\ UNCHANGED holder

Change(r, from, to) ==
  /\ phase[r] = from
  /\ phase' = [phase EXCEPT ![r] = to]

(* The request in slot s is over, and the slot is free.                    *)
Leave(r, s, from, to) ==
  /\ Change(r, from, to)
  /\ holder[s] = r
  /\ holder' = [holder EXCEPT ![s] = None]

Answer(r) == Change(r, "queued", "ready") /\ UNCHANGED holder

Give(r, s) == Leave(r, s, "queued", "lost")

Call(r) == Change(r, "ready", "calling") /\ UNCHANGED holder

Return(r, s) == Leave(r, s, "calling", "called")

Obsolete(r) ==
  /\ Change(r, "queued", "obsolete") \/ Change(r, "ready", "obsolete")
  /\ UNCHANGED holder

Forget(r, s) == Leave(r, s, "obsolete", "lost")

JobNext ==
  \E r \in Reqs :
    \/ Refuse(r) \/ Answer(r) \/ Call(r) \/ Obsolete(r)
    \/ \E s \in Slots : Accept(r, s) \/ Give(r, s) \/ Return(r, s) \/ Forget(r, s)

JobSpec == JobInit /\ [][JobNext]_jobVars
=============================================================================
