-------------------------- MODULE XpNetRefinement --------------------------
(* XpNet implements XpJobs.                                                *)
EXTENDS XpNet

(* The request a slot is taken by: an EMPTY slot's fields are leftovers.   *)
Holder == [s \in Slots |-> IF state[s] = "EMPTY" THEN None ELSE item[s]]

Calling(r) == mpc = "callback" /\ item[mi] = r

Phase ==
  [r \in Reqs |->
     CASE r \notin sent -> "new"
       [] r \in sent /\ Calling(r) -> "calling"
       [] r \in sent /\ ~Calling(r) /\ InTable(r, {"SENDREADY", "SENT"}) -> "queued"
       [] r \in sent /\ ~Calling(r) /\ InTable(r, {"RESPREADY"}) -> "ready"
       [] r \in sent /\ ~Calling(r) /\ InTable(r, {"OBSOLETED"}) -> "obsolete"
       [] OTHER -> IF calls[r] > 0 THEN "called" ELSE "lost"]

Jobs == INSTANCE XpJobs WITH holder <- Holder, phase <- Phase

(* XpNet keeps the promises of XpJobs: a job is refused only when the      *)
(* table is full, keeps its slot until it is over, and is answered and     *)
(* called in this order and once, or not at all.                           *)
ImplementsJobs == Jobs!JobSpec
=============================================================================
