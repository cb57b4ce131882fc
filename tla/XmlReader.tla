----------------------------- MODULE XmlReader -----------------------------
(***************************************************************************)
(* What reading a document promises: whatever the units it is read in, the *)
(* program is told a growing part of what the document means, and when it  *)
(* gets an answer it is the right one and it has been told all of it.      *)
(* A document is a text, what it means up to its first mistake, and the    *)
(* verdict on it: "ok", the error, or "cut" when it is the beginning of    *)
(* the document that means what is given.                                  *)
(***************************************************************************)
EXTENDS Integers, Sequences, SequencesExt

VARIABLES doc,     \* the document
          told,    \* what the program has been told
          answer   \* "none", "ok" or an error
vars == <<doc, told, answer>>

(* What is told is a sequence of events; neighbouring texts are one.       *)
IsText(ev) == ev[1] = "text"
PartOf(a, b) ==
  /\ Len(a) <= Len(b)
  /\ \A i \in 1..Len(a) :
       \/ a[i] = b[i]
       \/ i = Len(a) /\ IsText(a[i]) /\ IsText(b[i]) /\ IsPrefix(a[i][2], b[i][2])

Init == told = <<>> /\ answer = "none"
Tell ==
  /\ answer = "none"
  /\ PartOf(told, told') /\ PartOf(told', doc.meaning)
  /\ UNCHANGED <<doc, answer>>
Answer ==
  /\ answer = "none"
  /\ PartOf(told, told') /\ PartOf(told', doc.meaning)
  /\ IF doc.verdict = "cut" THEN answer' \notin {"none", "ok"} ELSE answer' = doc.verdict
  /\ doc.verdict = "ok" => told' = doc.meaning
  /\ UNCHANGED doc
Next == Tell \/ Answer
Spec == Init /\ [][Next]_vars
=============================================================================
