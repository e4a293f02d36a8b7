----------------------------- MODULE Retrievals -----------------------------
(***************************************************************************)
(* What the retrievals into one run folder promise, whatever happens to      *)
(* them: what was retrieved for a job stays, each copy under a number of its  *)
(* own; a job that has a copy gets another only in a retrieval that was asked  *)
(* to retrieve again; and there is one retrieval at a time.                   *)
(***************************************************************************)
EXTENDS Naturals

CONSTANTS
  Job,       \* the files that can be asked for
  Number     \* the numbers a copy can have

VARIABLES
  copies,    \* each job's copies: when one came, and the number it was given
  writer     \* the retrieval under way: "none", or what it is to retrieve

vars == <<copies, writer>>

Init ==
  /\ copies = [j \in Job |-> {}]
  /\ writer = "none"

Begin(what) ==
  /\ writer = "none"
  /\ writer' = what
  /\ UNCHANGED copies

(* One more copy of j, later than every other and under a number none of them has. *)
Keep(j) ==
  /\ writer = "again" \/ (writer = "missing" /\ copies[j] = {})
  /\ \E c \in copies'[j] :
       /\ c.number \in Number
       /\ \A d \in copies[j] : d.came < c.came /\ d.number # c.number
       /\ copies' = [copies EXCEPT ![j] = @ \cup {c}]
  /\ UNCHANGED writer

End ==
  /\ writer # "none"
  /\ writer' = "none"
  /\ UNCHANGED copies

Next ==
  \/ \E what \in {"missing", "again"} : Begin(what)
  \/ \E j \in Job : Keep(j)
  \/ End

Spec == Init /\ [][Next]_vars
=============================================================================
