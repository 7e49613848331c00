------------------------------- MODULE RunLog -------------------------------
(***************************************************************************)
(* What the server promises the records of one application run: it accepts *)
(* them one after the other and stores them in the order it accepted them, *)
(* a bounded batch at a time, with none missing and none stored twice.  A   *)
(* run that ends in good order has stored every record it accepted; a run  *)
(* that breaks off keeps the prefix it had stored, which is what makes it  *)
(* possible to resume the run after that prefix.                           *)
(*                                                                         *)
(* A record is named by its place in the order of acceptance.              *)
(***************************************************************************)
EXTENDS Naturals, Sequences

CONSTANT BatchLimit    \* the most records one insert statement may carry

VARIABLES
  accepted,   \* how many records were accepted
  stored,     \* the rows of tracing_record, in the order they were inserted
  outcome     \* "running", "finished" or "broken"

logVars == <<accepted, stored, outcome>>

Init ==
  /\ accepted = 0
  /\ stored = <<>>
  /\ outcome = "running"

Accept ==
  /\ outcome = "running"
  /\ accepted' = accepted + 1
  /\ UNCHANGED <<stored, outcome>>

\* The next n records in the order of acceptance.
NextBatch(n) == [i \in 1..n |-> Len(stored) + i]

Store ==
  /\ outcome = "running"
  /\ \E n \in 1..BatchLimit :
       /\ Len(stored) + n <= accepted
       /\ stored' = stored \o NextBatch(n)
  /\ UNCHANGED <<accepted, outcome>>

Finish ==
  /\ outcome = "running"
  /\ Len(stored) = accepted
  /\ outcome' = "finished"
  /\ UNCHANGED <<accepted, stored>>

Break ==
  /\ outcome = "running"
  /\ outcome' = "broken"
  /\ UNCHANGED <<accepted, stored>>

Next == Accept \/ Store \/ Finish \/ Break

Spec == Init /\ [][Next]_logVars
=============================================================================
