----------------------------- MODULE TransferJobs -----------------------------
(***************************************************************************)
(* What the transfer service promises, without threads, locks or handles:  *)
(* jobs wait in order, at most Limit are under way, a job may be put back  *)
(* at the head a bounded number of times, and an ended job stays ended.    *)
(***************************************************************************)
EXTENDS Naturals, Sequences, SequencesExt, FiniteSets

CONSTANTS Job, Limit, Budget

VARIABLES
  waiting,    \* the jobs that wait, in the order they will start
  underway,   \* the jobs that have started
  ended,      \* the jobs that are over
  budget      \* how often a job may still be put back

vars == <<waiting, underway, ended, budget>>

Init == /\ waiting = <<>>
        /\ underway = {}
        /\ ended = {}
        /\ budget = [j \in Job |-> Budget]

Submit(j) ==
  /\ j \notin ToSet(waiting) \cup underway \cup ended
  /\ waiting' = Append(waiting, j)
  /\ UNCHANGED <<underway, ended, budget>>

(* The first n waiting jobs start together.                                *)
Start(n) ==
  /\ n <= Len(waiting)
  /\ underway' = underway \cup ToSet(SubSeq(waiting, 1, n))
  /\ Cardinality(underway') <= Limit
  /\ waiting' = SubSeq(waiting, n + 1, Len(waiting))
  /\ UNCHANGED <<ended, budget>>

(* A job is put back at the head of the line.                              *)
Retry(j) ==
  /\ j \in underway
  /\ budget[j] > 0
  /\ budget' = [budget EXCEPT ![j] = @ - 1]
  /\ underway' = underway \ {j}
  /\ waiting' = <<j>> \o waiting
  /\ UNCHANGED ended

End(j) ==
  /\ j \in underway
  /\ underway' = underway \ {j}
  /\ ended' = ended \cup {j}
  /\ UNCHANGED <<waiting, budget>>

Next == \/ \E j \in Job : Submit(j) \/ Retry(j) \/ End(j)
        \/ \E n \in 1 .. Limit : Start(n)

Spec == Init /\ [][Next]_vars
=============================================================================
