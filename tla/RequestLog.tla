------------------------------- MODULE RequestLog -------------------------------
(***************************************************************************)
(* What the request logger promises to the rest of the backend, without    *)
(* buffers, connections or transactions: a submitted request is pending    *)
(* until it is logged once or given up, and requests are logged in groups, *)
(* each group at once and in the order of submission.                      *)
(***************************************************************************)
EXTENDS Naturals, Sequences

VARIABLES
  submitted,   \* number of requests so far; request n is the n-th
  pending,     \* requests the logger still has
  logged,      \* requests in the database, in the order of commit
  givenUp      \* requests that will never be in the database

vars == <<submitted, pending, logged, givenUp>>

InSeq(q) == {q[i] : i \in DOMAIN q}
Increasing(q) == \A i, j \in DOMAIN q : i < j => q[i] < q[j]

Init ==
  /\ submitted = 0
  /\ pending = {}
  /\ logged = <<>>
  /\ givenUp = {}

Submit ==
  /\ submitted' = submitted + 1
  /\ \/ pending' = pending \cup {submitted'} /\ UNCHANGED givenUp
     \/ givenUp' = givenUp \cup {submitted'} /\ UNCHANGED pending
  /\ UNCHANGED logged

\* rows is what the step appends to the log.
Log ==
  LET rows == SubSeq(logged', Len(logged) + 1, Len(logged'))
  IN  /\ logged' = logged \o rows
      /\ Increasing(rows)
      /\ InSeq(rows) \subseteq pending
      /\ pending' = pending \ InSeq(rows)
      /\ UNCHANGED <<submitted, givenUp>>

GiveUp ==
  \E failed \in SUBSET pending :
    /\ pending' = pending \ failed
    /\ givenUp' = givenUp \cup failed
    /\ UNCHANGED <<submitted, logged>>

Next == Submit \/ Log \/ GiveUp

Spec == Init /\ [][Next]_vars
=============================================================================
