----------------------------- MODULE RequestService -----------------------------
(***************************************************************************)
(* What the backend promises to httpd and to those who read the log, without *)
(* threads, sockets or a broker: a request is decided once and answered at   *)
(* most once; one that asks for it is logged at most once, and only after   *)
(* its decision; nothing is lost before a stop, and when the stop is        *)
(* complete the log has every answer that a client can have got.            *)
(***************************************************************************)
EXTENDS Sequences

CONSTANTS Requests, Intentional

VARIABLES
  place,    \* of each request: "unsent", "asked", "decided", "answered" or "lost"
  logged,   \* requests in the log
  phase     \* "serving", "stopping" or "stopped"

vars == <<place, logged, phase>>

InSeq(q) == {q[i] : i \in DOMAIN q}

Init ==
  /\ place = [r \in Requests |-> "unsent"]
  /\ logged = <<>>
  /\ phase = "serving"

Move(r, from, to) ==
  /\ place[r] = from
  /\ place' = [place EXCEPT ![r] = to]
  /\ UNCHANGED <<logged, phase>>

Ask(r)    == Move(r, "unsent", "asked")
Decide(r) == phase # "stopped" /\ Move(r, "asked", "decided")
Answer(r) == phase # "stopped" /\ Move(r, "decided", "answered")
Lose(r)   == phase = "stopping" /\ (Move(r, "asked", "lost") \/ Move(r, "decided", "lost"))

Log(r) ==
  /\ phase # "stopped"
  /\ r \in Intentional \ InSeq(logged)
  /\ place[r] \notin {"unsent", "asked"}
  /\ logged' = Append(logged, r)
  /\ UNCHANGED <<place, phase>>

Stop ==
  /\ phase = "serving"
  /\ phase' = "stopping"
  /\ UNCHANGED <<place, logged>>

Finish ==
  /\ phase = "stopping"
  /\ \A r \in Intentional : place[r] = "answered" => r \in InSeq(logged)
  /\ phase' = "stopped"
  /\ UNCHANGED <<place, logged>>

Next ==
  \/ \E r \in Requests : Ask(r) \/ Decide(r) \/ Answer(r) \/ Lose(r) \/ Log(r)
  \/ Stop \/ Finish

Spec == Init /\ [][Next]_vars
=============================================================================
