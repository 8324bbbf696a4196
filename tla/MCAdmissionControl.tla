--------------------------- MODULE MCAdmissionControl ---------------------------
(* Constant values to check AdmissionControl with. *)
EXTENDS AdmissionControl, TLC

CONSTANTS t1, t2, a1, a2

TwoThreads   == {t1, t2}
TwoAddresses == {a1, a2}

Limits(absolute, slowDown) == [absolute |-> absolute, slowDown |-> slowDown]

Default == Limits(3, 1)

\* No exceptions, and a stricter or a more generous limit for one address.
Files == {<<>>, a1 :> Limits(1, 0), a1 :> Limits(4, 4)}

Symmetry == Permutations(TwoThreads)
=============================================================================
