---------------------------- MODULE MCBackendServer ----------------------------
(* Constant values to check BackendServer with. *)
EXTENDS BackendServer

CONSTANTS w1, w2, r1, r2, none

TwoWorkers  == {w1, w2}
TwoRequests == {r1, r2}
Logged      == {r1}
=============================================================================
