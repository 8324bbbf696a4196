---------------------------- MODULE MCRequestLogger ----------------------------
(* Small instances of RequestLogger for TLC. *)
EXTENDS RequestLogger

NoneMalformed  == {}
LastMalformed  == {4}
=============================================================================
