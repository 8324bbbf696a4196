----------------------------- MODULE MCSocketPool -----------------------------
(* Small instances of SocketPool for TLC. *)
EXTENDS SocketPool

CONSTANTS t1, t2, t3, t4, s1, s2

MCThreads3 == {t1, t2, t3}
MCThreads4 == {t1, t2, t3, t4}
MCSockets2 == {s1, s2}
=============================================================================
