-------------------------- MODULE MCClientSession --------------------------
(* Small instances of ClientSession for TLC. *)
EXTENDS ClientSession

CONSTANTS t1, t2, q1, q2
=============================================================================
