---------------------------- MODULE MCAdminPage ----------------------------
(* Small instances of AdminPage and Terminals for TLC. *)
EXTENDS AdminPage, TLC

CONSTANTS t1, t2, s1, s2, u1, u2, d1, d2, r1, r2

FoundByRest == r1 :> {u1, u2} @@ r2 :> {u2}
=============================================================================
