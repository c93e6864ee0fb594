----------------------------- MODULE MCSessions -----------------------------
(* Small instances of Sessions for TLC. *)
EXTENDS Sessions, TLC

\* Requests are interchangeable, and so are devices.
SessionSymmetry == Permutations(Request) \cup Permutations(Device)
=============================================================================
