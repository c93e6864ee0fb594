---------------------------- MODULE MCGateSystem ----------------------------
(* Small instances of GateSystem for TLC. *)
EXTENDS GateSystem, FiniteSets, TLC

CONSTANTS c1, c2, r1, r2, MaxTrouble

\* Calls are interchangeable, and so are the request ids the callers choose.
CallSymmetry == Permutations(Call) \cup Permutations(Rid \ FreshRid)

\* Bound: a behaviour has MaxTrouble of a retry, a crash of the backend and a
\* reset of the controller together, and a second call counts for two; every
\* message may be lost and a command redelivered in any of them.
Trouble ==
    2 * Cardinality({c \in Call : pc[c] # "idle"})
        + Cardinality({c \in Call : attempt[c] > 0}) + crashes + boots
            =< MaxTrouble + 2
=============================================================================
