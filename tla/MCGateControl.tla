---------------------------- MODULE MCGateControl ----------------------------
(* Small instances of GateControl for TLC. *)
EXTENDS GateControl, TLC

CONSTANTS r1, r2, r3

Open(r) == [rid |-> r, kind |-> "open", issuedAt |-> 0]

\* Open commands with more request ids than the cache has slots, a command of
\* another kind and one that cannot be parsed.
AnyCommand ==
    {Open(r) : r \in Rid}
        \cup {[rid |-> r3, kind |-> "other", issuedAt |-> 0],
              [rid |-> NoRid, kind |-> "malformed", issuedAt |-> 0]}

\* The request ids no command of another kind carries are interchangeable.
RidSymmetry == Permutations(Rid \ {r3})

\* Bound: a behaviour with a reset has two opens at most, and ends soon after it.
ShortAfterReset == boots > 0 => clock =< 2 /\ Len(history) =< 2
=============================================================================
