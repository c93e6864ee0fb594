---------------------------- MODULE MCGateBackend ----------------------------
(* Small instances of GateBackend for TLC. *)
EXTENDS GateBackend, FiniteSets, TLC

CONSTANTS c1, c2, r1, r2

\* Calls are interchangeable.
CallSymmetry == Permutations(Call)

\* A positive and a negative ACK for the id of the users.
AnyAck == [rid : {r1}, ok : {TRUE}, errorCode : {"none"}, answers : {0}]
          \cup [rid : {r1}, ok : {FALSE}, errorCode : {"COOLDOWN"}, answers : {0}]

\* Bound: after a crash there is neither a retry nor a shutdown.
CrashOrRetry == crashes > 0 => ~closing /\ \A c \in Call : attempt[c] = 0

\* Bound: one command and one ACK on their way.  The backend never looks at cmds,
\* and an ACK may be published just before it is taken.
OneOnItsWay == Cardinality(cmds) < 2 /\ Cardinality(acks) < 2
=============================================================================
