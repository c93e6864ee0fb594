---------------------------- MODULE DuplicateAcks ----------------------------
(* GateSystem with a history of the ACKs that have settled an attempt.     *)
EXTENDS GateSystem

VARIABLE acked          \* the ACKs taken from the channel, with their calls

\* The ACKs this step of the backend takes for a pending request.
Taken == {[call |-> Backend!Lookup(a.rid).call, ack |-> a] :
              a \in {b \in acks \ acks' : Backend!Lookup(b.rid) # None}}

AckedNext ==
    \/ BackendStep /\ acked' = acked \cup Taken
    \/ (GateStep \/ Loss) /\ UNCHANGED acked

AckedSpec == Init /\ acked = {} /\ [][AckedNext]_<<vars, acked>>

\* The documented handling of duplicate ACKs: "Subsequent ACKs for the same
\* requestId are ignored (the requestId is removed from pending requests after
\* the first ACK)" (docs/mqtt-protocol.md).  A second copy of the ACK that
\* settled one attempt of a call must not settle its next one.
DuplicateAcksIgnored ==
    [][\A a \in acks :
           LET e == Backend!Lookup(a.rid) IN
           /\ Backend!HandleAck(a)
           /\ e # None /\ e.attempt # a.answers
           /\ [call |-> e.call, ack |-> a] \in acked
           => UNCHANGED <<pc, outcome>>]_vars
=============================================================================
