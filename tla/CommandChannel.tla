--------------------------- MODULE CommandChannel ---------------------------
(***************************************************************************)
(* The MQTT broker between the backend and the gate controller: the        *)
(* command topic (backend -> device, QoS 1) and the ACK topic (device ->   *)
(* backend).  The broker is not part of the repository; it is modelled     *)
(* from the way src/backend/src/gate/mqtt-gate-device.service.ts and       *)
(* src/firmware/src/mqtt/MqttManager.cpp use it.                           *)
(*                                                                         *)
(* A command is identified by its requestId and its issuedAt stamp, so a   *)
(* set of records holds the messages in flight.  QoS 1 is "at least once": *)
(* taking a command may leave a copy behind, at most MaxCopies times in a  *)
(* behaviour.  A message may be lost (the device connects with a clean     *)
(* session and its modem publishes ACKs with no delivery guarantee) and    *)
(* messages may be reordered.                                              *)
(***************************************************************************)
EXTENDS Naturals

CONSTANTS
    Rid,                \* request ids
    NoRid,              \* the empty request id
    MaxCopies           \* bound: QoS 1 redeliveries in one behaviour

ASSUME NoRidAssumption == NoRid \notin Rid
ASSUME MaxCopiesAssumption == MaxCopies \in Nat

Kind == {"open", "other", "malformed"}
ErrorCode == {"none", "BAD_PAYLOAD", "UNKNOWN_COMMAND", "COOLDOWN"}

\* answers is a history field: the issuedAt of the command that is answered.
Ack == [rid : Rid \cup {NoRid}, ok : BOOLEAN, errorCode : ErrorCode,
        answers : Nat]

VARIABLES
    cmds,               \* commands published and not yet taken by the device
    acks,               \* ACKs published and not yet taken by the backend
    copies              \* redeliveries so far

channelVars == <<cmds, acks, copies>>

ChannelInit == cmds = {} /\ acks = {} /\ copies = 0

PublishCommand(m) == cmds' = cmds \cup {m}

\* The device takes m; with QoS 1 a copy of it may arrive again later.
TakeCommand(m) ==
    /\ m \in cmds
    /\ \/ cmds' = cmds \ {m} /\ UNCHANGED copies
       \/ copies < MaxCopies /\ copies' = copies + 1 /\ UNCHANGED cmds

PublishToAcks(a) == acks' = acks \cup {a}

TakeAck(a) == a \in acks /\ acks' = acks \ {a}

LoseCommand == \E m \in cmds : cmds' = cmds \ {m} /\ UNCHANGED <<acks, copies>>

LoseAck == \E a \in acks : acks' = acks \ {a} /\ UNCHANGED <<cmds, copies>>
=============================================================================
