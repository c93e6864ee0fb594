----------------------------- MODULE GateSystem -----------------------------
(***************************************************************************)
(* The whole path of an open request: the backend (GateBackend), the       *)
(* broker (CommandChannel) and the gate controller (GateControl).  The     *)
(* components share the channel and nothing else; each takes its own steps *)
(* and either may be restarted at any time.                                *)
(***************************************************************************)
EXTENDS CommandChannel, SequencesExt

CONSTANTS
    Call, FreshRid, RetryCount, None, MaxCrashes,
    Idle, Wrap, Cooldown, PulseMs, CacheSize, BootMs, MaxClock, MaxOpens,
    MaxBoots

VARIABLES
    pc, rid, attempt, outcome, answer, requests, pending, timers, publishing,
    isConnected, closing, gateLog, robbed, crashes,
    clock, lastOpenAtMs, dedupeCache, dedupeCacheIndex, dedupeCacheCount,
    connected, pulse, openedAt, history, bootMark, boots

\* The backend sends nothing but open commands.
Command == [rid : Rid, kind : {"open"}, issuedAt : 0 .. RetryCount]

\* What the two components assume of their constants.
ASSUME SystemAssumption ==
    /\ FreshRid \subseteq Rid /\ RetryCount \in Nat /\ MaxCrashes \in Nat
    /\ None \notin [call : Call, attempt : 0 .. RetryCount]
    /\ Idle \notin [cmd : Command, at : Nat]
    /\ Wrap \in Nat \ {0} /\ Cooldown \in Nat /\ PulseMs \in Nat
    /\ BootMs \in Nat \ {0} /\ MaxClock \in Nat
    /\ CacheSize \in Nat \ {0} /\ MaxOpens \in Nat /\ MaxBoots \in Nat

Backend == INSTANCE GateBackend WITH EnvAck <- Ack
Gate == INSTANCE GateControl

backendVars == <<pc, rid, attempt, outcome, answer, requests, pending, timers,
                 publishing, isConnected, closing, gateLog, robbed, crashes>>
gateVars == <<clock, lastOpenAtMs, dedupeCache, dedupeCacheIndex,
              dedupeCacheCount, connected, pulse, openedAt, history,
              bootMark, boots>>
vars == <<backendVars, gateVars, channelVars>>

Init == Backend!BackendInit /\ Gate!GateInit /\ ChannelInit

BackendStep == Backend!BackendStep /\ UNCHANGED gateVars

GateStep == Gate!GateStep /\ UNCHANGED backendVars

Loss == /\ LoseCommand \/ LoseAck
        /\ UNCHANGED <<backendVars, gateVars>>

Next == BackendStep \/ GateStep \/ Loss

Spec == Init /\ [][Next]_vars

-----------------------------------------------------------------------------
(* Properties *)

Opened == ToSet(history)

\* A success is never reported for a gate that did not open: neither to the
\* caller nor in GateLog, whatever is lost, duplicated, reordered, retried,
\* timed out or restarted (openByUser, openByAdminBackdoor).
SuccessMeansOpened ==
    /\ \A c \in Call : outcome[c] = "ok" => rid[c] \in Opened
    /\ \A row \in gateLog : row.status = "success" => row.rid \in Opened

\* The system implements GateSpec: opened is what the relay was pulsed for,
\* Memory the size of the controller's cache.
Promise == INSTANCE GateSpec
               WITH opened <- history, started <- bootMark,
                    Memory <- CacheSize,
                    Verdict <- Backend!Outcome \ {"none"}

ImplementsGateSpec == Promise!Spec
=============================================================================
