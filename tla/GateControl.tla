----------------------------- MODULE GateControl -----------------------------
(***************************************************************************)
(* The gate controller's command path (src/firmware): handleMqttCommand in *)
(* main.ino, the cooldown and the requestId cache of GateControl, and the  *)
(* relay pulse.  The firmware is one loop(); the handler runs to its end   *)
(* except for the delay() inside Relay::activatePulse, during which time   *)
(* passes, the MQTT session may drop and the board may be reset.  The      *)
(* handler is therefore one action per outcome, and the opening branch is  *)
(* two: BeginPulse up to the delay and EndPulse after it.                  *)
(*                                                                         *)
(* clock is the true time since boot; the code only sees Millis, its value *)
(* in a uint32_t of Wrap values.                                           *)
(***************************************************************************)
EXTENDS CommandChannel, Sequences

CONSTANTS
    Command,            \* commands that can be in the channel
    Idle,               \* no pulse in progress
    Wrap,               \* 2^32: the number of values of millis()
    Cooldown,           \* GATE_COOLDOWN_MS
    PulseMs,            \* RELAY_PULSE_MS
    CacheSize,          \* DEDUP_CACHE_SIZE
    BootMs,             \* millis() when the first command can be handled
    MaxClock,           \* bound: time since boot
    MaxOpens,           \* bound: pulses in one behaviour
    MaxBoots            \* bound: resets in one behaviour

ASSUME CommandAssumption ==
    Command \subseteq [rid : Rid \cup {NoRid}, kind : Kind, issuedAt : Nat]
ASSUME IdleAssumption == Idle \notin [cmd : Command, at : Nat]
ASSUME ClockAssumption ==
    /\ Wrap \in Nat \ {0} /\ Cooldown \in Nat /\ PulseMs \in Nat
    /\ BootMs \in Nat \ {0} /\ MaxClock \in Nat
ASSUME CacheAssumption ==
    CacheSize \in Nat \ {0} /\ MaxOpens \in Nat /\ MaxBoots \in Nat

VARIABLES
    clock,              \* true time since boot, in ms
    lastOpenAtMs,       \* uint32_t, 0 for "never opened"
    dedupeCache,        \* circular buffer of request ids
    dedupeCacheIndex,
    dedupeCacheCount,
    connected,          \* MqttManager::isConnected()
    pulse,              \* Idle, or the command whose pulse is in progress
    (* history, for the properties only *)
    openedAt,           \* true time of the last recorded open, 0 if none
    history,            \* the request ids the relay was pulsed for, in order
    bootMark,           \* Len(history) at the last boot
    boots

gateVars == <<clock, lastOpenAtMs, dedupeCache, dedupeCacheIndex,
              dedupeCacheCount, connected, pulse, openedAt, history,
              bootMark, boots>>
controlVars == <<lastOpenAtMs, dedupeCache, dedupeCacheIndex,
                 dedupeCacheCount, openedAt>>
vars == <<gateVars, channelVars>>

Millis == clock % Wrap

-----------------------------------------------------------------------------
(* GateControl *)

\* Mutant of Elapsed: the distance of two readings, blind to the wrap-around.
ElapsedDistance == IF Millis >= lastOpenAtMs THEN Millis - lastOpenAtMs
                   ELSE lastOpenAtMs - Millis

\* uint32_t subtraction.
Elapsed == (Millis - lastOpenAtMs) % Wrap

CanExecuteNow == lastOpenAtMs = 0 \/ Elapsed >= Cooldown

\* Mutant of WasProcessed: the scan stops one entry early.
WasProcessedShort(r) == \E i \in 0 .. dedupeCacheCount - 2 : dedupeCache[i] = r

\* dedupeCacheCount never exceeds CacheSize: it is also the scan's length.
WasProcessed(r) == \E i \in 0 .. dedupeCacheCount - 1 : dedupeCache[i] = r

\* Mutant of RecordOpen: millis() is read again after the pulse.
RecordOpenAgain(at) == lastOpenAtMs' = Millis /\ openedAt' = at

RecordOpen(at) == lastOpenAtMs' = at % Wrap /\ openedAt' = at

\* Mutants of MarkProcessed: the index does not wrap; the count stops early.
MarkProcessedNoWrap(r) ==
    /\ dedupeCache' = [dedupeCache EXCEPT ![dedupeCacheIndex] = r]
    /\ dedupeCacheIndex' = dedupeCacheIndex + 1
    /\ dedupeCacheCount' = IF dedupeCacheCount < CacheSize
                           THEN dedupeCacheCount + 1 ELSE dedupeCacheCount

MarkProcessedShort(r) ==
    /\ dedupeCache' = [dedupeCache EXCEPT ![dedupeCacheIndex] = r]
    /\ dedupeCacheIndex' = (dedupeCacheIndex + 1) % CacheSize
    /\ dedupeCacheCount' = IF dedupeCacheCount < CacheSize - 1
                           THEN dedupeCacheCount + 1 ELSE dedupeCacheCount

MarkProcessed(r) ==
    /\ dedupeCache' = [dedupeCache EXCEPT ![dedupeCacheIndex] = r]
    /\ dedupeCacheIndex' = (dedupeCacheIndex + 1) % CacheSize
    /\ dedupeCacheCount' = IF dedupeCacheCount < CacheSize
                           THEN dedupeCacheCount + 1 ELSE dedupeCacheCount

-----------------------------------------------------------------------------
(* handleMqttCommand *)

\* Protocol::createAck and MqttManager::publish, which drops the ACK when the
\* session is down.  answers is a history field: which command is answered.
Answer(m, ok, code) ==
    IF connected
    THEN PublishToAcks([rid |-> m.rid, ok |-> ok, errorCode |-> code,
                        answers |-> m.issuedAt])
    ELSE UNCHANGED acks

Receive(m) == pulse = Idle /\ TakeCommand(m)

Bad(m) == m.kind = "malformed" \/ m.rid = NoRid

DropOffline(m) ==
    /\ Receive(m) /\ ~connected
    /\ UNCHANGED <<gateVars, acks>>

RejectBadPayload(m) ==
    /\ Receive(m) /\ connected /\ Bad(m)
    /\ Answer(m, FALSE, "BAD_PAYLOAD")
    /\ UNCHANGED gateVars

RejectUnknown(m) ==
    /\ Receive(m) /\ connected /\ ~Bad(m) /\ m.kind # "open"
    /\ Answer(m, FALSE, "UNKNOWN_COMMAND")
    /\ UNCHANGED gateVars

Accepted(m) == Receive(m) /\ connected /\ ~Bad(m) /\ m.kind = "open"

AckDuplicate(m) ==
    /\ Accepted(m) /\ WasProcessed(m.rid)
    /\ Answer(m, TRUE, "none")
    /\ UNCHANGED gateVars

\* Mutant of RejectCooldown: the refusal is acknowledged as done.
RejectCooldownOk(m) ==
    /\ Accepted(m) /\ ~WasProcessed(m.rid) /\ ~CanExecuteNow
    /\ Answer(m, TRUE, "none")
    /\ UNCHANGED gateVars

RejectCooldown(m) ==
    /\ Accepted(m) /\ ~WasProcessed(m.rid) /\ ~CanExecuteNow
    /\ Answer(m, FALSE, "COOLDOWN")
    /\ UNCHANGED gateVars

\* The relay pin goes HIGH.
BeginPulse(m) ==
    /\ Accepted(m) /\ ~WasProcessed(m.rid) /\ CanExecuteNow
    /\ Len(history) < MaxOpens
    /\ pulse' = [cmd |-> m, at |-> clock]
    /\ history' = Append(history, m.rid)
    /\ UNCHANGED <<clock, controlVars, connected, bootMark, boots, acks>>

\* The pin is LOW again; nowMs was read before the pulse.
EndPulse ==
    /\ pulse # Idle /\ clock >= pulse.at + PulseMs
    /\ RecordOpen(pulse.at)
    /\ MarkProcessed(pulse.cmd.rid)
    /\ Answer(pulse.cmd, TRUE, "none")
    /\ pulse' = Idle
    /\ UNCHANGED <<clock, connected, history, bootMark, boots, cmds, copies>>

-----------------------------------------------------------------------------
(* The environment of the handler *)

Tick ==
    /\ clock < MaxClock
    /\ clock' = clock + 1
    /\ UNCHANGED <<controlVars, connected, pulse, history, bootMark, boots,
                   channelVars>>

\* The session goes up and down independently of the handler.
SessionChange ==
    /\ connected' = ~connected
    /\ UNCHANGED <<clock, controlVars, pulse, history, bootMark, boots,
                   channelVars>>

\* A reset: everything but the history is in RAM.
Reboot ==
    /\ boots < MaxBoots /\ boots' = boots + 1
    /\ clock' = BootMs /\ lastOpenAtMs' = 0 /\ openedAt' = 0
    /\ dedupeCache' = [i \in 0 .. CacheSize - 1 |-> NoRid]
    /\ dedupeCacheIndex' = 0 /\ dedupeCacheCount' = 0
    /\ pulse' = Idle /\ connected' = FALSE
    /\ bootMark' = Len(history)
    /\ UNCHANGED <<history, channelVars>>

HandleCommand(m) ==
    \/ DropOffline(m) \/ RejectBadPayload(m) \/ RejectUnknown(m)
    \/ AckDuplicate(m) \/ RejectCooldown(m) \/ BeginPulse(m)

GateStep ==
    \/ \E m \in Command : HandleCommand(m)
    \/ EndPulse \/ Tick \/ SessionChange \/ Reboot

GateInit ==
    /\ clock = BootMs /\ lastOpenAtMs = 0 /\ openedAt = 0
    /\ dedupeCache = [i \in 0 .. CacheSize - 1 |-> NoRid]
    /\ dedupeCacheIndex = 0 /\ dedupeCacheCount = 0
    /\ pulse = Idle /\ connected = FALSE
    /\ history = <<>> /\ bootMark = 0 /\ boots = 0

\* On its own: any command may be published at any time.
EnvPublish == \E m \in Command \ cmds :
    PublishCommand(m) /\ UNCHANGED <<gateVars, acks, copies>>

Init == GateInit /\ ChannelInit

Next == \/ GateStep
        \/ EnvPublish
        \/ (LoseCommand \/ LoseAck) /\ UNCHANGED gateVars

Spec == Init /\ [][Next]_vars

-----------------------------------------------------------------------------
(* Properties *)

\* Every variable holds a value its C++ type and the code's use of it allow.
TypeOK ==
    /\ clock \in Nat /\ lastOpenAtMs \in 0 .. Wrap - 1 /\ openedAt \in Nat
    /\ dedupeCache \in [0 .. CacheSize - 1 -> Rid \cup {NoRid}]
    /\ dedupeCacheIndex \in 0 .. CacheSize - 1
    /\ dedupeCacheCount \in 0 .. CacheSize
    /\ connected \in BOOLEAN
    /\ pulse \in {Idle} \cup [cmd : Command, at : Nat]
    /\ history \in Seq(Rid) /\ bootMark \in 0 .. Len(history)
    /\ boots \in Nat
    /\ cmds \subseteq Command /\ acks \subseteq Ack /\ copies \in Nat

\* The pulses of this boot that markProcessed has recorded.
Recorded == Len(history) - (IF pulse = Idle THEN 0 ELSE 1) - bootMark

\* The slot that the k-th most recent markProcessed wrote.
SlotOf(k) == IF k <= dedupeCacheIndex THEN dedupeCacheIndex - k
             ELSE dedupeCacheIndex - k + CacheSize

\* The circular buffer holds exactly the request ids of the last CacheSize
\* recorded pulses of this boot, the slots the scan of wasProcessed covers
\* included (gate_control.cpp wasProcessed and markProcessed).
CacheHoldsLastOpens ==
    /\ dedupeCacheCount = IF Recorded < CacheSize THEN Recorded ELSE CacheSize
    /\ dedupeCacheCount < CacheSize => dedupeCacheIndex = dedupeCacheCount
    /\ \A k \in 1 .. dedupeCacheCount :
           dedupeCache[SlotOf(k)] = history[bootMark + Recorded - k + 1]

\* A request id opens the gate at most once among CacheSize consecutive
\* pulses and the one after them, as long as the board is not reset: the
\* dedupe of handleMqttCommand works up to the size of its cache.
NoRepeatInWindow ==
    \A i, j \in (bootMark + 1) .. Len(history) :
        i < j /\ j - i <= CacheSize => history[i] # history[j]

\* lastOpenAtMs is the true time of the last recorded open, truncated to 32
\* bits; a pulse in progress is later than it.
LastOpenIsTruncated ==
    /\ lastOpenAtMs = openedAt % Wrap
    /\ openedAt <= clock
    /\ pulse # Idle => pulse.at <= clock /\ openedAt <= pulse.at

\* What the controller remembers of the opens it recorded, when the last one was
\* and which ids were the last, is so after every wrap, pulse and reset.
OpensAreRecorded == LastOpenIsTruncated /\ CacheHoldsLastOpens

\* Whatever the wrap-arounds of millis(), a pulse starts at least Cooldown
\* after the previous recorded one, unless that one was recorded when millis()
\* read 0, the value that canExecuteNow takes for "never opened".
CooldownBetweenPulses ==
    [][pulse = Idle /\ pulse' # Idle /\ openedAt % Wrap # 0
           => clock - openedAt >= Cooldown]_vars

\* An ok ACK says that the relay was pulsed for that request id: now, or
\* earlier in this boot, or for a redelivered command.
OkAckMeansOpened ==
    \A a \in acks : a.ok => \E i \in 1 .. Len(history) : history[i] = a.rid
=============================================================================
