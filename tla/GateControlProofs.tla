-------------------------- MODULE GateControlProofs --------------------------
(***************************************************************************)
(* Theorems about the gate controller, for every value of the constants:   *)
(* any set of request ids and commands, any cache size, cooldown, pulse    *)
(* length and clock width.                                                 *)
(***************************************************************************)
EXTENDS GateControl, Integers, TLAPS

-----------------------------------------------------------------------------
(* Facts about % for every modulus: circular buffers and the wrapping clock *)

\* A remainder lies between 0 and the modulus (exclusive).
LEMMA RemainderRange ==
    ASSUME NEW W \in Nat \ {0}, NEW a \in Int
    PROVE  a % W \in 0 .. W - 1
  BY SMT

\* Quotient and remainder determine a number.
LEMMA Division ==
    ASSUME NEW W \in Nat \ {0}, NEW a \in Int
    PROVE  a \div W \in Int /\ a = (W * (a \div W)) + (a % W)
  BY Z3

\* Incrementing an index of a circular buffer of N slots.
LEMMA NextIndex ==
    ASSUME NEW N \in Nat \ {0}, NEW i \in 0 .. N - 1
    PROVE  (i + 1) % N = IF i + 1 = N THEN 0 ELSE i + 1
<1>1. N % N = 0
  BY SMT
<1>2. i + 1 # N => (i + 1) % N = i + 1
  BY SMT
<1>3. QED
  BY <1>1, <1>2

\* Two remainders in range are equal when they differ by a multiple of W.
LEMMA UniqueRemainder ==
    ASSUME NEW W \in Nat \ {0}, NEW k \in Int,
           NEW r \in 0 .. W - 1, NEW s \in 0 .. W - 1,
           s - r = W * k
    PROVE  r = s
<1>1. k <= 0
  <2>1. SUFFICES ASSUME k >= 1 PROVE FALSE
    OBVIOUS
  <2>2. W * k >= W
    BY <2>1, Z3
  <2>3. QED
    BY <2>2
<1>2. k >= 0
  <2>1. SUFFICES ASSUME k <= -1 PROVE FALSE
    OBVIOUS
  <2>2. W * k <= -W
    BY <2>1, Z3
  <2>3. QED
    BY <2>2
<1>3. W * 0 = 0
  OBVIOUS
<1>4. QED
  BY <1>1, <1>2, <1>3

\* Subtracting two readings of a clock of W values never yields more than the
\* time that really passed.
LEMMA WrappedDifference ==
    ASSUME NEW W \in Nat \ {0}, NEW a \in Nat, NEW b \in Nat, a <= b
    PROVE  ((b % W) - (a % W)) % W <= b - a
<1> DEFINE d == b - a
           x == (b % W) - (a % W)
           qa == a \div W
           qb == b \div W
           qd == d \div W
           qx == x \div W
           k == qb - qa + qx - qd
<1>1. a = (W * qa) + (a % W) /\ b = (W * qb) + (b % W) /\ qa \in Int /\ qb \in Int
  BY Division
<1>2. x \in Int /\ d \in Nat
  BY RemainderRange
<1>3. x = (W * qx) + (x % W) /\ d = (W * qd) + (d % W) /\ qx \in Int /\ qd \in Int
  <2> HIDE DEF d, x
  <2>1. QED
    BY <1>2, Division
<1>4. x % W \in 0 .. W - 1 /\ d % W \in 0 .. W - 1
  <2> HIDE DEF d, x
  <2>1. QED
    BY <1>2, RemainderRange
<1>5. k \in Int /\ (d % W) - (x % W) = W * k
  <2>1. W * k = (W * qb) - (W * qa) + (W * qx) - (W * qd)
    <3> HIDE DEF qa, qb, qx, qd
    <3>1. QED
      BY <1>1, <1>3, Z3
  <2>2. (d % W) - (x % W) = (d - (W * qd)) - (x - (W * qx))
    <3> HIDE DEF d, x, qd, qx
    <3>1. QED
      BY <1>2, <1>3, <1>4
  <2>3. d - x = (W * qb) - (W * qa)
    <3>1. a % W \in Int /\ b % W \in Int
      BY RemainderRange
    <3>2. W * qa \in Int /\ W * qb \in Int
      BY <1>1
    <3>3. d - x = (b - (b % W)) - (a - (a % W))
      BY <3>1
    <3> HIDE DEF d, x, qa, qb
    <3>4. QED
      BY <3>1, <3>2, <3>3, <1>1
  <2>4. QED
    <3> HIDE DEF d, x, qa, qb, qx, qd
    <3>1. QED
      BY <2>1, <2>2, <2>3, <1>1, <1>2, <1>3, <1>4
<1>6. x % W = d % W
  <2> HIDE DEF d, x, k
  <2>1. QED
    BY <1>4, <1>5, UniqueRemainder
<1>7. d % W <= d
  <2> HIDE DEF d
  <2>1. QED
    BY <1>2, SMT
<1>8. QED
  BY <1>6, <1>7

-----------------------------------------------------------------------------

Assumptions == /\ NoRid \notin Rid
               /\ Command \subseteq [rid : Rid \cup {NoRid}, kind : Kind,
                                     issuedAt : Nat]
               /\ Idle \notin [cmd : Command, at : Nat]
               /\ Wrap \in Nat \ {0} /\ Cooldown \in Nat /\ PulseMs \in Nat
               /\ BootMs \in Nat \ {0} /\ MaxClock \in Nat
               /\ CacheSize \in Nat \ {0} /\ MaxOpens \in Nat
               /\ MaxBoots \in Nat /\ MaxCopies \in Nat

LEMMA AllAssumptions == Assumptions
  BY NoRidAssumption, CommandAssumption, IdleAssumption, ClockAssumption,
     CacheAssumption, MaxCopiesAssumption DEF Assumptions

-----------------------------------------------------------------------------
(* Type correctness *)

\* An ACK built from a command of the channel is an ACK.
LEMMA AnswerType ==
    ASSUME NEW m \in Command, NEW ok \in BOOLEAN, NEW code \in ErrorCode,
           acks \subseteq Ack, Answer(m, ok, code)
    PROVE  acks' \subseteq Ack
<1>1. [rid |-> m.rid, ok |-> ok, errorCode |-> code, answers |-> m.issuedAt]
        \in Ack
  BY CommandAssumption DEF Ack
<1>2. QED
  BY <1>1 DEF Answer, PublishToAcks

\* Every step of the handler and of its environment keeps the types
\* (handleMqttCommand, GateControl, the relay pulse, resets).
LEMMA TypeOKStep == TypeOK /\ [Next]_vars => TypeOK'
<1> SUFFICES ASSUME TypeOK, [Next]_vars PROVE TypeOK'
  OBVIOUS
<1> USE AllAssumptions DEF Assumptions, ErrorCode, Kind
<1>1. ASSUME NEW m \in Command, HandleCommand(m) PROVE TypeOK'
  <2>0. cmds' \subseteq Command /\ copies' \in Nat
    BY <1>1 DEF TypeOK, HandleCommand, DropOffline, RejectBadPayload,
       RejectUnknown, AckDuplicate, RejectCooldown, BeginPulse, Accepted,
       Receive, TakeCommand
  <2>1. CASE DropOffline(m) \/ RejectBadPayload(m) \/ RejectUnknown(m)
             \/ AckDuplicate(m) \/ RejectCooldown(m)
    <3>1. acks' \subseteq Ack
      BY <2>1, AnswerType DEF TypeOK, DropOffline, RejectBadPayload,
         RejectUnknown, AckDuplicate, RejectCooldown
    <3>2. UNCHANGED gateVars
      BY <2>1 DEF DropOffline, RejectBadPayload, RejectUnknown, AckDuplicate,
         RejectCooldown
    <3>3. QED
      BY <2>0, <3>1, <3>2 DEF TypeOK, gateVars
  <2>2. CASE BeginPulse(m)
    <3>1. m.rid \in Rid
      BY <2>2 DEF BeginPulse, Accepted, Bad
    <3>2. history' \in Seq(Rid) /\ bootMark' \in 0 .. Len(history')
      BY <2>2, <3>1 DEF BeginPulse, TypeOK
    <3>3. pulse' \in [cmd : Command, at : Nat]
      BY <2>2 DEF BeginPulse, TypeOK
    <3>4. QED
      BY <2>0, <2>2, <3>2, <3>3 DEF BeginPulse, TypeOK, controlVars
  <2>3. QED
    BY <1>1, <2>1, <2>2 DEF HandleCommand
<1>2. CASE EndPulse
  <2>1. pulse.cmd \in Command /\ pulse.at \in Nat
    BY <1>2 DEF EndPulse, TypeOK
  <2>2. acks' \subseteq Ack
    BY <1>2, <2>1, AnswerType DEF EndPulse, TypeOK
  <2>3. lastOpenAtMs' \in 0 .. Wrap - 1 /\ openedAt' \in Nat
    <3>1. pulse.at % Wrap \in 0 .. Wrap - 1
      BY <2>1, RemainderRange
    <3>2. QED
      BY <1>2, <2>1, <3>1 DEF EndPulse, RecordOpen
  <2>4. /\ dedupeCacheIndex' \in 0 .. CacheSize - 1
        /\ dedupeCacheCount' \in 0 .. CacheSize
    <3>1. dedupeCacheIndex + 1 \in Int
      BY DEF TypeOK
    <3>2. QED
      BY <1>2, <3>1, RemainderRange DEF EndPulse, MarkProcessed, TypeOK
  <2>5. dedupeCache' \in [0 .. CacheSize - 1 -> Rid \cup {NoRid}]
    BY <1>2, <2>1 DEF EndPulse, MarkProcessed, TypeOK
  <2>6. QED
    BY <1>2, <2>2, <2>3, <2>4, <2>5 DEF EndPulse, TypeOK
<1>3. CASE Tick
  BY <1>3 DEF Tick, TypeOK, controlVars, channelVars
<1>4. CASE SessionChange
  BY <1>4 DEF SessionChange, TypeOK, controlVars, channelVars
<1>5. CASE Reboot
  <2>1. dedupeCache' \in [0 .. CacheSize - 1 -> Rid \cup {NoRid}]
    BY <1>5 DEF Reboot
  <2>2. history' \in Seq(Rid) /\ bootMark' \in 0 .. Len(history')
    BY <1>5 DEF Reboot, TypeOK
  <2>3. /\ clock' \in Nat /\ lastOpenAtMs' \in 0 .. Wrap - 1
        /\ openedAt' \in Nat /\ boots' \in Nat
        /\ dedupeCacheIndex' \in 0 .. CacheSize - 1
        /\ dedupeCacheCount' \in 0 .. CacheSize
    BY <1>5 DEF Reboot, TypeOK
  <2>4. pulse' = Idle /\ connected' = FALSE
    BY <1>5 DEF Reboot
  <2>5. cmds' \subseteq Command /\ acks' \subseteq Ack /\ copies' \in Nat
    BY <1>5 DEF Reboot, TypeOK, channelVars
  <2>6. QED
    BY <2>1, <2>2, <2>3, <2>4, <2>5 DEF TypeOK
<1>6. CASE EnvPublish
  BY <1>6 DEF EnvPublish, PublishCommand, TypeOK, gateVars
<1>7. CASE (LoseCommand \/ LoseAck) /\ UNCHANGED gateVars
  BY <1>7 DEF LoseCommand, LoseAck, TypeOK, gateVars
<1>8. CASE UNCHANGED vars
  BY <1>8 DEF vars, gateVars, channelVars, TypeOK
<1>9. QED
  BY <1>1, <1>2, <1>3, <1>4, <1>5, <1>6, <1>7, <1>8 DEF Next, GateStep

LEMMA TypeOKInit == Init => TypeOK
  BY AllAssumptions DEF Init, GateInit, ChannelInit, TypeOK, Assumptions

\* The type invariant holds in every reachable state, for every value of the
\* constants.
THEOREM TypeCorrect == Spec => []TypeOK
  BY TypeOKInit, TypeOKStep, PTL DEF Spec

-----------------------------------------------------------------------------
(* Cooldown *)

\* lastOpenAtMs stays the truncation of the true time of the last open: only
\* recordOpen and a reset write it.
LEMMA LastOpenStep ==
    TypeOK /\ LastOpenIsTruncated /\ [Next]_vars => LastOpenIsTruncated'
<1> SUFFICES ASSUME TypeOK, LastOpenIsTruncated, [Next]_vars
             PROVE  LastOpenIsTruncated'
  OBVIOUS
<1> USE DEF LastOpenIsTruncated
<1>1. ASSUME NEW m \in Command, HandleCommand(m) PROVE LastOpenIsTruncated'
  <2>1. CASE BeginPulse(m)
    BY <2>1 DEF BeginPulse, controlVars, Accepted, Receive, TypeOK
  <2>2. CASE UNCHANGED gateVars
    BY <2>2 DEF gateVars
  <2>3. QED
    BY <1>1, <2>1, <2>2 DEF HandleCommand, DropOffline, RejectBadPayload,
       RejectUnknown, AckDuplicate, RejectCooldown
<1>2. CASE EndPulse
  BY <1>2 DEF EndPulse, RecordOpen
<1>3. CASE Tick
  <2>1. pulse # Idle => pulse.at \in Nat
    BY DEF TypeOK
  <2>2. QED
    BY <1>3, <2>1 DEF Tick, TypeOK, controlVars
<1>4. CASE SessionChange
  BY <1>4 DEF SessionChange, controlVars
<1>5. CASE Reboot
  <2>1. 0 % Wrap = 0
    BY ClockAssumption, SMT
  <2>2. QED
    BY <1>5, <2>1, ClockAssumption DEF Reboot
<1>6. CASE UNCHANGED gateVars
  BY <1>6 DEF gateVars
<1>7. QED
  BY <1>1, <1>2, <1>3, <1>4, <1>5, <1>6
  DEF Next, GateStep, EnvPublish, vars

LEMMA LastOpenInit == Init => LastOpenIsTruncated
<1>1. 0 % Wrap = 0
  BY ClockAssumption, SMT
<1>2. QED
  BY <1>1, ClockAssumption DEF Init, GateInit, LastOpenIsTruncated

\* lastOpenAtMs is the truncated time of the last recorded open, always.
THEOREM LastOpenCorrect == Spec => []LastOpenIsTruncated
  BY TypeCorrect, LastOpenInit, LastOpenStep, PTL DEF Spec

\* The subtraction in canExecuteNow never overestimates the elapsed time, so a
\* pulse that it allows comes at least Cooldown after the last one.
LEMMA CooldownStep ==
    TypeOK /\ LastOpenIsTruncated /\ [Next]_vars
        => [pulse = Idle /\ pulse' # Idle /\ openedAt % Wrap # 0
               => clock - openedAt >= Cooldown]_vars
<1> SUFFICES ASSUME TypeOK, LastOpenIsTruncated, Next,
                    pulse = Idle, pulse' # Idle, openedAt % Wrap # 0
             PROVE  clock - openedAt >= Cooldown
  BY DEF vars, gateVars
<1>1. PICK m \in Command : BeginPulse(m)
  BY DEF Next, GateStep, HandleCommand, DropOffline, RejectBadPayload,
     RejectUnknown, AckDuplicate, RejectCooldown, EndPulse, Tick,
     SessionChange, Reboot, EnvPublish, gateVars
<1>2. Elapsed >= Cooldown
  BY <1>1 DEF BeginPulse, CanExecuteNow, LastOpenIsTruncated
<1>3. Elapsed <= clock - openedAt
  BY WrappedDifference, ClockAssumption
  DEF Elapsed, Millis, LastOpenIsTruncated, TypeOK
<1>4. Elapsed \in Int /\ Cooldown \in Int /\ clock - openedAt \in Int
  <2>1. clock % Wrap \in Int /\ lastOpenAtMs \in Int
    BY ClockAssumption, RemainderRange DEF TypeOK
  <2>2. (clock % Wrap) - lastOpenAtMs \in Int
    BY <2>1
  <2>3. QED
    BY <2>2, ClockAssumption, RemainderRange DEF Elapsed, Millis, TypeOK
<1>5. QED
  BY <1>2, <1>3, <1>4

\* The cooldown holds across every wrap-around of millis(), for every clock
\* width and cooldown, unless the last open was recorded at millis() = 0.
THEOREM CooldownHolds == Spec => CooldownBetweenPulses
  BY TypeCorrect, LastOpenCorrect, CooldownStep, PTL
  DEF Spec, CooldownBetweenPulses

-----------------------------------------------------------------------------
(* The request id cache *)

\* The inductive strengthening: while a pulse is in progress its request id is
\* the last of the history and is not recorded yet.
PulseIsLast ==
    pulse # Idle => /\ bootMark < Len(history)
                    /\ history[Len(history)] = pulse.cmd.rid

CacheInv == PulseIsLast /\ CacheHoldsLastOpens

LEMMA RecordedType == TypeOK /\ PulseIsLast => Recorded \in Nat
  BY DEF TypeOK, PulseIsLast, Recorded

\* The slot of the k-th most recent entry is one that the scan covers.
LEMMA SlotInScan ==
    ASSUME TypeOK, CacheInv, NEW k \in 1 .. dedupeCacheCount
    PROVE  SlotOf(k) \in 0 .. dedupeCacheCount - 1
  BY CacheAssumption DEF TypeOK, CacheInv, CacheHoldsLastOpens, SlotOf

\* markProcessed overwrites the oldest entry and renumbers the others.
LEMMA MarkProcessedStep ==
    TypeOK /\ CacheInv /\ EndPulse => CacheHoldsLastOpens'
<1> SUFFICES ASSUME TypeOK, CacheInv, EndPulse PROVE CacheHoldsLastOpens'
  OBVIOUS
<1> DEFINE n == Recorded
           i == dedupeCacheIndex
<1>1. n \in Nat /\ Recorded' = n + 1
  BY RecordedType, CacheAssumption
  DEF EndPulse, Recorded, TypeOK, CacheInv, PulseIsLast
<1>2. i \in 0 .. CacheSize - 1 /\ CacheSize \in Nat \ {0}
  BY CacheAssumption DEF TypeOK
<1>3. dedupeCacheIndex' = IF i + 1 = CacheSize THEN 0 ELSE i + 1
  BY <1>2, NextIndex DEF EndPulse, MarkProcessed
<1>4. dedupeCacheCount = IF n < CacheSize THEN n ELSE CacheSize
  BY DEF CacheInv, CacheHoldsLastOpens
<1>5. dedupeCacheCount' = IF n + 1 < CacheSize THEN n + 1 ELSE CacheSize
  BY <1>1, <1>2, <1>4 DEF EndPulse, MarkProcessed
<1>6. dedupeCacheCount' < CacheSize => dedupeCacheIndex' = dedupeCacheCount'
  <2>1. dedupeCacheCount < CacheSize => i = dedupeCacheCount
    BY DEF CacheInv, CacheHoldsLastOpens
  <2>2. QED
    BY <1>1, <1>2, <1>3, <1>4, <1>5, <2>1
<1>7. ASSUME NEW k \in 1 .. dedupeCacheCount'
      PROVE  dedupeCache'[SlotOf(k)'] = history'[bootMark' + Recorded' - k + 1]
  <2>0. history' = history /\ bootMark' = bootMark
    BY DEF EndPulse
  <2>1. CASE k = 1
    <3>1. SlotOf(k)' = i
      BY <1>2, <1>3, <2>1 DEF SlotOf
    <3>2. dedupeCache'[i] = pulse.cmd.rid
      BY <1>2 DEF EndPulse, MarkProcessed, TypeOK
    <3>3. bootMark + Recorded' - k + 1 = Len(history)
      BY <1>1, <2>1 DEF EndPulse, Recorded, TypeOK
    <3>4. QED
      BY <3>1, <3>2, <3>3, <2>0 DEF CacheInv, PulseIsLast, EndPulse
  <2>2. CASE k # 1
    <3>1. k - 1 \in 1 .. dedupeCacheCount /\ k - 1 < CacheSize
      BY <1>1, <1>2, <1>4, <1>5, <2>2
    <3>2. SlotOf(k)' = SlotOf(k - 1)
      BY <1>2, <1>3, <3>1, <2>2 DEF SlotOf
    <3>3. SlotOf(k - 1) \in 0 .. CacheSize - 1 /\ SlotOf(k - 1) # i
      BY <1>2, <3>1 DEF SlotOf
    <3>4. dedupeCache'[SlotOf(k - 1)] = dedupeCache[SlotOf(k - 1)]
      BY <3>3 DEF EndPulse, MarkProcessed, TypeOK
    <3>5. dedupeCache[SlotOf(k - 1)] = history[bootMark + n - (k - 1) + 1]
      BY <3>1 DEF CacheInv, CacheHoldsLastOpens
    <3>6. bootMark + n - (k - 1) + 1 = bootMark' + Recorded' - k + 1
      BY <1>1, <2>0, <3>1 DEF TypeOK
    <3>7. QED
      BY <3>2, <3>4, <3>5, <3>6, <2>0
  <2>3. QED
    BY <2>1, <2>2
<1>8. QED
  BY <1>1, <1>5, <1>6, <1>7 DEF CacheHoldsLastOpens

\* Only markProcessed and a reset change the cache; a starting pulse extends
\* the history beyond what is recorded.
LEMMA CacheInvStep == TypeOK /\ CacheInv /\ [Next]_vars => CacheInv'
<1> SUFFICES ASSUME TypeOK, CacheInv, [Next]_vars PROVE CacheInv'
  OBVIOUS
<1>1. ASSUME NEW m \in Command, BeginPulse(m) PROVE CacheInv'
  <2>1. /\ history' = Append(history, m.rid) /\ pulse = Idle
        /\ pulse' = [cmd |-> m, at |-> clock] /\ bootMark' = bootMark
        /\ UNCHANGED <<dedupeCache, dedupeCacheIndex, dedupeCacheCount>>
    BY <1>1 DEF BeginPulse, Accepted, Receive, controlVars
  <2>2. m.rid \in Rid
    BY <1>1, CommandAssumption DEF BeginPulse, Accepted, Bad
  <2>3. /\ Len(history') = Len(history) + 1
        /\ history'[Len(history) + 1] = m.rid
        /\ \A j \in 1 .. Len(history) : history'[j] = history[j]
    BY <2>1, <2>2 DEF TypeOK
  <2>4. pulse' # Idle
    BY <2>1, IdleAssumption DEF TypeOK
  <2>5. Recorded' = Recorded /\ Recorded = Len(history) - bootMark
    BY <2>1, <2>3, <2>4 DEF Recorded, TypeOK
  <2>6. PulseIsLast'
    BY <2>1, <2>3 DEF PulseIsLast, TypeOK
  <2>7. ASSUME NEW k \in 1 .. dedupeCacheCount
        PROVE  dedupeCache[SlotOf(k)] = history'[bootMark + Recorded - k + 1]
    <3>1. bootMark + Recorded - k + 1 \in 1 .. Len(history)
      BY <2>5, CacheAssumption DEF CacheInv, CacheHoldsLastOpens, TypeOK
    <3>2. QED
      BY <3>1, <2>3 DEF CacheInv, CacheHoldsLastOpens
  <2>8. QED
    BY <2>1, <2>5, <2>6, <2>7 DEF CacheInv, CacheHoldsLastOpens, SlotOf
<1>2. CASE EndPulse
  BY <1>2, MarkProcessedStep DEF CacheInv, PulseIsLast, EndPulse
<1>3. CASE Tick \/ SessionChange
  <2>1. UNCHANGED <<history, bootMark, pulse, dedupeCache, dedupeCacheIndex,
                    dedupeCacheCount>>
    BY <1>3 DEF Tick, SessionChange, controlVars
  <2>2. QED
    BY <2>1 DEF CacheInv, PulseIsLast, CacheHoldsLastOpens, Recorded, SlotOf
<1>4. CASE Reboot
  <2>1. Recorded' = 0 /\ dedupeCacheCount' = 0 /\ dedupeCacheIndex' = 0
    BY <1>4 DEF Reboot, Recorded, TypeOK
  <2>2. QED
    BY <1>4, <2>1, CacheAssumption
    DEF Reboot, CacheInv, PulseIsLast, CacheHoldsLastOpens
<1>5. CASE UNCHANGED gateVars
  BY <1>5 DEF gateVars, CacheInv, PulseIsLast, CacheHoldsLastOpens, Recorded,
     SlotOf
<1>6. QED
  BY <1>1, <1>2, <1>3, <1>4, <1>5
  DEF Next, GateStep, HandleCommand, DropOffline, RejectBadPayload,
      RejectUnknown, AckDuplicate, RejectCooldown, EnvPublish, vars

LEMMA CacheInvInit == Init => CacheInv
  BY CacheAssumption
  DEF Init, GateInit, CacheInv, PulseIsLast, CacheHoldsLastOpens, Recorded

LEMMA CacheInvCorrect == Spec => []CacheInv
  BY TypeCorrect, CacheInvInit, CacheInvStep, PTL DEF Spec

\* The cache holds the request ids of the last CacheSize recorded pulses.
THEOREM CacheCorrect == Spec => []CacheHoldsLastOpens
<1>1. CacheInv => CacheHoldsLastOpens
  BY DEF CacheInv
<1>2. QED
  BY <1>1, CacheInvCorrect, PTL

\* Together: recordOpen and markProcessed keep the time and the ids of the opens
\* right, for every clock width and cache size.
THEOREM OpensCorrect == Spec => []OpensAreRecorded
<1>1. LastOpenIsTruncated /\ CacheHoldsLastOpens => OpensAreRecorded
  BY DEF OpensAreRecorded
<1>2. QED
  BY <1>1, LastOpenCorrect, CacheCorrect, PTL

\* A starting pulse is for a request id that is not in the cache, hence for
\* none of the last CacheSize pulses of this boot.
LEMMA PulseIsFresh ==
    ASSUME TypeOK, CacheInv, NEW m \in Command, BeginPulse(m),
           NEW i \in bootMark + 1 .. Len(history), Len(history) - i < CacheSize
    PROVE  history[i] # m.rid
<1> DEFINE k == Len(history) - i + 1
<1>1. pulse = Idle /\ ~WasProcessed(m.rid)
  BY DEF BeginPulse, Accepted, Receive
<1>2. Recorded = Len(history) - bootMark /\ Len(history) \in Nat /\ bootMark \in Nat
  BY <1>1 DEF Recorded, TypeOK
<1>3. k \in 1 .. dedupeCacheCount
  BY <1>2, CacheAssumption DEF CacheInv, CacheHoldsLastOpens, TypeOK
<1>4. dedupeCache[SlotOf(k)] = history[bootMark + Recorded - k + 1]
  BY <1>3 DEF CacheInv, CacheHoldsLastOpens
<1>5. bootMark + Recorded - k + 1 = i
  BY <1>2
<1>6. SlotOf(k) \in 0 .. dedupeCacheCount - 1
  BY <1>3, SlotInScan
<1>7. QED
  BY <1>1, <1>4, <1>5, <1>6 DEF WasProcessed

LEMMA NoRepeatStep ==
    TypeOK /\ CacheInv /\ NoRepeatInWindow /\ [Next]_vars => NoRepeatInWindow'
<1> SUFFICES ASSUME TypeOK, CacheInv, NoRepeatInWindow, [Next]_vars
             PROVE  NoRepeatInWindow'
  OBVIOUS
<1>1. ASSUME NEW m \in Command, BeginPulse(m) PROVE NoRepeatInWindow'
  <2>1. /\ history' = Append(history, m.rid) /\ pulse = Idle
        /\ bootMark' = bootMark /\ m.rid \in Rid
    BY <1>1, CommandAssumption DEF BeginPulse, Accepted, Receive, Bad
  <2>2. /\ Len(history') = Len(history) + 1 /\ Len(history) \in Nat
        /\ history'[Len(history) + 1] = m.rid
        /\ \A j \in 1 .. Len(history) : history'[j] = history[j]
    BY <2>1 DEF TypeOK
  <2>4. SUFFICES ASSUME NEW i \in (bootMark' + 1) .. Len(history'),
                        NEW j \in (bootMark' + 1) .. Len(history'),
                        i < j, j - i <= CacheSize
                 PROVE  history'[i] # history'[j]
    BY DEF NoRepeatInWindow
  <2>5. i \in (bootMark + 1) .. Len(history) /\ i \in 1 .. Len(history)
    BY <2>1, <2>2, <2>4 DEF TypeOK
  <2>6. CASE j # Len(history) + 1
    <3>1. j \in (bootMark + 1) .. Len(history) /\ j \in 1 .. Len(history)
      <4>1. bootMark \in Nat /\ j \in (bootMark + 1) .. (Len(history) + 1)
        BY <2>1, <2>2 DEF TypeOK
      <4>2. QED
        BY <2>2, <2>6, <4>1
    <3>2. QED
      BY <2>2, <2>4, <2>5, <3>1 DEF NoRepeatInWindow
  <2>7. CASE j = Len(history) + 1
    <3>1. Len(history) - i < CacheSize
      BY <2>2, <2>4, <2>5, <2>7, CacheAssumption
    <3>2. history[i] # m.rid
      BY <1>1, <2>5, <3>1, PulseIsFresh
    <3>3. QED
      BY <2>2, <2>5, <2>7, <3>2
  <2>8. QED
    BY <2>6, <2>7
<1>2. CASE Reboot
  BY <1>2 DEF Reboot, NoRepeatInWindow, TypeOK
<1>3. CASE UNCHANGED <<history, bootMark>>
  BY <1>3 DEF NoRepeatInWindow
<1>4. QED
  BY <1>1, <1>2, <1>3
  DEF Next, GateStep, HandleCommand, DropOffline, RejectBadPayload,
      RejectUnknown, AckDuplicate, RejectCooldown, EndPulse, Tick,
      SessionChange, EnvPublish, gateVars, vars

LEMMA NoRepeatInit == Init => NoRepeatInWindow
  BY DEF Init, GateInit, NoRepeatInWindow

\* The dedupe of handleMqttCommand, for every cache size: within one boot no
\* request id opens the gate twice unless CacheSize other pulses lie between.
THEOREM NoRepeatCorrect == Spec => []NoRepeatInWindow
  BY TypeCorrect, CacheInvCorrect, NoRepeatInit, NoRepeatStep, PTL DEF Spec

-----------------------------------------------------------------------------
(* Acknowledgements *)

Opened(r) == \E i \in 1 .. Len(history) : history[i] = r

\* The strengthening: the scan of wasProcessed only meets opened request ids.
OkAckInv ==
    /\ OkAckMeansOpened
    /\ \A i \in 0 .. dedupeCacheCount - 1 : Opened(dedupeCache[i])

\* The history only grows.
LEMMA OpenedStable ==
    ASSUME TypeOK, [Next]_vars, NEW r, Opened(r)
    PROVE  Opened(r)'
<1>1. CASE \E m \in Command : BeginPulse(m)
  <2>1. PICK m \in Command : BeginPulse(m)
    BY <1>1
  <2>2. m.rid \in Rid /\ history' = Append(history, m.rid)
    BY <2>1, CommandAssumption DEF BeginPulse, Accepted, Bad
  <2>3. QED
    BY <2>2 DEF Opened, TypeOK
<1>2. CASE UNCHANGED history
  BY <1>2 DEF Opened
<1>3. QED
  BY <1>1, <1>2
  DEF Next, GateStep, HandleCommand, DropOffline, RejectBadPayload,
      RejectUnknown, AckDuplicate, RejectCooldown, EndPulse, Tick,
      SessionChange, Reboot, EnvPublish, gateVars, vars

\* An ok ACK is published after a pulse, or for a request id of the cache.
LEMMA OkAckStep ==
    TypeOK /\ CacheInv /\ OkAckInv /\ [Next]_vars => OkAckInv'
<1> SUFFICES ASSUME TypeOK, CacheInv, OkAckInv, [Next]_vars PROVE OkAckInv'
  OBVIOUS
<1>1. ASSUME NEW a \in acks', a.ok PROVE Opened(a.rid)'
  <2>1. CASE a \in acks
    BY <2>1, <1>1, OpenedStable DEF OkAckInv, OkAckMeansOpened, Opened
  <2>2. CASE \E m \in Command : AckDuplicate(m) /\ a \notin acks
    <3>1. PICK m \in Command : AckDuplicate(m)
      BY <2>2
    <3>2. a.rid = m.rid /\ WasProcessed(m.rid)
      BY <2>2, <3>1 DEF AckDuplicate, Answer, PublishToAcks
    <3>3. QED
      BY <3>2, OpenedStable DEF WasProcessed, OkAckInv
  <2>3. CASE EndPulse /\ a \notin acks
    <3>1. a.rid = pulse.cmd.rid /\ pulse # Idle /\ UNCHANGED history
      BY <2>3 DEF EndPulse, Answer, PublishToAcks
    <3>2. Len(history) \in 1 .. Len(history)
      BY <3>1 DEF CacheInv, PulseIsLast, TypeOK
    <3>3. QED
      BY <3>1, <3>2 DEF CacheInv, PulseIsLast, Opened
  <2>4. CASE a \notin acks /\ \E m \in Command :
                  RejectBadPayload(m) \/ RejectUnknown(m) \/ RejectCooldown(m)
    <3>1. ~a.ok
      BY <2>4 DEF RejectBadPayload, RejectUnknown, RejectCooldown, Answer,
         PublishToAcks
    <3>2. QED
      BY <1>1, <3>1
  <2>5. CASE acks' \subseteq acks
    BY <2>1, <2>5
  <2>6. QED
    BY <2>1, <2>2, <2>3, <2>4, <2>5
    DEF Next, GateStep, HandleCommand, DropOffline, BeginPulse, Tick,
        SessionChange, Reboot, EnvPublish, LoseCommand, LoseAck, vars,
        channelVars
<1>2. ASSUME NEW i \in 0 .. dedupeCacheCount' - 1
      PROVE  Opened(dedupeCache[i])' 
  <2>1. CASE EndPulse
    <3>1. CASE i = dedupeCacheIndex
      <4>1. dedupeCache'[i] = pulse.cmd.rid /\ pulse # Idle /\ UNCHANGED history
        BY <2>1, <3>1 DEF EndPulse, MarkProcessed, TypeOK
      <4>2. Len(history) \in 1 .. Len(history)
        BY <4>1 DEF CacheInv, PulseIsLast, TypeOK
      <4>3. QED
        BY <4>1, <4>2 DEF CacheInv, PulseIsLast, Opened
    <3>2. CASE i # dedupeCacheIndex
      <4>1. i \in 0 .. dedupeCacheCount - 1
        BY <2>1, <3>2, CacheAssumption
        DEF EndPulse, MarkProcessed, CacheInv, CacheHoldsLastOpens, TypeOK
      <4>2. dedupeCache'[i] = dedupeCache[i] /\ UNCHANGED history
        BY <2>1, <3>2, <4>1 DEF EndPulse, MarkProcessed, TypeOK
      <4>3. QED
        BY <4>1, <4>2 DEF OkAckInv, Opened
    <3>3. QED
      BY <3>1, <3>2
  <2>2. CASE Reboot
    BY <1>2, <2>2 DEF Reboot
  <2>3. CASE UNCHANGED <<dedupeCache, dedupeCacheCount>>
    <3>1. Opened(dedupeCache[i])
      BY <1>2, <2>3 DEF OkAckInv
    <3>2. QED
      BY <2>3, <3>1, OpenedStable DEF Opened
  <2>4. QED
    BY <2>1, <2>2, <2>3
    DEF Next, GateStep, HandleCommand, DropOffline, RejectBadPayload,
        RejectUnknown, AckDuplicate, RejectCooldown, BeginPulse, Tick,
        SessionChange, EnvPublish, gateVars, controlVars, vars
<1>3. QED
  BY <1>1, <1>2 DEF OkAckInv, OkAckMeansOpened, Opened

LEMMA OkAckInit == Init => OkAckInv
  BY DEF Init, GateInit, ChannelInit, OkAckInv, OkAckMeansOpened

\* An ok ACK is never published for a request id the relay was not pulsed for.
THEOREM OkAckCorrect == Spec => []OkAckMeansOpened
  BY TypeCorrect, CacheInvCorrect, OkAckInit, OkAckStep, PTL DEF Spec, OkAckInv
=============================================================================
