-------------------------- MODULE GateSystemProofs --------------------------
(***************************************************************************)
(* Proofs about the composed system, for any number of calls, request ids, *)
(* retries, redeliveries and restarts and every size of the cache.         *)
(*                                                                         *)
(* The invariants of the components are not proved again: a step of the    *)
(* system is a step of the controller's specification, in which anybody    *)
(* may publish commands, and leaves the backend alone or is one of its own *)
(* steps.  What is new is how they fit: an ok ACK stands for a pulse (an   *)
(* invariant of the controller), it is taken only for the call that asked  *)
(* for that id (one of the backend), and the ids of the commands were      *)
(* asked for.                                                              *)
(***************************************************************************)
EXTENDS GateSystem, TLAPS

\* The component modules once more, with their theorems.
G == INSTANCE GateControlProofs
B == INSTANCE GateBackendProofs WITH EnvAck <- Ack

-----------------------------------------------------------------------------
(* The components *)

LEMMA CommandType == Command \subseteq [rid : Rid \cup {NoRid}, kind : Kind, issuedAt : Nat]
  BY SystemAssumption DEF Command, Kind

\* What the component modules assume holds here.
LEMMA ComponentAssumptions ==
    /\ G!NoRidAssumption /\ G!MaxCopiesAssumption /\ G!CommandAssumption
    /\ G!IdleAssumption /\ G!ClockAssumption /\ G!CacheAssumption
    /\ B!NoRidAssumption /\ B!MaxCopiesAssumption /\ B!FreshRidAssumption
    /\ B!EnvAckAssumption /\ B!RetryAssumption /\ B!CrashAssumption /\ B!NoneAssumption
<1>1. G!Kind = Kind
  BY DEF G!Kind, Kind
<1>2. B!Ack = Ack
  BY DEF B!Ack, Ack, B!ErrorCode, ErrorCode
<1>3. QED
  BY <1>1, <1>2, CommandType, SystemAssumption, NoRidAssumption, MaxCopiesAssumption
  DEF G!NoRidAssumption, G!MaxCopiesAssumption, G!CommandAssumption, G!IdleAssumption,
      G!ClockAssumption, G!CacheAssumption, B!NoRidAssumption, B!MaxCopiesAssumption,
      B!FreshRidAssumption, B!EnvAckAssumption, B!RetryAssumption, B!CrashAssumption,
      B!NoneAssumption

\* Two instances of one module have the same steps.
LEMMA SameBackendStep == Backend!BackendStep <=> B!BackendStep
  BY
  DEF Backend!BackendStep, B!BackendStep, Backend!CallStep, B!CallStep,
      Backend!StartUser, B!StartUser, Backend!StartAdmin, B!StartAdmin,
      Backend!Register, B!Register, Backend!FirstAttempt, B!FirstAttempt,
      Backend!NextAttempt, B!NextAttempt, Backend!WriteLog, B!WriteLog,
      Backend!PublishError, B!PublishError, Backend!FireTimer, B!FireTimer,
      Backend!HandleAck, B!HandleAck, Backend!Expire, B!Expire,
      Backend!Connect, B!Connect, Backend!ConnectionLost, B!ConnectionLost,
      Backend!Disconnect, B!Disconnect, Backend!Crash, B!Crash,
      Backend!PublishAttempt, B!PublishAttempt, Backend!Retry, B!Retry,
      Backend!Fail, B!Fail, Backend!Resolve, B!Resolve, Backend!Reject,
      B!Reject, Backend!RejectTimeout, B!RejectTimeout, Backend!Waiting,
      B!Waiting, Backend!Current, B!Current, Backend!Lookup, B!Lookup,
      Backend!Row, B!Row, Backend!StatusOf, B!StatusOf, Backend!InDevice,
      B!InDevice, Backend!callVars, B!callVars, Backend!deviceVars,
      B!deviceVars, Backend!channelVars, B!channelVars,
      Backend!PublishCommand, B!PublishCommand, Backend!TakeAck, B!TakeAck

LEMMA SameGateStep == Gate!GateStep <=> G!GateStep
  BY
  DEF Gate!GateStep, G!GateStep, Gate!HandleCommand, G!HandleCommand,
      Gate!DropOffline, G!DropOffline, Gate!RejectBadPayload,
      G!RejectBadPayload, Gate!RejectUnknown, G!RejectUnknown,
      Gate!AckDuplicate, G!AckDuplicate, Gate!RejectCooldown,
      G!RejectCooldown, Gate!BeginPulse, G!BeginPulse, Gate!EndPulse,
      G!EndPulse, Gate!Tick, G!Tick, Gate!SessionChange, G!SessionChange,
      Gate!Reboot, G!Reboot, Gate!Receive, G!Receive, Gate!TakeCommand,
      G!TakeCommand, Gate!Bad, G!Bad, Gate!Answer, G!Answer,
      Gate!PublishToAcks, G!PublishToAcks, Gate!Accepted, G!Accepted,
      Gate!WasProcessed, G!WasProcessed, Gate!CanExecuteNow,
      G!CanExecuteNow, Gate!Elapsed, G!Elapsed, Gate!Millis, G!Millis,
      Gate!RecordOpen, G!RecordOpen, Gate!MarkProcessed, G!MarkProcessed,
      Gate!gateVars, G!gateVars, Gate!controlVars, G!controlVars,
      Gate!channelVars, G!channelVars

-----------------------------------------------------------------------------
(* The invariant *)

BackendInv == B!TypeInv /\ B!UniqueInv /\ B!PendingMatchesCalls

GateInv == G!TypeOK /\ G!CacheInv /\ G!OkAckInv

\* Calls tell what they were told: an answer comes last, and an "ok" with a pulse.
CallInv ==
    /\ \A c \in Call : pc[c] = "idle" => outcome[c] = "none" /\ rid[c] = NoRid
    /\ \A c \in Call : pc[c] # "done" => answer[c] = "none"
    /\ \A c \in Call : pc[c] = "log" => outcome[c] # "none"
    /\ SuccessMeansOpened

\* The device gets no command that nobody asked for.
Asked == \A m \in cmds : \E c \in Call : rid[c] = m.rid

SystemInv == GateInv /\ BackendInv /\ CallInv /\ Asked

-----------------------------------------------------------------------------
(* Steps of the backend *)

\* What publishing an attempt does to the channel.
LEMMA PublishChannel ==
    ASSUME NEW c \in Call, NEW n \in 0 .. RetryCount, B!PublishAttempt(c, n)
    PROVE  /\ rid' = rid /\ acks' = acks /\ copies' = copies
           /\ \/ cmds' = cmds
              \/ cmds' = cmds \cup {[rid |-> rid[c], kind |-> "open", issuedAt |-> n]}
  BY DEF B!PublishAttempt, B!PublishCommand

\* The backend publishes commands for the ids of its calls, and takes ACKs.
LEMMA BackendChannel ==
    ASSUME BackendInv, B!BackendStep
    PROVE  /\ copies' = copies
           /\ \/ cmds' = cmds /\ acks' = acks
              \/ cmds' = cmds /\ \E a \in acks : acks' = acks \ {a}
              \/ /\ acks' = acks /\ rid' = rid
                 /\ \E c \in Call : \E n \in 0 .. RetryCount :
                        /\ rid[c] \in Rid
                        /\ cmds' = cmds \cup
                                   {[rid |-> rid[c], kind |-> "open", issuedAt |-> n]}
<1>1. /\ \A c \in Call : pc[c] # "idle" => rid[c] \in Rid
      /\ \A c \in Call : pc[c] = "delay" => attempt[c] < RetryCount
      /\ attempt \in [Call -> 0 .. RetryCount] /\ RetryCount \in Nat
  BY SystemAssumption DEF BackendInv, B!TypeInv, B!RidInv, B!TypeOK
<1>2. ASSUME NEW c \in Call, B!FirstAttempt(c) \/ B!NextAttempt(c)
      PROVE  \E n \in 0 .. RetryCount : B!PublishAttempt(c, n) /\ rid[c] \in Rid
  <2>1. CASE B!FirstAttempt(c)
    BY <1>1, <2>1 DEF B!FirstAttempt
  <2>2. CASE B!NextAttempt(c)
    <3>1. attempt[c] + 1 \in 0 .. RetryCount
      BY <1>1, <2>2 DEF B!NextAttempt
    <3>2. QED
      BY <1>1, <2>2, <3>1 DEF B!NextAttempt
  <2>3. QED
    BY <1>2, <2>1, <2>2
<1>3. CASE \E c \in Call : B!FirstAttempt(c) \/ B!NextAttempt(c)
  BY <1>2, <1>3, PublishChannel
<1>4. CASE \E a \in acks : B!HandleAck(a)
  BY <1>4 DEF B!HandleAck, B!TakeAck
<1>5. CASE UNCHANGED B!channelVars
  BY <1>5 DEF B!channelVars
<1>6. QED
  BY <1>3, <1>4, <1>5
  DEF B!BackendStep, B!CallStep, B!StartUser, B!StartAdmin, B!Register, B!WriteLog,
      B!PublishError, B!FireTimer, B!Expire, B!Connect, B!ConnectionLost, B!Disconnect,
      B!Crash

\* How a call gets on: towards its answer, and to "ok" only with an ok ACK for it.
Moves(d) ==
    \/ pc'[d] = pc[d] /\ outcome'[d] = outcome[d]
    \/ /\ pc[d] \notin {"idle", "done"} /\ pc'[d] \notin {"idle", "done", "log"}
       /\ outcome'[d] = outcome[d]
    \/ /\ pc[d] \notin {"idle", "done"} /\ pc'[d] = "log" /\ outcome'[d] # "none"
       /\ outcome'[d] = "ok" => \E a \in acks : a.ok /\ a.rid = rid[d]

LEMMA FailMoves ==
    ASSUME B!TypeOK, NEW c \in Call, pc[c] \notin {"idle", "done"}, NEW o, o # "none",
           o = "ok" => \E a \in acks : a.ok /\ a.rid = rid[c], B!Fail(c, o)
    PROVE  \A d \in Call : Moves(d)
  BY DEF B!TypeOK, B!Fail, Moves

LEMMA RetryMoves ==
    ASSUME B!TypeOK, NEW c \in Call, pc[c] \notin {"idle", "done"}, NEW n, B!Retry(c, n)
    PROVE  \A d \in Call : Moves(d)
<1>1. CASE B!Fail(c, "bad_gateway")
  BY <1>1, FailMoves
<1>2. CASE pc' = [pc EXCEPT ![c] = "delay"] /\ UNCHANGED outcome
  BY <1>2 DEF B!TypeOK, Moves
<1>3. QED
  BY <1>1, <1>2 DEF B!Retry

LEMMA SettleMoves ==
    ASSUME B!TypeOK, NEW t \in B!Attempt,
           \/ B!Resolve(t) /\ \E a \in acks : a.ok /\ a.rid = rid[t.call]
           \/ B!Reject(t) \/ B!RejectTimeout(t)
    PROVE  \A d \in Call : Moves(d)
<1>1. CASE ~B!Waiting(t)
  BY <1>1 DEF B!Resolve, B!Reject, B!RejectTimeout, Moves
<1>2. CASE B!Waiting(t)
  <2>1. t.call \in Call
    BY DEF B!Attempt
  <2>2. pc[t.call] = "await"
    BY <1>2 DEF B!Waiting
  <2>3. \/ B!Fail(t.call, "ok") /\ \E a \in acks : a.ok /\ a.rid = rid[t.call]
        \/ B!Retry(t.call, t.attempt)
        \/ B!Fail(t.call, "timeout")
    BY <1>2 DEF B!Resolve, B!Reject, B!RejectTimeout
  <2>4. pc[t.call] \notin {"idle", "done"}
    BY <2>2
  <2>5. CASE B!Fail(t.call, "ok") /\ \E a \in acks : a.ok /\ a.rid = rid[t.call]
    BY <2>1, <2>4, <2>5, FailMoves
  <2>6. CASE B!Retry(t.call, t.attempt)
    BY <2>1, <2>4, <2>6, RetryMoves
  <2>7. CASE B!Fail(t.call, "timeout")
    BY <2>1, <2>4, <2>7, FailMoves
  <2>8. QED
    BY <2>3, <2>5, <2>6, <2>7
<1>3. QED
  BY <1>1, <1>2

\* An ACK is only taken for the call that asked for its id.
LEMMA HandleAckMoves ==
    ASSUME BackendInv, NEW a \in acks, B!HandleAck(a)
    PROVE  \A d \in Call : Moves(d)
<1> DEFINE e == B!Lookup(a.rid)
<1>1. B!TypeOK
  BY DEF BackendInv, B!TypeInv
<1>2. CASE e = None
  <2>1. UNCHANGED <<pc, outcome>>
    BY <1>2 DEF B!HandleAck
  <2>2. QED
    BY <2>1 DEF Moves
<1>3. CASE e # None
  <2>1. a.rid \in Rid /\ e = pending[a.rid]
    BY <1>3 DEF B!Lookup
  <2>2. e \in B!Attempt /\ rid[e.call] = a.rid
    BY <1>1, <1>3, <2>1 DEF B!TypeOK, BackendInv, B!PendingMatchesCalls, B!EntryHasItsId
  <2>3. \/ a.ok /\ B!Resolve(e)
        \/ B!Reject(e)
    BY <1>3 DEF B!HandleAck
  <2> HIDE DEF e
  <2>4. QED
    BY <1>1, <2>2, <2>3, SettleMoves
<1>4. QED
  BY <1>2, <1>3

LEMMA FireTimerMoves ==
    ASSUME BackendInv, NEW t \in timers, B!FireTimer(t)
    PROVE  \A d \in Call : Moves(d)
<1> DEFINE e == B!Lookup(rid[t.call])
<1>1. B!TypeOK
  BY DEF BackendInv, B!TypeInv
<1>2. CASE e = None
  <2>1. UNCHANGED <<pc, outcome>>
    BY <1>2 DEF B!FireTimer
  <2>2. QED
    BY <2>1 DEF Moves
<1>3. CASE e # None
  <2>1. e \in B!Attempt
    BY <1>1, <1>3 DEF B!TypeOK, B!Lookup
  <2>2. B!RejectTimeout(e)
    BY <1>3 DEF B!FireTimer
  <2> HIDE DEF e
  <2>3. QED
    BY <1>1, <2>1, <2>2, SettleMoves
<1>4. QED
  BY <1>2, <1>3

LEMMA PublishMoves ==
    ASSUME B!TypeOK, NEW c \in Call, B!FirstAttempt(c) \/ B!NextAttempt(c)
    PROVE  \A d \in Call : Moves(d)
<1>1. pc[c] \notin {"idle", "done"}
  BY DEF B!FirstAttempt, B!NextAttempt
<1>2. PICK n : B!PublishAttempt(c, n)
  BY DEF B!FirstAttempt, B!NextAttempt
<1>3. CASE B!Retry(c, n)
  BY <1>1, <1>3, RetryMoves
<1>4. CASE pc' = [pc EXCEPT ![c] = "await"] /\ UNCHANGED outcome
  BY <1>1, <1>4 DEF B!TypeOK, Moves
<1>5. QED
  BY <1>2, <1>3, <1>4 DEF B!PublishAttempt

LEMMA DisconnectMoves ==
    ASSUME B!TypeOK, B!Disconnect
    PROVE  \A d \in Call : Moves(d)
<1> DEFINE hit(c) == \E t \in {pending[r] : r \in Rid} \ {None} :
                         t.call = c /\ B!Waiting(t)
<1>1. /\ pc' = [c \in Call |-> IF ~hit(c) THEN pc[c]
                               ELSE IF attempt[c] < RetryCount THEN "delay" ELSE "log"]
      /\ outcome' = [c \in Call |-> IF hit(c) /\ attempt[c] = RetryCount
                                    THEN "bad_gateway" ELSE outcome[c]]
  BY DEF B!Disconnect
<1>2. \A c \in Call : hit(c) => pc[c] = "await"
  BY DEF B!Waiting
<1>3. \A c \in Call : attempt[c] \in 0 .. RetryCount /\ RetryCount \in Nat
  BY SystemAssumption DEF B!TypeOK
<1> HIDE DEF hit
<1>4. \A c \in Call : ~(attempt[c] < RetryCount) => attempt[c] = RetryCount
  BY <1>3
<1>5. \A c \in Call : attempt[c] < RetryCount => attempt[c] # RetryCount
  BY <1>3
<1>6. ASSUME NEW c \in Call PROVE Moves(c)
  <2>1. CASE ~hit(c)
    BY <1>1, <2>1 DEF Moves
  <2>2. CASE hit(c) /\ attempt[c] < RetryCount
    <3>1. pc'[c] = "delay" /\ outcome'[c] = outcome[c] /\ pc[c] = "await"
      BY <1>1, <1>2, <1>5, <2>2
    <3>2. QED
      BY <3>1 DEF Moves
  <2>3. CASE hit(c) /\ ~(attempt[c] < RetryCount)
    <3>1. pc'[c] = "log" /\ outcome'[c] = "bad_gateway" /\ pc[c] = "await"
      BY <1>1, <1>2, <1>4, <2>3
    <3>2. QED
      BY <3>1 DEF Moves
  <2>4. QED
    BY <2>1, <2>2, <2>3
<1>7. QED
  BY <1>6

\* Every step of the backend starts a call, ends one, or moves some on.
LEMMA CallsMove ==
    ASSUME BackendInv, B!BackendStep
    PROVE  \/ \E c \in Call, r \in Rid : B!StartUser(c, r) \/ B!StartAdmin(c, r)
           \/ \E c \in Call : B!WriteLog(c)
           \/ UNCHANGED <<rid, answer, gateLog>> /\ \A d \in Call : Moves(d)
<1>1. B!TypeOK
  BY DEF BackendInv, B!TypeInv
<1>2. ASSUME NEW c \in Call, B!Register(c) PROVE \A d \in Call : Moves(d)
  <2>1. pc[c] \notin {"idle", "done"}
    BY <1>2 DEF B!Register
  <2>2. CASE \E o \in {"conflict", "db_error"} : B!Fail(c, o)
    BY <1>1, <2>1, <2>2, FailMoves
  <2>3. CASE pc' = [pc EXCEPT ![c] = "registered"] /\ UNCHANGED outcome
    BY <1>1, <2>1, <2>3 DEF B!TypeOK, Moves
  <2>4. QED
    BY <1>2, <2>2, <2>3 DEF B!Register
<1>3. ASSUME NEW t \in publishing, B!PublishError(t) PROVE \A d \in Call : Moves(d)
  <2>1. t \in B!Attempt
    BY <1>1 DEF B!TypeOK
  <2>2. QED
    BY <1>1, <1>3, <2>1, SettleMoves DEF B!PublishError
<1>4. CASE B!Crash
  <2>1. \A d \in Call : Moves(d)
    BY <1>4 DEF B!Crash, Moves
  <2>2. QED
    BY <1>4, <2>1 DEF B!Crash
<1>5. CASE B!Disconnect
  BY <1>1, <1>5, DisconnectMoves DEF B!Disconnect
<1>6. CASE \E a \in acks : B!HandleAck(a)
  BY <1>6, HandleAckMoves DEF B!HandleAck
<1>7. CASE \E t \in timers : B!FireTimer(t)
  BY <1>7, FireTimerMoves DEF B!FireTimer
<1>8. CASE \E c \in Call : B!FirstAttempt(c) \/ B!NextAttempt(c)
  <2>1. \A d \in Call : Moves(d)
    BY <1>1, <1>8, PublishMoves
  <2>2. UNCHANGED <<rid, answer, gateLog>>
    BY <1>8 DEF B!FirstAttempt, B!NextAttempt, B!PublishAttempt
  <2>3. QED
    BY <2>1, <2>2
<1>9. CASE (\E c \in Call : B!Register(c)) \/ \E t \in publishing : B!PublishError(t)
  BY <1>2, <1>3, <1>9 DEF B!Register, B!PublishError
<1>10. CASE \/ \E r \in Rid : B!Expire(r)
            \/ B!Connect \/ B!ConnectionLost
  <2>1. UNCHANGED <<pc, rid, outcome, answer, gateLog>>
    BY <1>10 DEF B!Expire, B!Connect, B!ConnectionLost, B!callVars
  <2>2. QED
    BY <2>1 DEF Moves
<1>11. QED
  BY <1>4, <1>5, <1>6, <1>7, <1>8, <1>9, <1>10 DEF B!BackendStep, B!CallStep

-----------------------------------------------------------------------------
(* Steps of the system, seen by the components *)

\* To the controller the backend is somebody who publishes commands and takes ACKs.
LEMMA GateSees ==
    ASSUME BackendInv, [Next]_vars
    PROVE  [G!Next]_(G!vars)
<1>1. CASE GateStep
  <2>1. G!GateStep
    BY <1>1, SameGateStep DEF GateStep
  <2>2. QED
    BY <2>1 DEF G!Next
<1>2. CASE Loss
  BY <1>2 DEF Loss, LoseCommand, LoseAck, G!Next, G!LoseCommand, G!LoseAck, G!gateVars,
              gateVars
<1>3. CASE BackendStep
  <2>1. B!BackendStep /\ UNCHANGED gateVars
    BY <1>3, SameBackendStep DEF BackendStep
  <2>2. UNCHANGED G!gateVars
    BY <2>1 DEF gateVars, G!gateVars
  <2>3. copies' = copies
    BY <2>1, BackendChannel
  <2>4. CASE cmds' = cmds /\ acks' = acks
    BY <2>2, <2>3, <2>4 DEF G!vars, G!channelVars
  <2>5. CASE cmds' = cmds /\ \E a \in acks : acks' = acks \ {a}
    BY <2>2, <2>3, <2>5 DEF G!Next, G!LoseAck
  <2>6. ASSUME NEW c \in Call, NEW n \in 0 .. RetryCount, acks' = acks, rid[c] \in Rid,
               cmds' = cmds \cup {[rid |-> rid[c], kind |-> "open", issuedAt |-> n]}
        PROVE  [G!Next]_(G!vars)
    <3> DEFINE m == [rid |-> rid[c], kind |-> "open", issuedAt |-> n]
    <3>1. m \in Command
      BY <2>6 DEF Command
    <3>2. CASE m \in cmds
      <4>1. cmds' = cmds
        BY <2>6, <3>2
      <4>2. QED
        BY <2>2, <2>3, <2>6, <4>1 DEF G!vars, G!channelVars
    <3>3. CASE m \notin cmds
      <4> HIDE DEF m
      <4>1. m \in Command \ cmds /\ cmds' = cmds \cup {m}
        BY <2>6, <3>1, <3>3 DEF m
      <4>2. G!EnvPublish
        BY <2>2, <2>3, <2>6, <4>1 DEF G!EnvPublish, G!PublishCommand
      <4>3. QED
        BY <4>2 DEF G!Next
    <3>4. QED
      BY <3>2, <3>3
  <2>7. QED
    BY <2>1, <2>4, <2>5, <2>6, BackendChannel
<1>4. CASE UNCHANGED vars
  BY <1>4 DEF vars, gateVars, channelVars, G!vars, G!gateVars, G!channelVars
<1>5. QED
  BY <1>1, <1>2, <1>3, <1>4 DEF Next

LEMMA GateInvStep ==
    ASSUME GateInv, BackendInv, [Next]_vars
    PROVE  GateInv'
<1>1. [G!Next]_(G!vars)
  BY GateSees
<1>2. G!TypeOK'
  BY <1>1, G!TypeOKStep, ComponentAssumptions DEF GateInv
<1>3. G!CacheInv'
  BY <1>1, G!CacheInvStep, ComponentAssumptions DEF GateInv
<1>4. G!OkAckInv'
  BY <1>1, G!OkAckStep, ComponentAssumptions DEF GateInv
<1>5. QED
  BY <1>2, <1>3, <1>4 DEF GateInv

\* The backend's invariant is about its own variables and the types of the channel,
\* which the controller keeps.
LEMMA BackendInvStep ==
    ASSUME GateInv, BackendInv, [Next]_vars
    PROVE  BackendInv'
<1>1. CASE BackendStep
  <2>1. [B!Next]_(B!vars)
    BY <1>1, SameBackendStep DEF BackendStep, B!Next
  <2>2. B!TypeInv'
    BY <2>1, B!TypeOKStep, B!RidInvStep, B!StartedInvStep, ComponentAssumptions
    DEF BackendInv, B!TypeInv
  <2>3. B!UniqueInv'
    BY <2>1, B!UniqueInvStep, ComponentAssumptions DEF BackendInv
  <2>4. B!PendingMatchesCalls'
    BY <2>1, B!PendingInvStep, ComponentAssumptions DEF BackendInv
  <2>5. QED
    BY <2>2, <2>3, <2>4 DEF BackendInv
<1>2. CASE UNCHANGED backendVars
  <2>1. G!TypeOK'
    BY GateInvStep DEF GateInv
  <2>2. G!Ack = B!Ack
    BY DEF G!Ack, B!Ack, G!ErrorCode, B!ErrorCode
  <2>3. cmds' \subseteq Command /\ acks' \subseteq B!Ack /\ copies' \in Nat
    BY <2>1, <2>2 DEF G!TypeOK
  <2>4. B!TypeOK'
    BY <1>2, <2>3 DEF BackendInv, B!TypeInv, B!TypeOK, backendVars, Command
  <2>5. B!RidInv'
    BY <1>2 DEF BackendInv, B!TypeInv, B!RidInv, backendVars
  <2>6. B!StartedInv'
    BY <1>2 DEF BackendInv, B!TypeInv, B!StartedInv, B!Attempts, backendVars
  <2>7. B!UniqueInv'
    BY <1>2 DEF BackendInv, B!UniqueInv, B!StaysRegistered, B!OneCallPerRequestId,
                B!InDevice, backendVars
  <2>8. B!PendingMatchesCalls'
    BY <1>2 DEF BackendInv, B!PendingMatchesCalls, B!WaiterIsPending, B!EntryHasItsId,
                B!NoStaleEntry, B!Waiting, B!Current, backendVars
  <2>9. QED
    BY <2>4, <2>5, <2>6, <2>7, <2>8 DEF BackendInv, B!TypeInv
<1>3. QED
  BY <1>1, <1>2 DEF Next, GateStep, Loss, vars

-----------------------------------------------------------------------------
(* What the components do not know *)

\* Nothing the controller was pulsed for is forgotten, a reset included.
LEMMA OpenedGrows ==
    ASSUME GateInv, BackendInv, [Next]_vars
    PROVE  /\ Opened \subseteq Opened'
           /\ \A r : G!Opened(r) <=> r \in Opened
<1>1. \A r : G!Opened(r) <=> r \in Opened
  BY DEF G!Opened, Opened, ToSet, GateInv, G!TypeOK
<1>2. G!TypeOK'
  BY GateInvStep DEF GateInv
<1>3. \A r : G!Opened(r)' <=> r \in Opened'
  <2>1. history' \in Seq(Rid)
    BY <1>2 DEF G!TypeOK
  <2>2. QED
    BY <2>1 DEF G!Opened, Opened, ToSet
<1>4. [G!Next]_(G!vars)
  BY GateSees
<1>5. \A r : G!Opened(r) => G!Opened(r)'
  BY <1>4, G!OpenedStable, ComponentAssumptions DEF GateInv
<1>6. QED
  BY <1>1, <1>3, <1>5

LEMMA OkAckIsOpened ==
    ASSUME GateInv, NEW a \in acks, a.ok
    PROVE  a.rid \in Opened
  BY DEF GateInv, G!OkAckInv, G!OkAckMeansOpened, G!TypeOK, Opened, ToSet

LEMMA CallInvStep ==
    ASSUME GateInv, BackendInv, CallInv, [Next]_vars
    PROVE  CallInv'
<1>1. Opened \subseteq Opened'
  BY OpenedGrows
<1>2. B!TypeOK
  BY DEF BackendInv, B!TypeInv
<1>3. ASSUME UNCHANGED <<pc, rid, outcome, answer, gateLog>> PROVE CallInv'
  BY <1>1, <1>3 DEF CallInv, SuccessMeansOpened
<1>4. ASSUME NEW c \in Call, NEW r \in Rid, B!StartUser(c, r) \/ B!StartAdmin(c, r)
      PROVE  CallInv'
  <2>1. /\ rid' = [rid EXCEPT ![c] = r] /\ pc[c] = "idle"
        /\ pc'[c] \in {"register", "registered"}
        /\ \A d \in Call : d # c => pc'[d] = pc[d]
        /\ UNCHANGED <<outcome, answer, gateLog>>
    BY <1>2, <1>4 DEF B!StartUser, B!StartAdmin, B!TypeOK
  <2>2. \A d \in Call : d # c => rid'[d] = rid[d]
    BY <1>2, <2>1 DEF B!TypeOK
  <2>3. outcome[c] = "none" /\ answer[c] = "none"
    BY <2>1 DEF CallInv
  <2>4. \A d \in Call : pc'[d] = "idle" => outcome'[d] = "none" /\ rid'[d] = NoRid
    BY <2>1, <2>2 DEF CallInv
  <2>5. \A d \in Call : pc'[d] # "done" => answer'[d] = "none"
    BY <2>1, <2>3 DEF CallInv
  <2>6. \A d \in Call : pc'[d] = "log" => outcome'[d] # "none"
    BY <2>1 DEF CallInv
  <2>7. SuccessMeansOpened'
    BY <1>1, <2>1, <2>2, <2>3 DEF CallInv, SuccessMeansOpened
  <2>8. QED
    BY <2>4, <2>5, <2>6, <2>7 DEF CallInv
<1>5. ASSUME NEW c \in Call, B!WriteLog(c) PROVE CallInv'
  <2>1. /\ pc[c] = "log" /\ pc' = [pc EXCEPT ![c] = "done"]
        /\ UNCHANGED <<rid, outcome>>
        /\ gateLog' = gateLog \/ gateLog' = gateLog \cup {B!Row(c)}
        /\ \A d \in Call : d # c => answer'[d] = answer[d]
    BY <1>2, <1>5 DEF B!WriteLog, B!TypeOK
  <2>2. pc'[c] = "done" /\ \A d \in Call : d # c => pc'[d] = pc[d]
    BY <1>2, <2>1 DEF B!TypeOK
  <2>3. B!Row(c).rid = rid[c]
        /\ (B!Row(c).status = "success" => outcome[c] = "ok")
    BY Zenon DEF B!Row, B!StatusOf
  <2>4. \A row \in gateLog' : row.status = "success" => row.rid \in Opened
    BY <2>1, <2>3 DEF CallInv, SuccessMeansOpened
  <2>5. SuccessMeansOpened'
    BY <1>1, <2>1, <2>4 DEF CallInv, SuccessMeansOpened
  <2>6. QED
    BY <2>1, <2>2, <2>5 DEF CallInv
<1>6. ASSUME UNCHANGED <<rid, answer, gateLog>>, \A d \in Call : Moves(d)
      PROVE  CallInv'
  <2>1. \A d \in Call : pc'[d] = "idle" => outcome'[d] = "none" /\ rid'[d] = NoRid
    BY <1>6 DEF CallInv, Moves
  <2>2. \A d \in Call : pc'[d] # "done" => answer'[d] = "none"
    BY <1>6 DEF CallInv, Moves
  <2>3. \A d \in Call : pc'[d] = "log" => outcome'[d] # "none"
    BY <1>6 DEF CallInv, Moves
  <2>4. ASSUME NEW d \in Call, outcome'[d] = "ok" PROVE rid[d] \in Opened
    <3>1. CASE outcome[d] = "ok"
      BY <3>1 DEF CallInv, SuccessMeansOpened
    <3>2. CASE outcome[d] # "ok"
      <4>1. \E a \in acks : a.ok /\ a.rid = rid[d]
        BY <1>6, <2>4, <3>2 DEF Moves
      <4>2. QED
        BY <4>1, OkAckIsOpened
    <3>3. QED
      BY <3>1, <3>2
  <2>5. SuccessMeansOpened'
    BY <1>1, <1>6, <2>4 DEF CallInv, SuccessMeansOpened
  <2>6. QED
    BY <2>1, <2>2, <2>3, <2>5 DEF CallInv
<1>7. CASE BackendStep
  <2>1. B!BackendStep
    BY <1>7, SameBackendStep DEF BackendStep
  <2>2. QED
    BY <2>1, <1>4, <1>5, <1>6, CallsMove
<1>8. CASE UNCHANGED backendVars
  BY <1>3, <1>8 DEF backendVars
<1>9. QED
  BY <1>7, <1>8 DEF Next, GateStep, Loss, vars

LEMMA AskedStep ==
    ASSUME GateInv, BackendInv, CallInv, Asked, [Next]_vars
    PROVE  Asked'
<1>1. B!TypeOK /\ \A c \in Call : pc[c] # "idle" => rid[c] \in Rid
  BY DEF BackendInv, B!TypeInv, B!RidInv
<1>2. \A m \in cmds : m.rid \in Rid
  BY <1>1 DEF B!TypeOK
<1>3. CASE BackendStep
  <2>1. B!BackendStep
    BY <1>3, SameBackendStep DEF BackendStep
  <2>2. \A c \in Call : rid[c] # NoRid => rid'[c] = rid[c]
    <3>1. ASSUME NEW c \in Call, NEW r \in Rid, B!StartUser(c, r) \/ B!StartAdmin(c, r)
          PROVE  \A d \in Call : rid[d] # NoRid => rid'[d] = rid[d]
      <4>1. rid' = [rid EXCEPT ![c] = r] /\ rid[c] = NoRid
        BY <3>1 DEF B!StartUser, B!StartAdmin, CallInv
      <4>2. QED
        BY <1>1, <4>1 DEF B!TypeOK
    <3>2. CASE \E c \in Call : B!WriteLog(c)
      BY <3>2 DEF B!WriteLog
    <3>3. QED
      BY <2>1, <3>1, <3>2, CallsMove
  <2>3. \A m \in cmds : \E c \in Call : rid'[c] = m.rid
    BY <1>2, <2>2, NoRidAssumption DEF Asked
  <2>4. \A m \in cmds' : m \in cmds \/ \E c \in Call : rid'[c] = m.rid
    BY <2>1, BackendChannel
  <2>5. QED
    BY <2>3, <2>4 DEF Asked
<1>4. CASE GateStep \/ Loss \/ UNCHANGED vars
  <2>1. rid' = rid
    BY <1>4 DEF GateStep, Loss, vars, backendVars
  <2>2. cmds' \subseteq cmds
    <3>1. CASE Loss \/ UNCHANGED vars
      BY <3>1 DEF Loss, LoseCommand, LoseAck, vars, channelVars
    <3>2. CASE GateStep
      <4>1. G!GateStep
        BY <3>2, SameGateStep DEF GateStep
      <4>2. QED
        BY <4>1
        DEF G!GateStep, G!HandleCommand, G!DropOffline, G!RejectBadPayload,
            G!RejectUnknown, G!AckDuplicate, G!RejectCooldown, G!BeginPulse, G!EndPulse,
            G!Tick, G!SessionChange, G!Reboot, G!Accepted, G!Receive, G!TakeCommand,
            G!channelVars
    <3>3. QED
      BY <1>4, <3>1, <3>2
  <2>3. QED
    BY <2>1, <2>2 DEF Asked
<1>5. QED
  BY <1>3, <1>4 DEF Next

LEMMA SystemInvInit == Init => SystemInv
<1> SUFFICES ASSUME Init PROVE SystemInv
  OBVIOUS
<1>1. G!Init
  BY DEF Init, Gate!GateInit, G!Init, G!GateInit, ChannelInit, G!ChannelInit
<1>2. GateInv
  BY <1>1, G!TypeOKInit, G!CacheInvInit, G!OkAckInit, ComponentAssumptions DEF GateInv
<1>3. B!Init
  BY DEF Init, Backend!BackendInit, B!Init, B!BackendInit, ChannelInit, B!ChannelInit
<1>4. BackendInv
  BY <1>3, B!TypeInvInit, B!UniqueInvInit, B!PendingInvInit, ComponentAssumptions
  DEF BackendInv
<1>5. CallInv /\ Asked
  BY DEF Init, Backend!BackendInit, ChannelInit, CallInv, SuccessMeansOpened, Asked
<1>6. QED
  BY <1>2, <1>4, <1>5 DEF SystemInv

LEMMA SystemInvStep == SystemInv /\ [Next]_vars => SystemInv'
  BY GateInvStep, BackendInvStep, CallInvStep, AskedStep DEF SystemInv

LEMMA SystemInvCorrect == Spec => []SystemInv
  BY SystemInvInit, SystemInvStep, PTL DEF Spec

\* From the caller to the relay and back: whatever is lost, redelivered, reordered,
\* retried, timed out or restarted, "ok" and a success row of GateLog mean that the
\* relay was pulsed for that request id (openByUser, openGate, handleMqttCommand).
THEOREM SuccessCorrect == Spec => []SuccessMeansOpened
<1>1. SystemInv => SuccessMeansOpened
  BY DEF SystemInv, CallInv
<1>2. QED
  BY <1>1, SystemInvCorrect, PTL

-----------------------------------------------------------------------------
(* The promise *)

\* A pulse opens for an id somebody asked for, and that is not remembered.
LEMMA PulseIsOpen ==
    ASSUME SystemInv, NEW m \in Command, G!BeginPulse(m), UNCHANGED <<rid, answer>>
    PROVE  Promise!Open(m.rid)
<1>1. /\ m \in cmds /\ history' = Append(history, m.rid) /\ bootMark' = bootMark
  BY DEF G!BeginPulse, G!Accepted, G!Receive, G!TakeCommand
<1>2. \E c \in Call : rid[c] = m.rid
  BY <1>1 DEF SystemInv, Asked
<1>3. \A i \in bootMark + 1 .. Len(history) :
          Len(history) - i < CacheSize => history[i] # m.rid
  BY G!PulseIsFresh, ComponentAssumptions DEF SystemInv, GateInv
<1>4. ~Promise!Remembered(m.rid)
  BY <1>3 DEF Promise!Remembered
<1>5. QED
  BY <1>1, <1>2, <1>4 DEF Promise!Open

LEMMA GatePromises ==
    ASSUME SystemInv, GateStep
    PROVE  [Promise!Next]_(Promise!vars)
<1>1. G!GateStep /\ UNCHANGED backendVars
  BY SameGateStep DEF GateStep
<1>2. UNCHANGED <<rid, answer>>
  BY <1>1 DEF backendVars
<1>3. ASSUME NEW m \in Command, G!BeginPulse(m)
      PROVE  Promise!Next
  <2>1. Promise!Open(m.rid)
    BY <1>2, <1>3, PulseIsOpen
  <2>2. m.rid \in Rid
    BY DEF Command
  <2>3. QED
    BY <2>1, <2>2 DEF Promise!Next
<1>4. CASE G!Reboot
  BY <1>2, <1>4 DEF G!Reboot, Promise!Restart, Promise!Next
<1>5. CASE UNCHANGED <<history, bootMark>>
  BY <1>2, <1>5 DEF Promise!vars
<1>6. QED
  BY <1>1, <1>3, <1>4, <1>5
  DEF G!GateStep, G!HandleCommand, G!DropOffline, G!RejectBadPayload, G!RejectUnknown,
      G!AckDuplicate, G!RejectCooldown, G!EndPulse, G!Tick, G!SessionChange, G!gateVars

LEMMA BackendPromises ==
    ASSUME SystemInv, BackendStep
    PROVE  [Promise!Next]_(Promise!vars)
<1>1. B!BackendStep /\ UNCHANGED <<history, bootMark>>
  BY SameBackendStep DEF BackendStep, gateVars
<1>2. ASSUME NEW c \in Call, NEW r \in Rid, B!StartUser(c, r) \/ B!StartAdmin(c, r)
      PROVE  Promise!Next
  <2>1. Promise!Ask(c, r)
    BY <1>1, <1>2 DEF B!StartUser, B!StartAdmin, Promise!Ask, SystemInv, CallInv
  <2>2. QED
    BY <2>1 DEF Promise!Next
<1>3. ASSUME NEW c \in Call, B!WriteLog(c)
      PROVE  Promise!Next
  <2>1. pc[c] = "log" /\ UNCHANGED rid
    BY <1>3 DEF B!WriteLog
  <2>2. answer[c] = "none" /\ outcome[c] # "none"
        /\ (outcome[c] = "ok" => rid[c] \in ToSet(history))
    BY <2>1 DEF SystemInv, CallInv, SuccessMeansOpened, Opened
  <2>3. rid[c] # NoRid
    BY <2>1, NoRidAssumption DEF SystemInv, BackendInv, B!TypeInv, B!RidInv
  <2>4. outcome[c] \in Backend!Outcome \ {"none"}
    BY <2>2 DEF SystemInv, BackendInv, B!TypeInv, B!TypeOK, B!Outcome, Backend!Outcome
  <2>5. "db_error" \in Backend!Outcome \ {"none"}
    BY DEF Backend!Outcome
  <2>6. \/ answer' = [answer EXCEPT ![c] = outcome[c]]
        \/ answer' = [answer EXCEPT ![c] = "db_error"]
    BY <1>3 DEF B!WriteLog
  <2>7. ASSUME NEW a \in Backend!Outcome \ {"none"}, answer' = [answer EXCEPT ![c] = a],
               a = "ok" => rid[c] \in ToSet(history)
        PROVE  Promise!Tell(c, a)
    BY <1>1, <2>1, <2>2, <2>3, <2>7 DEF Promise!Tell, Promise!ToSet, ToSet
  <2>8. \E a \in Backend!Outcome \ {"none"} : Promise!Tell(c, a)
    <3>1. CASE answer' = [answer EXCEPT ![c] = outcome[c]]
      BY <2>2, <2>4, <2>7, <3>1
    <3>2. CASE answer' = [answer EXCEPT ![c] = "db_error"]
      <4>1. Promise!Tell(c, "db_error")
        BY <2>5, <2>7, <3>2
      <4>2. QED
        BY <2>5, <4>1
    <3>3. QED
      BY <2>6, <3>1, <3>2
  <2>9. QED
    BY <2>8 DEF Promise!Next
<1>4. CASE UNCHANGED <<rid, answer, gateLog>>
  BY <1>1, <1>4 DEF Promise!vars
<1>5. BackendInv
  BY DEF SystemInv
<1>6. QED
  BY <1>1, <1>2, <1>3, <1>4, <1>5, CallsMove

\* The system keeps GateSpec's promise: it opens only for an id somebody asked for,
\* not again for one of the last CacheSize of this boot, and tells a caller "ok" only
\* if the gate opened for it.  BeginPulse is Open, WriteLog is Tell, the start of a
\* call is Ask, a reset of the controller is Restart, and nothing else is seen.
THEOREM ImplementsCorrect == Spec => ImplementsGateSpec
<1>1. Init => Promise!Init
  BY DEF Init, Backend!BackendInit, Gate!GateInit, Promise!Init
<1>2. SystemInv /\ [Next]_vars => [Promise!Next]_(Promise!vars)
  <2> SUFFICES ASSUME SystemInv, [Next]_vars PROVE [Promise!Next]_(Promise!vars)
    OBVIOUS
  <2>1. CASE UNCHANGED <<rid, answer, history, bootMark>>
    BY <2>1 DEF Promise!vars
  <2>2. QED
    BY <2>1, GatePromises, BackendPromises
    DEF Next, Loss, vars, backendVars, gateVars
<1>3. QED
  BY <1>1, <1>2, SystemInvCorrect, PTL DEF Spec, ImplementsGateSpec, Promise!Spec
=============================================================================
