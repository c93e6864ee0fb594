-------------------------- MODULE GateBackendProofs --------------------------
(***************************************************************************)
(* Theorems about the backend's command path, for any set of calls and     *)
(* request ids and any retry count.                                        *)
(***************************************************************************)
EXTENDS GateBackend, Integers, TLAPS

-----------------------------------------------------------------------------
(* Type correctness *)

\* Continuing or ending the retry loop keeps the types of pc and outcome.
LEMMA RetryType ==
    ASSUME TypeOK, NEW c \in Call, NEW n \in 0 .. RetryCount, Retry(c, n)
    PROVE  pc' \in [Call -> PC] /\ outcome' \in [Call -> Outcome]
  BY DEF Retry, Fail, TypeOK, PC, Outcome

\* So does settling an attempt.
LEMMA SettleType ==
    ASSUME TypeOK, NEW t \in Attempt,
           Resolve(t) \/ Reject(t) \/ RejectTimeout(t)
    PROVE  pc' \in [Call -> PC] /\ outcome' \in [Call -> Outcome]
<1>1. t.call \in Call /\ t.attempt \in 0 .. RetryCount
  BY DEF Attempt
<1>2. CASE UNCHANGED <<pc, outcome>>
  BY <1>2 DEF TypeOK
<1>3. CASE Retry(t.call, t.attempt)
  BY <1>1, <1>3, RetryType
<1>4. CASE Fail(t.call, "ok") \/ Fail(t.call, "timeout")
  BY <1>1, <1>4 DEF Fail, TypeOK, PC, Outcome
<1>5. QED
  BY <1>2, <1>3, <1>4 DEF Resolve, Reject, RejectTimeout

\* Publishing attempt n of a call.
LEMMA PublishType ==
    ASSUME TypeOK, NEW c \in Call, NEW n \in 0 .. RetryCount, rid[c] \in Rid,
           PublishAttempt(c, n)
    PROVE  TypeOK'
<1>1. /\ attempt' \in [Call -> 0 .. RetryCount]
      /\ UNCHANGED <<rid, answer, requests, isConnected, closing, gateLog,
                     robbed, crashes, acks, copies>>
  BY DEF PublishAttempt, TypeOK
<1>2. CASE ~isConnected
  <2>1. Retry(c, n) /\ UNCHANGED <<pending, timers, publishing, cmds>>
    BY <1>2 DEF PublishAttempt
  <2>2. QED
    BY <1>1, <2>1, RetryType DEF TypeOK
<1>3. CASE isConnected
  <2>1. [call |-> c, attempt |-> n] \in Attempt
    BY DEF Attempt
  <2>2. /\ pending' = [pending EXCEPT ![rid[c]] = [call |-> c, attempt |-> n]]
        /\ timers' = timers \cup {[call |-> c, attempt |-> n]}
        /\ publishing' = publishing \cup {[call |-> c, attempt |-> n]}
        /\ cmds' = cmds \cup
              {[rid |-> rid[c], kind |-> "open", issuedAt |-> n]}
        /\ pc' = [pc EXCEPT ![c] = "await"] /\ UNCHANGED outcome
    BY <1>3 DEF PublishAttempt, PublishCommand
  <2>3. /\ pending' \in [Rid -> Attempt \cup {None}]
        /\ timers' \subseteq Attempt /\ publishing' \subseteq Attempt
    BY <2>1, <2>2 DEF TypeOK
  <2>4. cmds' \subseteq
            [rid : Rid, kind : {"open"}, issuedAt : 0 .. RetryCount]
    BY <2>2 DEF TypeOK
  <2>5. pc' \in [Call -> PC]
    BY <2>2 DEF TypeOK, PC
  <2>6. QED
    BY <1>1, <2>2, <2>3, <2>4, <2>5 DEF TypeOK
<1>4. QED
  BY <1>2, <1>3 DEF TypeOK

\* The request ids of calls: a started call has one, and a fresh one is its
\* own (randomUUID).
RidInv ==
    /\ \A c \in Call : pc[c] # "idle" => rid[c] \in Rid
    /\ \A c \in Call : pc[c] = "delay" => attempt[c] < RetryCount
    /\ \A c, d \in Call : rid[c] = rid[d] /\ rid[c] \in FreshRid => c = d

\* The attempts that anything in memory still knows of, and that their calls have
\* begun.
Attempts == timers \cup publishing \cup ({pending[r] : r \in Rid} \ {None})
StartedInv == \A t \in Attempts : pc[t.call] # "idle"

TypeInv == TypeOK /\ RidInv /\ StartedInv

\* Types are kept by every step.
LEMMA TypeOKStep == TypeInv /\ [Next]_vars => TypeOK'
<1> SUFFICES ASSUME TypeInv, [Next]_vars PROVE TypeOK'
  OBVIOUS
<1>0. TypeOK
  BY DEF TypeInv
<1>1. ASSUME NEW c \in Call, NEW r \in Rid, StartUser(c, r) \/ StartAdmin(c, r)
      PROVE  TypeOK'
  BY <1>0, <1>1 DEF StartUser, StartAdmin, TypeOK, PC, deviceVars, channelVars
<1>2. ASSUME NEW c \in Call, Register(c) PROVE TypeOK'
  <2>1. requests' \subseteq Rid
    BY <1>0, <1>2 DEF Register, TypeInv, RidInv, TypeOK
  <2>2. pc' \in [Call -> PC] /\ outcome' \in [Call -> Outcome]
    BY <1>0, <1>2 DEF Register, Fail, TypeOK, PC, Outcome
  <2>3. QED
    BY <1>0, <1>2, <2>1, <2>2 DEF Register, TypeOK, deviceVars, channelVars
<1>3. ASSUME NEW c \in Call, FirstAttempt(c) PROVE TypeOK'
  BY <1>0, <1>3, RetryAssumption, PublishType
  DEF FirstAttempt, TypeInv, RidInv
<1>4. ASSUME NEW c \in Call, NextAttempt(c) PROVE TypeOK'
  <2>1. attempt[c] + 1 \in 0 .. RetryCount /\ rid[c] \in Rid
    BY <1>0, <1>4, RetryAssumption DEF NextAttempt, TypeInv, RidInv, TypeOK
  <2>2. QED
    BY <1>0, <1>4, <2>1, PublishType DEF NextAttempt
<1>5. ASSUME NEW c \in Call, WriteLog(c) PROVE TypeOK'
  <2>1. rid[c] \in Rid /\ outcome[c] \in Outcome
    BY <1>0, <1>5 DEF WriteLog, TypeInv, RidInv, TypeOK
  <2>2. gateLog' \subseteq [call : Call, rid : Rid, status : Status]
    BY <1>0, <1>5, <2>1 DEF WriteLog, Row, TypeOK, StatusOf, Status
  <2>3. pc' \in [Call -> PC] /\ answer' \in [Call -> Outcome]
    BY <1>0, <1>5, <2>1 DEF WriteLog, TypeOK, PC, Outcome
  <2>4. QED
    BY <1>0, <1>5, <2>2, <2>3 DEF WriteLog, TypeOK, deviceVars, channelVars
<1>6. ASSUME NEW t \in publishing, PublishError(t) PROVE TypeOK'
  <2>1. t \in Attempt
    BY <1>0 DEF TypeOK
  <2>2. pc' \in [Call -> PC] /\ outcome' \in [Call -> Outcome]
    BY <1>0, <1>6, <2>1, SettleType DEF PublishError
  <2>3. /\ pending' \in [Rid -> Attempt \cup {None}]
        /\ timers' \subseteq Attempt /\ publishing' \subseteq Attempt
    BY <1>0, <1>6 DEF PublishError, TypeOK
  <2>4. robbed' \subseteq Rid
    BY <1>0, <1>6 DEF PublishError, Lookup, TypeOK
  <2>5. QED
    BY <1>0, <1>6, <2>2, <2>3, <2>4 DEF PublishError, TypeOK, channelVars
<1>7. ASSUME NEW t \in timers, FireTimer(t) PROVE TypeOK'
  <2> DEFINE e == Lookup(rid[t.call])
  <2>1. e \in Attempt \cup {None}
    BY <1>0 DEF Lookup, TypeOK
  <2>2. pc' \in [Call -> PC] /\ outcome' \in [Call -> Outcome]
    BY <1>0, <1>7, <2>1, SettleType DEF FireTimer, TypeOK
  <2>3. pending' \in [Rid -> Attempt \cup {None}] /\ timers' \subseteq Attempt
    BY <1>0, <1>7 DEF FireTimer, TypeOK
  <2>4. QED
    BY <1>0, <1>7, <2>2, <2>3 DEF FireTimer, TypeOK, channelVars
<1>8. ASSUME NEW a \in acks, HandleAck(a) PROVE TypeOK'
  <2> DEFINE e == Lookup(a.rid)
  <2>1. e \in Attempt \cup {None}
    BY <1>0 DEF Lookup, TypeOK
  <2>2. pc' \in [Call -> PC] /\ outcome' \in [Call -> Outcome]
    BY <1>0, <1>8, <2>1, SettleType DEF HandleAck, TypeOK
  <2>3. pending' \in [Rid -> Attempt \cup {None}] /\ timers' \subseteq Attempt
    BY <1>0, <1>8 DEF HandleAck, TypeOK
  <2>4. QED
    BY <1>0, <1>8, <2>2, <2>3 DEF HandleAck, TakeAck, TypeOK
<1>9. CASE \E r \in Rid : Expire(r)
  BY <1>0, <1>9 DEF Expire, TypeOK, callVars, deviceVars, channelVars
<1>10. CASE Connect \/ ConnectionLost
  BY <1>0, <1>10 DEF Connect, ConnectionLost, TypeOK, callVars, channelVars
<1>11. CASE Disconnect
  <2>1. pc' \in [Call -> PC] /\ outcome' \in [Call -> Outcome]
    BY <1>0, <1>11 DEF Disconnect, TypeOK, PC, Outcome
  <2>2. pending' \in [Rid -> Attempt \cup {None}] /\ timers' \subseteq Attempt
    BY <1>0, <1>11 DEF Disconnect, TypeOK
  <2>3. QED
    BY <1>0, <1>11, <2>1, <2>2 DEF Disconnect, TypeOK, channelVars
<1>12. CASE Crash
  <2>1. pc' \in [Call -> PC]
    BY <1>0, <1>12 DEF Crash, TypeOK, PC
  <2>2. /\ pending' \in [Rid -> Attempt \cup {None}]
        /\ timers' = {} /\ publishing' = {} /\ robbed' = {}
    BY <1>12 DEF Crash
  <2>3. UNCHANGED <<rid, attempt, outcome, answer, requests, gateLog, cmds,
                    acks, copies>>
    BY <1>12 DEF Crash, channelVars
  <2>4. crashes' \in Nat
    BY <1>0, <1>12 DEF Crash, TypeOK
  <2>5. isConnected' \in BOOLEAN /\ closing' \in BOOLEAN
    BY <1>12 DEF Crash
  <2>6. QED
    BY <1>0, <2>1, <2>2, <2>3, <2>4, <2>5 DEF TypeOK
<1>13. CASE EnvDevice
  <2>1. UNCHANGED backendVars
    BY <1>13 DEF EnvDevice
  <2>2. cmds' \subseteq cmds /\ acks' \subseteq Ack /\ copies' \in Nat
    BY <1>0, <1>13, EnvAckAssumption, MaxCopiesAssumption
    DEF EnvDevice, TakeCommand, PublishToAcks, LoseAck, TypeOK
  <2>3. QED
    BY <1>0, <2>1, <2>2 DEF TypeOK, backendVars, callVars, deviceVars
<1>14. CASE UNCHANGED vars
  BY <1>0, <1>14 DEF vars, backendVars, callVars, deviceVars, channelVars, TypeOK
<1>15. QED
  BY <1>1, <1>2, <1>3, <1>4, <1>5, <1>6, <1>7, <1>8, <1>9, <1>10, <1>11,
     <1>12, <1>13, <1>14 DEF Next, BackendStep, CallStep

\* What settling an attempt does to the calls: only the settled call moves, out
\* of its wait, and to the delay only when an attempt is left.
LEMMA SettleEffect ==
    ASSUME TypeOK, NEW t \in Attempt,
           Resolve(t) \/ Reject(t) \/ RejectTimeout(t)
    PROVE  /\ \A c \in Call : c # t.call => pc'[c] = pc[c]
           /\ ~Waiting(t) => pc' = pc
           /\ Waiting(t) => pc'[t.call] \in {"delay", "log"}
           /\ pc'[t.call] = "delay" /\ Waiting(t) =>
                  attempt[t.call] < RetryCount
  BY DEF Resolve, Reject, RejectTimeout, Retry, Fail, Waiting, TypeOK, Attempt

LEMMA RidInvStep == TypeInv /\ [Next]_vars => RidInv'
<1> SUFFICES ASSUME TypeInv, [Next]_vars PROVE RidInv'
  OBVIOUS
<1>0. TypeOK /\ RidInv
  BY DEF TypeInv
<1>1. ASSUME NEW c \in Call, NEW r \in Rid, StartUser(c, r) \/ StartAdmin(c, r)
      PROVE  RidInv'
  <2>1. /\ rid' = [rid EXCEPT ![c] = r] /\ UNCHANGED attempt
        /\ pc' = [pc EXCEPT ![c] = "register"]
           \/ pc' = [pc EXCEPT ![c] = "registered"]
    BY <1>1 DEF StartUser, StartAdmin
  <2>2. r \in FreshRid => \A d \in Call : rid[d] # r
    BY <1>1 DEF StartUser, StartAdmin
  <2>3. QED
    BY <1>0, <2>1, <2>2 DEF RidInv, TypeOK
<1>2. ASSUME UNCHANGED rid,
             \A c \in Call, r \in Rid : ~StartUser(c, r) /\ ~StartAdmin(c, r)
      PROVE  RidInv'
  <2>1. ASSUME NEW c \in Call
        PROVE  /\ pc'[c] # "idle" => rid[c] \in Rid
               /\ pc'[c] = "delay" => attempt'[c] < RetryCount
    <3>1. CASE \E d \in Call : Register(d) \/ WriteLog(d)
      BY <1>0, <3>1 DEF RidInv, Register, WriteLog, Fail, TypeOK
    <3>2. CASE \E d \in Call : FirstAttempt(d) \/ NextAttempt(d)
      <4>1. PICK d \in Call : FirstAttempt(d) \/ NextAttempt(d)
        BY <3>2
      <4>2. PICK n \in Int : PublishAttempt(d, n)
        BY <1>0, <4>1, RetryAssumption DEF FirstAttempt, NextAttempt, TypeOK
      <4>3. pc[d] # "idle"
        BY <4>1 DEF FirstAttempt, NextAttempt
      <4>4. QED
        BY <1>0, <4>2, <4>3 DEF RidInv, PublishAttempt, Retry, Fail, TypeOK
    <3>3. CASE \E t \in Attempt :
                  /\ Resolve(t) \/ Reject(t) \/ RejectTimeout(t)
                  /\ UNCHANGED attempt
      <4>1. PICK t \in Attempt : /\ Resolve(t) \/ Reject(t) \/ RejectTimeout(t)
                                 /\ UNCHANGED attempt
        BY <3>3
      <4>2. t.call \in Call
        BY DEF Attempt
      <4>3. QED
        BY <1>0, <4>1, <4>2, SettleEffect DEF RidInv, Waiting
    <3>4. CASE Disconnect \/ Crash
      BY <1>0, <3>4 DEF Disconnect, Crash, Waiting, RidInv, TypeOK
    <3>5. CASE UNCHANGED <<pc, attempt>>
      BY <1>0, <3>5 DEF RidInv
    <3>6. ASSUME NEW t \in publishing, PublishError(t)
          PROVE  \E u \in Attempt : Reject(u) /\ UNCHANGED attempt
      BY <1>0, <3>6 DEF PublishError, TypeOK
    <3>7. ASSUME NEW t \in timers, FireTimer(t), ~(UNCHANGED <<pc, attempt>>)
          PROVE  \E u \in Attempt : RejectTimeout(u) /\ UNCHANGED attempt
      BY <1>0, <3>7 DEF FireTimer, Lookup, TypeOK
    <3>8. ASSUME NEW a \in acks, HandleAck(a), ~(UNCHANGED <<pc, attempt>>)
          PROVE  \E u \in Attempt : /\ Resolve(u) \/ Reject(u)
                                    /\ UNCHANGED attempt
      BY <1>0, <3>8 DEF HandleAck, Lookup, TypeOK
    <3>9. QED
      BY <1>2, <3>1, <3>2, <3>3, <3>4, <3>5, <3>6, <3>7, <3>8
      DEF Next, BackendStep, CallStep, Expire, Connect, ConnectionLost,
          EnvDevice, vars, backendVars, callVars
  <2>2. QED
    BY <1>0, <1>2, <2>1 DEF RidInv, TypeOK
<1>3. QED
  BY <1>1, <1>2
  DEF Next, BackendStep, CallStep, Register, FirstAttempt, NextAttempt,
      PublishAttempt, WriteLog, PublishError, FireTimer, HandleAck, Expire,
      Connect, ConnectionLost, Disconnect, Crash, EnvDevice, vars,
      backendVars, callVars

LEMMA StartedInvStep == TypeInv /\ [Next]_vars => StartedInv'
<1> SUFFICES ASSUME TypeInv, [Next]_vars PROVE StartedInv'
  OBVIOUS
<1>0. TypeOK /\ StartedInv /\ \A t \in Attempts : t \in Attempt /\ t.call \in Call
  BY DEF TypeInv, TypeOK, Attempts, Attempt
<1> DEFINE Kept == \A c \in Call : pc'[c] = "idle" => pc[c] = "idle"
<1>1. ASSUME Attempts' \subseteq Attempts, Kept PROVE StartedInv'
  BY <1>0, <1>1 DEF StartedInv
<1>2. ASSUME NEW c \in Call, FirstAttempt(c) \/ NextAttempt(c) PROVE StartedInv'
  <2>1. PICK n \in Int : PublishAttempt(c, n)
    BY <1>0, <1>2, RetryAssumption DEF FirstAttempt, NextAttempt, TypeOK
  <2>2. Kept /\ pc'[c] # "idle"
    BY <1>0, <1>2, <2>1 DEF FirstAttempt, NextAttempt, PublishAttempt, Retry, Fail,
       TypeOK
  <2>3. Attempts' \subseteq Attempts \cup {[call |-> c, attempt |-> n]}
    BY <1>0, <2>1 DEF PublishAttempt, Attempts, TypeOK
  <2>4. QED
    BY <1>0, <2>2, <2>3 DEF StartedInv
<1>3. ASSUME NEW t \in Attempt, Resolve(t) \/ Reject(t) \/ RejectTimeout(t)
      PROVE  Kept
  BY <1>0, <1>3, SettleEffect DEF Waiting
<1>4. ASSUME NEW c \in Call, NEW r \in Rid, StartUser(c, r) \/ StartAdmin(c, r)
      PROVE  StartedInv'
  <2>1. Attempts' = Attempts /\ Kept
    BY <1>0, <1>4 DEF StartUser, StartAdmin, TypeOK, deviceVars, Attempts
  <2>2. QED
    BY <1>1, <2>1
<1>5. ASSUME NEW c \in Call, Register(c) \/ WriteLog(c) PROVE StartedInv'
  <2>1. Attempts' = Attempts /\ Kept
    BY <1>0, <1>5 DEF Register, WriteLog, Fail, TypeOK, deviceVars, Attempts
  <2>2. QED
    BY <1>1, <2>1
<1>6. ASSUME NEW t \in publishing, PublishError(t) PROVE StartedInv'
  <2>1. Attempts' \subseteq Attempts
    BY <1>0, <1>6 DEF PublishError, Attempts, TypeOK
  <2>2. Kept
    BY <1>0, <1>3, <1>6 DEF PublishError, TypeOK
  <2>3. QED
    BY <1>1, <2>1, <2>2
<1>7. ASSUME NEW t \in timers, FireTimer(t) PROVE StartedInv'
  <2>1. Attempts' \subseteq Attempts
    BY <1>0, <1>7 DEF FireTimer, Attempts, TypeOK
  <2>2. Lookup(rid[t.call]) \in Attempt \cup {None}
    BY <1>0 DEF Lookup, TypeOK
  <2>3. Kept
    BY <1>3, <1>7, <2>2 DEF FireTimer
  <2>4. QED
    BY <1>1, <2>1, <2>3
<1>8. ASSUME NEW a \in acks, HandleAck(a) PROVE StartedInv'
  <2>1. Attempts' \subseteq Attempts
    BY <1>0, <1>8 DEF HandleAck, Attempts, TypeOK
  <2>2. Lookup(a.rid) \in Attempt \cup {None}
    BY <1>0 DEF Lookup, TypeOK
  <2>3. Kept
    BY <1>3, <1>8, <2>2 DEF HandleAck
  <2>4. QED
    BY <1>1, <2>1, <2>3
<1>9. CASE Disconnect \/ Crash
  <2>1. Attempts' \subseteq Attempts
    BY <1>0, <1>9 DEF Disconnect, Crash, Attempts
  <2>2. Kept
    BY <1>0, <1>9 DEF Disconnect, Crash, TypeOK
  <2>3. QED
    BY <1>1, <2>1, <2>2
<1>10. CASE UNCHANGED <<pc, pending, timers, publishing>>
  BY <1>0, <1>10 DEF StartedInv, Attempts
<1>11. QED
  BY <1>2, <1>4, <1>5, <1>6, <1>7, <1>8, <1>9, <1>10
  DEF Next, BackendStep, CallStep, Expire, Connect, ConnectionLost, EnvDevice,
      vars, backendVars, callVars, deviceVars

LEMMA TypeInvInit == Init => TypeInv
<1>1. Init => TypeOK
  <2> SUFFICES ASSUME Init PROVE TypeOK
    OBVIOUS
  <2>1. /\ pc \in [Call -> PC] /\ rid \in [Call -> Rid \cup {NoRid}]
        /\ outcome \in [Call -> Outcome] /\ answer \in [Call -> Outcome]
    BY DEF Init, BackendInit, PC, Outcome
  <2>2. /\ attempt \in [Call -> 0 .. RetryCount]
        /\ pending \in [Rid -> Attempt \cup {None}]
    BY RetryAssumption DEF Init, BackendInit
  <2>3. /\ requests = {} /\ timers = {} /\ publishing = {} /\ robbed = {}
        /\ gateLog = {} /\ cmds = {} /\ acks = {}
    BY DEF Init, BackendInit, ChannelInit
  <2>4. /\ isConnected \in BOOLEAN /\ closing \in BOOLEAN
        /\ crashes \in Nat /\ copies \in Nat
    BY DEF Init, BackendInit, ChannelInit
  <2>5. QED
    BY <2>1, <2>2, <2>3, <2>4 DEF TypeOK
<1>2. Init => RidInv
  BY NoRidAssumption, FreshRidAssumption DEF Init, BackendInit, RidInv
<1>3. Init => StartedInv
  BY DEF Init, BackendInit, StartedInv, Attempts
<1>4. QED
  BY <1>1, <1>2, <1>3 DEF TypeInv

\* The type invariant holds in every reachable state.
THEOREM TypeCorrect == Spec => []TypeOK
<1>1. TypeInv /\ [Next]_vars => TypeInv'
  BY TypeOKStep, RidInvStep, StartedInvStep DEF TypeInv
<1>2. TypeInv => TypeOK
  BY DEF TypeInv
<1>3. QED
  BY <1>1, <1>2, TypeInvInit, PTL DEF Spec

-----------------------------------------------------------------------------
(* One call per request id *)

\* The strengthening: a user's id stays registered while its call is inside
\* openGate, because the TTL outlives a call that is not robbed.
StaysRegistered ==
    \A c \in Call : InDevice(c) /\ rid[c] \notin FreshRid \cup robbed
                       => rid[c] \in requests

UniqueInv == StaysRegistered /\ OneCallPerRequestId

Starts == \E c \in Call, r \in Rid : StartUser(c, r) \/ StartAdmin(c, r)

\* Only a start or a registration brings a call into openGate.
LEMMA CallsLeave ==
    ASSUME TypeInv, [Next]_vars, ~Starts, \A c \in Call : ~Register(c)
    PROVE  rid' = rid /\ \A c \in Call : InDevice(c)' => InDevice(c)
<1>0. TypeOK
  BY DEF TypeInv
<1>1. ASSUME NEW d \in Call, FirstAttempt(d) \/ NextAttempt(d)
      PROVE  rid' = rid /\ \A c \in Call : InDevice(c)' => InDevice(c)
  BY <1>0, <1>1 DEF FirstAttempt, NextAttempt, PublishAttempt, Retry, Fail,
     InDevice, TypeOK
<1>2. ASSUME NEW t \in Attempt, Resolve(t) \/ Reject(t) \/ RejectTimeout(t)
      PROVE  \A c \in Call : InDevice(c)' => InDevice(c)
  <2>1. \A c \in Call : pc'[c] = pc[c] \/ pc[c] = "await"
    BY <1>0, <1>2, SettleEffect DEF Waiting
  <2>2. QED
    BY <2>1 DEF InDevice
<1>3. ASSUME NEW t \in publishing, PublishError(t)
      PROVE  rid' = rid /\ \A c \in Call : InDevice(c)' => InDevice(c)
  <2>1. t \in Attempt
    BY <1>0 DEF TypeOK
  <2>2. QED
    BY <1>2, <1>3, <2>1 DEF PublishError
<1>4. ASSUME NEW t \in timers, FireTimer(t)
      PROVE  rid' = rid /\ \A c \in Call : InDevice(c)' => InDevice(c)
  <2>1. Lookup(rid[t.call]) \in Attempt \cup {None}
    BY <1>0 DEF Lookup, TypeOK
  <2>2. QED
    BY <1>2, <1>4, <2>1 DEF FireTimer, InDevice
<1>5. ASSUME NEW a \in acks, HandleAck(a)
      PROVE  rid' = rid /\ \A c \in Call : InDevice(c)' => InDevice(c)
  <2>1. Lookup(a.rid) \in Attempt \cup {None}
    BY <1>0 DEF Lookup, TypeOK
  <2>2. QED
    BY <1>2, <1>5, <2>1 DEF HandleAck, InDevice
<1>6. ASSUME NEW d \in Call, WriteLog(d)
      PROVE  rid' = rid /\ \A c \in Call : InDevice(c)' => InDevice(c)
  BY <1>0, <1>6 DEF WriteLog, InDevice, TypeOK
<1>7. CASE Disconnect \/ Crash
  BY <1>0, <1>7 DEF Disconnect, Crash, InDevice, Waiting, TypeOK
<1>8. CASE UNCHANGED <<pc, rid>>
  BY <1>8 DEF InDevice
<1>9. QED
  BY <1>1, <1>3, <1>4, <1>5, <1>6, <1>7, <1>8
  DEF Starts, Next, BackendStep, CallStep, Expire, Connect, ConnectionLost,
      EnvDevice, vars, backendVars, callVars

LEMMA UniqueInvStep == TypeInv /\ UniqueInv /\ [Next]_vars => UniqueInv'
<1> SUFFICES ASSUME TypeInv, UniqueInv, [Next]_vars PROVE UniqueInv'
  OBVIOUS
<1>0. TypeOK /\ RidInv
  BY DEF TypeInv
<1>1. ASSUME NEW c \in Call, NEW r \in Rid, StartUser(c, r) PROVE UniqueInv'
  <2>1. /\ \A d \in Call : InDevice(d)' => InDevice(d) /\ d # c
        /\ \A d \in Call : d # c => rid'[d] = rid[d]
        /\ requests' = requests /\ robbed' = robbed
    BY <1>0, <1>1 DEF StartUser, InDevice, TypeOK, deviceVars
  <2>2. QED
    BY <2>1 DEF UniqueInv, StaysRegistered, OneCallPerRequestId
<1>2. ASSUME NEW c \in Call, NEW r \in Rid, StartAdmin(c, r) PROVE UniqueInv'
  <2>1. /\ \A d \in Call : InDevice(d)' /\ d # c => InDevice(d)
        /\ \A d \in Call : d # c => rid'[d] = rid[d]
        /\ rid'[c] = r /\ r \in FreshRid /\ requests' = requests
        /\ \A d \in Call : rid[d] # r
        /\ robbed' = robbed
    BY <1>0, <1>2 DEF StartAdmin, InDevice, TypeOK, deviceVars
  <2>2. QED
    BY <2>1 DEF UniqueInv, StaysRegistered, OneCallPerRequestId
<1>3. ASSUME NEW c \in Call, Register(c) PROVE UniqueInv'
  <2>1. /\ \A d \in Call : InDevice(d)' /\ d # c => InDevice(d)
        /\ rid' = rid /\ requests \subseteq requests' /\ robbed' = robbed
        /\ InDevice(c)' => rid[c] \notin requests /\ rid[c] \in requests'
    BY <1>0, <1>3 DEF Register, Fail, InDevice, TypeOK, deviceVars
  <2>2. ASSUME NEW d \in Call, d # c, InDevice(d), InDevice(c)',
               rid[c] \notin robbed
        PROVE  rid[d] # rid[c]
    BY <1>0, <2>1, <2>2 DEF UniqueInv, StaysRegistered, RidInv
  <2>3. StaysRegistered'
    BY <2>1 DEF UniqueInv, StaysRegistered
  <2>4. OneCallPerRequestId'
    BY <2>1, <2>2 DEF UniqueInv, OneCallPerRequestId
  <2>5. QED
    BY <2>3, <2>4 DEF UniqueInv
<1>4. CASE ~Starts /\ \A c \in Call : ~Register(c)
  <2>1. rid' = rid /\ \A c \in Call : InDevice(c)' => InDevice(c)
    BY <1>4, CallsLeave
  <2>2. CASE Crash
    <3>1. \A c \in Call : ~InDevice(c)'
      BY <1>0, <2>2 DEF Crash, InDevice, TypeOK
    <3>2. QED
      BY <3>1 DEF UniqueInv, StaysRegistered, OneCallPerRequestId
  <2>3. CASE ~Crash
    <3>1. /\ robbed \subseteq robbed'
          /\ \A c \in Call : InDevice(c) /\ rid[c] \in requests \ robbed =>
                                 rid[c] \in requests'
      BY <1>4, <2>3 DEF Starts, Next, BackendStep, CallStep, FirstAttempt,
         NextAttempt, PublishAttempt, WriteLog, PublishError, FireTimer, HandleAck,
         Expire, Connect, ConnectionLost, Disconnect, EnvDevice, vars, backendVars,
         deviceVars
    <3>2. QED
      BY <2>1, <3>1 DEF UniqueInv, StaysRegistered, OneCallPerRequestId
  <2>4. QED
    BY <2>2, <2>3
<1>5. QED
  BY <1>1, <1>2, <1>3, <1>4 DEF Starts

LEMMA UniqueInvInit == Init => UniqueInv
  BY DEF Init, BackendInit, UniqueInv, StaysRegistered, OneCallPerRequestId,
     InDevice

LEMMA UniqueInvCorrect == Spec => [](TypeInv /\ UniqueInv)
<1>1. TypeInv /\ UniqueInv /\ [Next]_vars => (TypeInv /\ UniqueInv)'
  BY TypeOKStep, RidInvStep, StartedInvStep, UniqueInvStep DEF TypeInv
<1>2. QED
  BY <1>1, TypeInvInit, UniqueInvInit, PTL DEF Spec

\* Two calls are never inside openGate with the same request id, but for an id whose
\* entry a late publish error has taken (checkAndRegisterRequestId, openGate).
THEOREM OneCallCorrect == Spec => []OneCallPerRequestId
<1>1. UniqueInv => OneCallPerRequestId
  BY DEF UniqueInv
<1>2. QED
  BY <1>1, UniqueInvCorrect, PTL

-----------------------------------------------------------------------------
(* Pending requests and timers *)

\* Settling attempt t, with the entry of its request id and a timer of that id
\* removed, leaves the other waiters and entries alone.  Either t waits, and the
\* timer is its own, or its request id is one that was robbed.
LEMMA SettleKeepsPending ==
    ASSUME TypeInv, UniqueInv, PendingMatchesCalls, NEW t \in Attempt, NEW r \in Rid,
           rid[t.call] = r, Resolve(t) \/ Reject(t) \/ RejectTimeout(t),
           pending' = [pending EXCEPT ![r] = None],
           NEW u \in Attempt, rid[u.call] = r, timers' = timers \ {u},
           UNCHANGED <<rid, attempt>>, robbed \subseteq robbed',
           r \in robbed' \/ (u = t /\ Waiting(t))
    PROVE  PendingMatchesCalls'
<1> DEFINE c == t.call
<1>0. TypeOK /\ c \in Call
  BY DEF TypeInv, Attempt
<1>1. /\ \A d \in Call : d # c => pc'[d] = pc[d]
      /\ Waiting(t) => pc'[c] # "await"
  BY <1>0, SettleEffect
<1>2. ASSUME NEW d \in Call, pc'[d] = "await", rid[d] \notin robbed'
      PROVE  pending'[rid[d]] = Current(d) /\ Current(d) \in timers'
  <2>1. rid[d] # r /\ pc[d] = "await"
    <3>1. CASE r \in robbed'
      BY <1>1, <1>2, <3>1
    <3>2. CASE Waiting(t)
      <4>1. d # c /\ pc[d] = "await"
        BY <1>1, <1>2, <3>2
      <4>2. InDevice(c) /\ InDevice(d) /\ rid[d] \notin robbed
        BY <1>2, <3>2, <4>1 DEF InDevice, Waiting
      <4>3. QED
        BY <1>0, <4>1, <4>2 DEF UniqueInv, OneCallPerRequestId
    <3>3. QED
      BY <3>1, <3>2
  <2>2. rid[d] \in Rid /\ rid[d] \notin robbed
    BY <1>2, <2>1 DEF TypeInv, RidInv
  <2>3. pending[rid[d]] = Current(d) /\ Current(d) \in timers
    BY <2>1, <2>2 DEF PendingMatchesCalls, WaiterIsPending
  <2>4. Current(d) # u
    BY <2>1 DEF Current
  <2>5. QED
    BY <1>0, <2>1, <2>2, <2>3, <2>4 DEF TypeOK
<1>3. ASSUME NEW s \in Rid, pending'[s] # None
      PROVE  /\ rid[pending'[s].call] = s
             /\ s \notin robbed' => Waiting(pending[s])' /\ pending'[s] = pending[s]
  <2>1. s # r /\ pending'[s] = pending[s]
    BY <1>0, <1>3 DEF TypeOK
  <2>2. rid[pending[s].call] = s /\ pending[s].call \in Call
    BY <1>0, <1>3, <2>1 DEF PendingMatchesCalls, EntryHasItsId, TypeOK, Attempt
  <2>3. s \notin robbed' => Waiting(pending[s])
    BY <1>3, <2>1 DEF PendingMatchesCalls, NoStaleEntry
  <2>4. QED
    BY <1>1, <2>1, <2>2, <2>3 DEF Waiting
<1>4. ASSUME NEW v \in timers', rid[v.call] \notin robbed' PROVE Waiting(v)'
  <2>1. v \in timers /\ v # u /\ v \in Attempt /\ v.call \in Call
    BY <1>0 DEF TypeOK, Attempt
  <2>2. Waiting(v)
    BY <1>4, <2>1 DEF PendingMatchesCalls, NoStaleEntry
  <2>3. v.call # c
    BY <1>4, <2>1, <2>2 DEF Waiting, Attempt
  <2>4. QED
    BY <1>1, <2>1, <2>2, <2>3 DEF Waiting
<1>5. QED
  BY <1>2, <1>3, <1>4
  DEF PendingMatchesCalls, WaiterIsPending, EntryHasItsId, NoStaleEntry, Current,
      Waiting

\* A new attempt of call c, which does not wait yet.
LEMMA PublishKeepsPending ==
    ASSUME TypeInv, UniqueInv, PendingMatchesCalls, NEW c \in Call,
           NEW n \in 0 .. RetryCount, pc[c] \in {"registered", "delay"},
           PublishAttempt(c, n)
    PROVE  PendingMatchesCalls'
<1> DEFINE t == [call |-> c, attempt |-> n]
<1>0. TypeOK /\ rid[c] \in Rid /\ t \in Attempt
  BY DEF TypeInv, RidInv, Attempt
<1>1. /\ rid' = rid /\ robbed' = robbed /\ attempt' = [attempt EXCEPT ![c] = n]
      /\ \A d \in Call : d # c => pc'[d] = pc[d]
  BY <1>0 DEF PublishAttempt, Retry, Fail, TypeOK
<1>2. ASSUME NEW u \in Attempt, Waiting(u) PROVE Waiting(u)' /\ u.call # c
  BY <1>0, <1>1, <1>2 DEF Waiting, Attempt, TypeOK
<1>3. ASSUME NEW d \in Call, d # c, pc[d] = "await", rid[d] \notin robbed
      PROVE  rid[d] # rid[c]
  BY <1>0, <1>3 DEF UniqueInv, OneCallPerRequestId, InDevice
<1>4. CASE ~isConnected
  <2>1. pending' = pending /\ timers' = timers /\ pc'[c] # "await"
    BY <1>0, <1>4 DEF PublishAttempt, Retry, Fail, TypeOK
  <2>2. WaiterIsPending'
    BY <1>0, <1>1, <2>1
    DEF PendingMatchesCalls, WaiterIsPending, Current, TypeOK
  <2>3. NoStaleEntry' /\ EntryHasItsId'
    BY <1>0, <1>1, <1>2, <2>1
    DEF PendingMatchesCalls, EntryHasItsId, NoStaleEntry, TypeOK
  <2>4. QED
    BY <2>2, <2>3 DEF PendingMatchesCalls
<1>5. CASE isConnected
  <2>1. /\ pending' = [pending EXCEPT ![rid[c]] = t]
        /\ timers' = timers \cup {t}
        /\ pc' = [pc EXCEPT ![c] = "await"]
    BY <1>5 DEF PublishAttempt
  <2>2. Waiting(t)' /\ Current(c)' = t
    BY <1>0, <1>1, <2>1 DEF Waiting, Current, TypeOK
  <2>3. ASSUME NEW d \in Call, pc'[d] = "await", rid[d] \notin robbed
        PROVE  pending'[rid[d]] = Current(d)' /\ Current(d)' \in timers'
    <3>1. CASE d = c
      BY <1>0, <2>1, <2>2, <3>1 DEF TypeOK
    <3>2. CASE d # c
      <4>1. pc[d] = "await" /\ rid[d] # rid[c] /\ Current(d)' = Current(d)
        BY <1>0, <1>1, <1>3, <2>3, <3>2 DEF Current, TypeOK
      <4>2. rid[d] \in Rid
        BY <4>1 DEF TypeInv, RidInv
      <4>3. pending[rid[d]] = Current(d) /\ Current(d) \in timers
        BY <2>3, <4>1 DEF PendingMatchesCalls, WaiterIsPending
      <4>4. QED
        BY <1>0, <2>1, <4>1, <4>2, <4>3 DEF TypeOK
    <3>3. QED
      BY <3>1, <3>2
  <2>4. ASSUME NEW r \in Rid, pending'[r] # None
        PROVE  /\ rid[pending'[r].call] = r
               /\ r \notin robbed => Waiting(pending[r])'
    <3>1. CASE r = rid[c]
      <4>1. pending'[r] = t
        BY <1>0, <2>1, <3>1 DEF TypeOK
      <4>2. QED
        BY <2>2, <3>1, <4>1 DEF Waiting
    <3>2. CASE r # rid[c]
      <4>1. pending'[r] = pending[r] /\ pending[r] \in Attempt
        BY <1>0, <2>1, <2>4, <3>2 DEF TypeOK
      <4>2. /\ rid[pending[r].call] = r
            /\ r \notin robbed => Waiting(pending[r])
        BY <2>4, <4>1 DEF PendingMatchesCalls, EntryHasItsId, NoStaleEntry
      <4>3. QED
        BY <1>2, <4>1, <4>2 DEF Waiting
    <3>3. QED
      BY <3>1, <3>2
  <2>5. ASSUME NEW u \in timers', rid[u.call] \notin robbed PROVE Waiting(u)'
    BY <1>0, <1>2, <2>1, <2>2, <2>5 DEF PendingMatchesCalls, NoStaleEntry, TypeOK
  <2>6. QED
    BY <1>1, <2>3, <2>4, <2>5
    DEF PendingMatchesCalls, WaiterIsPending, EntryHasItsId, NoStaleEntry, Waiting
<1>6. QED
  BY <1>4, <1>5 DEF TypeInv, TypeOK

LEMMA PendingInvStep ==
    TypeInv /\ UniqueInv /\ PendingMatchesCalls /\ [Next]_vars => PendingMatchesCalls'
<1> SUFFICES ASSUME TypeInv, UniqueInv, PendingMatchesCalls, [Next]_vars
             PROVE  PendingMatchesCalls'
  OBVIOUS
<1>0. TypeOK
  BY DEF TypeInv
<1> DEFINE Quiet(c) == /\ pc[c] # "await" /\ pc'[c] # "await"
                       /\ rid'[c] = rid[c] \/ pc[c] = "idle"
                       /\ \A d \in Call : d # c => pc'[d] = pc[d] /\ rid'[d] = rid[d]
                       /\ UNCHANGED <<attempt, pending, timers, robbed>>
<1>1. ASSUME NEW c \in Call, Quiet(c) PROVE PendingMatchesCalls'
  <2>1. \A d \in Call : pc'[d] = "await" =>
            pc[d] = "await" /\ d # c /\ rid'[d] = rid[d]
    BY <1>1
  <2>2. ASSUME NEW t \in Attempts PROVE rid'[t.call] = rid[t.call]
    <3>1. t.call \in Call /\ pc[t.call] # "idle"
      BY <1>0 DEF Attempts, TypeOK, Attempt, TypeInv, StartedInv
    <3>2. QED
      BY <1>1, <3>1
  <2>3. ASSUME NEW t \in Attempt, Waiting(t) PROVE Waiting(t)'
    BY <1>1, <2>3 DEF Waiting, Attempt
  <2>4. WaiterIsPending'
    BY <1>1, <2>1 DEF PendingMatchesCalls, WaiterIsPending, Current
  <2>5. EntryHasItsId'
    BY <1>1, <2>2 DEF PendingMatchesCalls, EntryHasItsId, Attempts
  <2>6. NoStaleEntry'
    BY <1>0, <1>1, <2>2, <2>3
    DEF PendingMatchesCalls, NoStaleEntry, Attempts, TypeOK
  <2>7. QED
    BY <2>4, <2>5, <2>6 DEF PendingMatchesCalls
<1>2. ASSUME NEW c \in Call, NEW r \in Rid, StartUser(c, r) \/ StartAdmin(c, r)
      PROVE  PendingMatchesCalls'
  <2>1. Quiet(c)
    BY <1>0, <1>2 DEF StartUser, StartAdmin, TypeOK, deviceVars
  <2>2. QED
    BY <2>1, <1>1
<1>3. ASSUME NEW c \in Call, Register(c) \/ WriteLog(c) PROVE PendingMatchesCalls'
  <2>1. Quiet(c)
    BY <1>0, <1>3 DEF Register, WriteLog, Fail, TypeOK, deviceVars
  <2>2. QED
    BY <2>1, <1>1
<1>4. ASSUME NEW c \in Call, FirstAttempt(c) \/ NextAttempt(c) PROVE PendingMatchesCalls'
  <2>1. FirstAttempt(c) => 0 \in 0 .. RetryCount
    BY RetryAssumption
  <2>2. NextAttempt(c) => attempt[c] + 1 \in 0 .. RetryCount
    BY <1>0, RetryAssumption DEF NextAttempt, TypeInv, RidInv, TypeOK
  <2>3. QED
    BY <1>4, <2>1, <2>2, PublishKeepsPending DEF FirstAttempt, NextAttempt
<1>5. CASE UNCHANGED <<pc, rid, attempt, pending, timers, robbed>>
  BY <1>5 DEF PendingMatchesCalls, WaiterIsPending, EntryHasItsId, NoStaleEntry,
     Current, Waiting
<1>6. ASSUME NEW t \in publishing \cup timers
      PROVE  t \in Attempt /\ rid[t.call] \in Rid
  BY <1>0 DEF TypeOK, TypeInv, RidInv, StartedInv, Attempts, Attempt
<1>7. ASSUME NEW t \in Attempt, rid[t.call] \in Rid \ robbed, Waiting(t)
      PROVE  pending[rid[t.call]] = t /\ t # None
  <2>1. t.call \in Call /\ t = Current(t.call)
    BY <1>7 DEF Attempt, Waiting, Current
  <2>2. t # None
    BY NoneAssumption DEF Attempt
  <2>3. QED
    BY <1>7, <2>1, <2>2 DEF PendingMatchesCalls, WaiterIsPending, Waiting
<1>8. ASSUME NEW t \in publishing, PublishError(t) PROVE PendingMatchesCalls'
  <2> DEFINE r == rid[t.call]
  <2>1. t \in Attempt /\ r \in Rid /\ Lookup(r) = pending[r]
    BY <1>6 DEF Lookup
  <2>2. robbed \subseteq robbed'
    BY <1>8 DEF PublishError
  <2>3. CASE r \in robbed' \/ Waiting(t)
    BY <1>8, <2>1, <2>2, <2>3, SettleKeepsPending DEF PublishError
  <2>4. CASE r \notin robbed' /\ ~Waiting(t)
    <3>1. robbed' = robbed /\ r \notin robbed
      BY <1>8, <2>4 DEF PublishError
    <3>2. pending[r] # t \/ pending[r] = None
      BY <2>1, <2>4, <3>1 DEF PendingMatchesCalls, NoStaleEntry
    <3>3. pending[r] = None
      BY <1>8, <2>1, <3>1, <3>2 DEF PublishError
    <3>4. pending' = pending /\ timers' = timers
      BY <1>0, <1>8, <2>1, <2>4, <3>1, <3>3
      DEF PublishError, PendingMatchesCalls, NoStaleEntry, TypeOK
    <3>5. UNCHANGED <<pc, rid, attempt>>
      BY <1>8, <2>4 DEF PublishError, Reject
    <3>6. QED
      BY <1>5, <3>1, <3>4, <3>5
  <2>5. QED
    BY <2>3, <2>4
<1>9. ASSUME NEW t \in timers, FireTimer(t) PROVE PendingMatchesCalls'
  <2> DEFINE r == rid[t.call]
  <2>1. t \in Attempt /\ r \in Rid /\ Lookup(r) = pending[r]
    BY <1>6 DEF Lookup
  <2>2. r \notin robbed => Waiting(t) /\ pending[r] = t /\ t # None
    BY <1>7, <2>1 DEF PendingMatchesCalls, NoStaleEntry
  <2>3. CASE pending[r] = None
    <3>1. /\ r \in robbed /\ timers' = timers \ {t}
          /\ UNCHANGED <<pc, rid, attempt, pending, robbed>>
      BY <1>9, <2>1, <2>2, <2>3 DEF FireTimer
    <3>2. ASSUME NEW d \in Call, pc[d] = "await", rid[d] \notin robbed
          PROVE  pending[rid[d]] = Current(d) /\ Current(d) \in timers'
      BY <3>1, <3>2 DEF PendingMatchesCalls, WaiterIsPending, Current
    <3>3. QED
      BY <3>1, <3>2
      DEF PendingMatchesCalls, WaiterIsPending, EntryHasItsId, NoStaleEntry, Current,
          Waiting
  <2>4. CASE pending[r] # None
    <3>1. pending[r] \in Attempt /\ rid[pending[r].call] = r
      BY <1>0, <2>1, <2>4 DEF PendingMatchesCalls, EntryHasItsId, TypeOK
    <3>2. /\ timers' = timers \ {t} /\ RejectTimeout(pending[r])
          /\ pending' = [pending EXCEPT ![r] = None]
          /\ UNCHANGED <<rid, attempt, robbed>>
      BY <1>9, <2>1, <2>4 DEF FireTimer
    <3>3. r \in robbed' \/ (t = pending[r] /\ Waiting(pending[r]))
      BY <2>2, <3>2
    <3>4. QED
      BY <2>1, <3>1, <3>2, <3>3, SettleKeepsPending
  <2>5. QED
    BY <2>3, <2>4
<1>10. ASSUME NEW a \in acks, HandleAck(a) PROVE PendingMatchesCalls'
  <2> DEFINE e == Lookup(a.rid)
  <2>1. CASE e = None
    BY <1>5, <1>10, <2>1 DEF HandleAck
  <2>2. CASE e # None
    <3>1. e \in Attempt /\ a.rid \in Rid /\ rid[e.call] = a.rid
      BY <1>0, <2>2 DEF Lookup, PendingMatchesCalls, EntryHasItsId, TypeOK
    <3>2. /\ timers' = timers \ {e}
          /\ pending' = [pending EXCEPT ![a.rid] = None]
          /\ (Resolve(e) \/ Reject(e))
          /\ UNCHANGED <<rid, attempt, robbed>>
      BY <1>10, <2>2, <3>1 DEF HandleAck
    <3>3. a.rid \in robbed' \/ Waiting(e)
      BY <2>2, <3>1, <3>2 DEF Lookup, PendingMatchesCalls, NoStaleEntry
    <3>4. QED
      BY <3>1, <3>2, <3>3, SettleKeepsPending
  <2>3. QED
    BY <2>1, <2>2
<1>11. CASE Disconnect
  <2> DEFINE open == {pending[r] : r \in Rid} \ {None}
  <2>1. /\ \A r \in Rid : pending'[r] = None
        /\ timers' = timers \ open /\ UNCHANGED <<rid, attempt, robbed>>
    BY <1>11 DEF Disconnect
  <2>2. ASSUME NEW c \in Call, pc'[c] = "await", rid[c] \notin robbed
        PROVE  FALSE
    <3>1. pc[c] = "await"
      BY <1>0, <1>11, <2>2 DEF Disconnect, TypeOK
    <3>2. Current(c) \in Attempt /\ Waiting(Current(c)) /\ Current(c).call = c
      BY <1>0, <3>1 DEF Current, Attempt, Waiting, TypeOK
    <3>3. rid[c] \in Rid
      BY <3>1 DEF TypeInv, RidInv
    <3>4. \E t \in open : t.call = c /\ Waiting(t)
      BY <1>7, <2>2, <3>2, <3>3
    <3>5. QED
      BY <1>0, <1>11, <2>2, <3>1, <3>4 DEF Disconnect, TypeOK
  <2>3. ASSUME NEW t \in timers', rid[t.call] \notin robbed PROVE FALSE
    <3>1. t \in timers /\ t \notin open
      BY <2>1
    <3>2. t \in Attempt /\ rid[t.call] \in Rid /\ Waiting(t)
      BY <1>6, <2>3, <3>1 DEF PendingMatchesCalls, NoStaleEntry
    <3>3. QED
      BY <1>7, <2>3, <3>1, <3>2
  <2>4. QED
    BY <2>1, <2>2, <2>3
    DEF PendingMatchesCalls, WaiterIsPending, EntryHasItsId, NoStaleEntry
<1>12. CASE Crash
  BY <1>0, <1>12
  DEF Crash, PendingMatchesCalls, WaiterIsPending, EntryHasItsId, NoStaleEntry, TypeOK
<1>13. QED
  BY <1>2, <1>3, <1>4, <1>5, <1>8, <1>9, <1>10, <1>11, <1>12
  DEF Next, BackendStep, CallStep, Expire, Connect, ConnectionLost, EnvDevice,
      vars, backendVars, callVars, deviceVars

LEMMA PendingInvInit == Init => PendingMatchesCalls
  BY DEF Init, BackendInit, PendingMatchesCalls, WaiterIsPending, EntryHasItsId,
     NoStaleEntry

\* Every waiting call has its entry in pendingRequests and its timer, and no entry
\* or timer is stale, for any number of calls, ids and retries, and although a
\* publish error may be reported at any time: it spoils the entries of the id it
\* robs, and no other's.
THEOREM PendingCorrect == Spec => []PendingMatchesCalls
  BY PendingInvInit, PendingInvStep, UniqueInvCorrect, PTL DEF Spec
=============================================================================
