----------------------------- MODULE GateBackend -----------------------------
(***************************************************************************)
(* The backend's side of opening the gate (src/backend/src/gate):          *)
(* GateService.openByUser and openByAdminBackdoor, the replay check on the *)
(* GateRequest collection, and MqttGateDeviceService: the retry loop of    *)
(* openGate, the map of pending requests, its timers and its ACK handler.  *)
(*                                                                         *)
(* Node runs one callback at a time, so an action is what happens between  *)
(* two awaits.  A call's pc says what it waits for:                        *)
(*   register    the insert into GateRequest                               *)
(*   registered  the answer of that insert                                 *)
(*   await       the ACK, the timer or a publish error                     *)
(*   delay       MCU_RETRY_DELAY_MS                                        *)
(*   log         the insert into GateLog                                   *)
(* A timer may fire at any time after it was set.  When the MQTT client    *)
(* reports that a publish failed is up to the client, and the code relies  *)
(* on nothing: the callback may come at any time while the process lives,  *)
(* also when its attempt, or its call, is over.                            *)
(***************************************************************************)
EXTENDS CommandChannel

CONSTANTS
    Call,               \* invocations of openByUser or openByAdminBackdoor
    FreshRid,           \* the request ids that randomUUID may return
    RetryCount,         \* MCU_RETRY_COUNT
    None,               \* no entry
    EnvAck,             \* the ACKs that may arrive
    MaxCrashes          \* bound: crashes of the process

ASSUME FreshRidAssumption == FreshRid \subseteq Rid
ASSUME EnvAckAssumption == EnvAck \subseteq Ack
ASSUME RetryAssumption == RetryCount \in Nat
ASSUME CrashAssumption == MaxCrashes \in Nat
ASSUME NoneAssumption == None \notin [call : Call, attempt : 0 .. RetryCount]

VARIABLES
    pc,                 \* what each call waits for
    rid,                \* its request id
    attempt,            \* the loop counter of openGate
    outcome,            \* how the try block of GateService ended
    answer,             \* what the HTTP client was told
    requests,           \* the GateRequest collection (unique requestId)
    pending,            \* pendingRequests: the attempt that waits for an ACK
    timers,             \* attempts whose timeout is armed
    publishing,         \* attempts whose publish may still be reported as failed
    isConnected,
    closing,            \* onModuleDestroy has run
    gateLog,            \* the GateLog collection
    (* history *)
    robbed,             \* ids under which a publish error took another's entry
    crashes

callVars == <<pc, rid, attempt, outcome, answer>>
deviceVars == <<pending, timers, publishing, isConnected, closing, robbed>>
backendVars == <<callVars, requests, deviceVars, gateLog, crashes>>
vars == <<backendVars, channelVars>>

PC == {"idle", "register", "registered", "await", "delay", "log", "done",
       "lost"}
Outcome == {"none", "ok", "conflict", "db_error", "bad_gateway", "timeout"}
Attempt == [call : Call, attempt : 0 .. RetryCount]
Status == {"success", "blocked_replay", "failed"}

\* The attempt call c is in.
Current(c) == [call |-> c, attempt |-> attempt[c]]

\* The promise of attempt t is still undecided; settling it again is a no-op.
Waiting(t) == pc[t.call] = "await" /\ attempt[t.call] = t.attempt

\* c is inside gateDeviceService.openGate, or about to enter it.
InDevice(c) == pc[c] \in {"registered", "await", "delay"}

-----------------------------------------------------------------------------
(* GateService *)

\* GateController.open has a valid X-Request-Id and calls openByUser.
StartUser(c, r) ==
    /\ pc[c] = "idle" /\ r \in Rid \ FreshRid
    /\ pc' = [pc EXCEPT ![c] = "register"]
    /\ rid' = [rid EXCEPT ![c] = r]
    /\ UNCHANGED <<attempt, outcome, answer, requests, deviceVars, gateLog,
                   crashes, channelVars>>

\* GateController.adminOpen and openByAdminBackdoor: no replay check, the id is a
\* new UUID.
StartAdmin(c, r) ==
    /\ pc[c] = "idle"
    /\ r \in FreshRid /\ \A d \in Call : rid[d] # r
    /\ pc' = [pc EXCEPT ![c] = "registered"]
    /\ rid' = [rid EXCEPT ![c] = r]
    /\ UNCHANGED <<attempt, outcome, answer, requests, deviceVars, gateLog,
                   crashes, channelVars>>

\* The try block throws: the finally block logs and the error is rethrown.
Fail(c, o) ==
    /\ pc' = [pc EXCEPT ![c] = "log"]
    /\ outcome' = [outcome EXCEPT ![c] = o]

\* Mutant of Register: there is no unique index, every insert succeeds.
RegisterAlways(c) ==
    /\ pc[c] = "register"
    /\ requests' = requests \cup {rid[c]}
    /\ pc' = [pc EXCEPT ![c] = "registered"]
    /\ UNCHANGED <<rid, attempt, outcome, answer, deviceVars, gateLog, crashes,
                   channelVars>>

\* checkAndRegisterRequestId: the unique index decides.  An insert that fails
\* for another reason may have been applied all the same.
Register(c) ==
    /\ pc[c] = "register"
    /\ \/ /\ rid[c] \notin requests
          /\ requests' = requests \cup {rid[c]}
          /\ pc' = [pc EXCEPT ![c] = "registered"]
          /\ UNCHANGED outcome
       \/ /\ rid[c] \in requests
          /\ Fail(c, "conflict") /\ UNCHANGED requests
       \/ /\ Fail(c, "db_error")
          /\ requests' \in {requests, requests \cup {rid[c]}}
    /\ UNCHANGED <<rid, attempt, answer, deviceVars, gateLog, crashes,
                   channelVars>>

StatusOf(o) == CASE o = "ok" -> "success"
                 [] o = "conflict" -> "blocked_replay"
                 [] OTHER -> "failed"

Row(c) == [call |-> c, rid |-> rid[c], status |-> StatusOf(outcome[c])]

\* The finally block.  When the insert fails its error replaces the result.
WriteLog(c) ==
    /\ pc[c] = "log"
    /\ pc' = [pc EXCEPT ![c] = "done"]
    /\ \/ /\ gateLog' = gateLog \cup {Row(c)}
          /\ answer' = [answer EXCEPT ![c] = outcome[c]]
       \/ /\ gateLog' \in {gateLog, gateLog \cup {Row(c)}}
          /\ answer' = [answer EXCEPT ![c] = "db_error"]
    /\ UNCHANGED <<rid, attempt, outcome, requests, deviceVars, crashes,
                   channelVars>>

\* The TTL index removes a GateRequest.  Its TTL (30 s) outlives the longest
\* call: RetryCount + 1 waits of MCU_TIMEOUT_MS and the delays between them,
\* unless the call was robbed of its entry, and may wait for ever.
Expire(r) ==
    /\ r \in requests
    /\ r \in robbed \/ \A c \in Call : rid[c] = r => ~InDevice(c)
    /\ requests' = requests \ {r}
    /\ UNCHANGED <<callVars, deviceVars, gateLog, crashes, channelVars>>

-----------------------------------------------------------------------------
(* MqttGateDeviceService *)

\* Mutant of Retry: one retry too many.
RetryTooOften(c, n) ==
    IF n <= RetryCount
    THEN pc' = [pc EXCEPT ![c] = "delay"] /\ UNCHANGED outcome
    ELSE Fail(c, "bad_gateway")

\* The catch block of openGate after attempt n of call c failed: the loop goes
\* on after the delay, or all retries are exhausted.
Retry(c, n) ==
    IF n < RetryCount
    THEN pc' = [pc EXCEPT ![c] = "delay"] /\ UNCHANGED outcome
    ELSE Fail(c, "bad_gateway")

\* publishCommandAndWaitForAck(attempt n).
PublishAttempt(c, n) ==
    /\ attempt' = [attempt EXCEPT ![c] = n]
    /\ \/ /\ ~isConnected
          /\ Retry(c, n)
          /\ UNCHANGED <<pending, timers, publishing, cmds>>
       \/ /\ isConnected
          /\ pending' = [pending EXCEPT ![rid[c]] =
                             [call |-> c, attempt |-> n]]
          /\ timers' = timers \cup {[call |-> c, attempt |-> n]}
          /\ publishing' = publishing \cup {[call |-> c, attempt |-> n]}
          /\ PublishCommand([rid |-> rid[c], kind |-> "open", issuedAt |-> n])
          /\ pc' = [pc EXCEPT ![c] = "await"]
          /\ UNCHANGED outcome
    /\ UNCHANGED <<rid, answer, requests, isConnected, closing, gateLog,
                   robbed, crashes, acks, copies>>

FirstAttempt(c) == pc[c] = "registered" /\ PublishAttempt(c, 0)

NextAttempt(c) == pc[c] = "delay" /\ PublishAttempt(c, attempt[c] + 1)

\* pending.resolve and pending.reject.
Resolve(t) == IF Waiting(t) THEN Fail(t.call, "ok")
              ELSE UNCHANGED <<pc, outcome>>
Reject(t) == IF Waiting(t) THEN Retry(t.call, t.attempt)
             ELSE UNCHANGED <<pc, outcome>>
RejectTimeout(t) == IF Waiting(t) THEN Fail(t.call, "timeout")
                    ELSE UNCHANGED <<pc, outcome>>

\* pendingRequests.get.
Lookup(r) == IF r \in Rid THEN pending[r] ELSE None

\* Mutants of HandleAck: the timeout is not cleared; a negative ACK is dropped
\* after its entry was removed; ok is not looked at.
HandleAckKeepsTimer(a) ==
    /\ isConnected /\ TakeAck(a)
    /\ LET e == Lookup(a.rid) IN
       \/ e = None /\ UNCHANGED <<pc, outcome, pending>>
       \/ /\ e # None
          /\ pending' = [pending EXCEPT ![a.rid] = None]
          /\ IF a.ok THEN Resolve(e) ELSE Reject(e)
    /\ UNCHANGED <<rid, attempt, answer, requests, timers, publishing,
                   isConnected, closing, gateLog, robbed, crashes, cmds, copies>>

HandleAckDropsRefusal(a) ==
    /\ isConnected /\ TakeAck(a)
    /\ LET e == Lookup(a.rid) IN
       \/ e = None /\ UNCHANGED <<pc, outcome, pending, timers>>
       \/ /\ e # None
          /\ timers' = timers \ {e}
          /\ pending' = [pending EXCEPT ![a.rid] = None]
          /\ IF a.ok THEN Resolve(e) ELSE UNCHANGED <<pc, outcome>>
    /\ UNCHANGED <<rid, attempt, answer, requests, publishing, isConnected,
                   closing, gateLog, robbed, crashes, cmds, copies>>

HandleAckIgnoresOk(a) ==
    /\ isConnected /\ TakeAck(a)
    /\ LET e == Lookup(a.rid) IN
       \/ e = None /\ UNCHANGED <<pc, outcome, pending, timers>>
       \/ /\ e # None
          /\ timers' = timers \ {e}
          /\ pending' = [pending EXCEPT ![a.rid] = None]
          /\ Resolve(e)
    /\ UNCHANGED <<rid, attempt, answer, requests, publishing, isConnected,
                   closing, gateLog, robbed, crashes, cmds, copies>>

\* handleAckMessage.
HandleAck(a) ==
    /\ isConnected /\ TakeAck(a)
    /\ LET e == Lookup(a.rid) IN
       \/ e = None /\ UNCHANGED <<pc, outcome, pending, timers>>
       \/ /\ e # None
          /\ timers' = timers \ {e}
          /\ pending' = [pending EXCEPT ![a.rid] = None]
          /\ IF a.ok THEN Resolve(e) ELSE Reject(e)
    /\ UNCHANGED <<rid, attempt, answer, requests, publishing, isConnected,
                   closing, gateLog, robbed, crashes, cmds, copies>>

\* Mutant of FireTimer: the entry is removed and its promise forgotten.
FireTimerSilently(t) ==
    /\ t \in timers
    /\ timers' = timers \ {t}
    /\ pending' = [pending EXCEPT ![rid[t.call]] = None]
    /\ UNCHANGED <<callVars, requests, publishing, isConnected, closing, gateLog,
                   robbed, crashes, channelVars>>

\* The callback of setTimeout: it looks its entry up by request id.
FireTimer(t) ==
    /\ t \in timers
    /\ timers' = timers \ {t}
    /\ LET e == Lookup(rid[t.call]) IN
       \/ e = None /\ UNCHANGED <<pc, outcome, pending>>
       \/ /\ e # None
          /\ pending' = [pending EXCEPT ![rid[t.call]] = None]
          /\ RejectTimeout(e)
    /\ UNCHANGED <<rid, attempt, answer, requests, publishing, isConnected,
                   closing, gateLog, robbed, crashes, channelVars>>

\* The publish callback of attempt t reports an error: it clears its own timer,
\* removes whatever entry its request id has, and rejects its own promise.
PublishError(t) ==
    /\ t \in publishing /\ publishing' = publishing \ {t}
    /\ timers' = timers \ {t}
    /\ pending' = [pending EXCEPT ![rid[t.call]] = None]
    /\ Reject(t)
    /\ robbed' = IF Lookup(rid[t.call]) \in {None, t} THEN robbed
                 ELSE robbed \cup {rid[t.call]}
    /\ UNCHANGED <<rid, attempt, answer, requests, isConnected, closing,
                   gateLog, crashes, channelVars>>

\* The client's connect, close, offline and error events.  After disconnect, an
\* openGate that starts late connects again.
Connect ==
    /\ ~isConnected /\ isConnected' = TRUE
    /\ UNCHANGED <<callVars, requests, pending, timers, publishing, closing,
                   gateLog, robbed, crashes, channelVars>>

ConnectionLost ==
    /\ isConnected /\ isConnected' = FALSE
    /\ UNCHANGED <<callVars, requests, pending, timers, publishing, closing,
                   gateLog, robbed, crashes, channelVars>>

\* disconnect, from onModuleDestroy, which Nest runs when the application is
\* closed: every pending request is rejected.  The client is not ended yet: that
\* is a later ConnectionLost.
Disconnect ==
    /\ ~closing /\ closing' = TRUE
    /\ LET open == {pending[r] : r \in Rid} \ {None}
           hit(c) == \E t \in open : t.call = c /\ Waiting(t)
       IN  /\ timers' = timers \ open
           /\ pending' = [r \in Rid |-> None]
           /\ pc' = [c \in Call |->
                       IF ~hit(c) THEN pc[c]
                       ELSE IF attempt[c] < RetryCount THEN "delay" ELSE "log"]
           /\ outcome' = [c \in Call |->
                            IF hit(c) /\ attempt[c] = RetryCount
                            THEN "bad_gateway" ELSE outcome[c]]
    /\ UNCHANGED <<rid, attempt, answer, requests, publishing, isConnected,
                   gateLog, robbed, crashes, channelVars>>

\* The process dies and is started again: it listens once onModuleInit has
\* connected.  What was in memory is gone, and so are the callers' sockets.
Crash ==
    /\ crashes < MaxCrashes /\ crashes' = crashes + 1
    /\ pc' = [c \in Call |-> IF pc[c] \in {"idle", "done"} THEN pc[c]
                             ELSE "lost"]
    /\ pending' = [r \in Rid |-> None]
    /\ timers' = {} /\ publishing' = {} /\ robbed' = {}
    /\ isConnected' = TRUE /\ closing' = FALSE
    /\ UNCHANGED <<rid, attempt, outcome, answer, requests, gateLog,
                   channelVars>>

-----------------------------------------------------------------------------
CallStep(c) ==
    \/ \E r \in Rid : StartUser(c, r) \/ StartAdmin(c, r)
    \/ Register(c) \/ FirstAttempt(c) \/ NextAttempt(c) \/ WriteLog(c)

BackendStep ==
    \/ \E c \in Call : CallStep(c)
    \/ \E t \in timers : FireTimer(t)
    \/ \E t \in publishing : PublishError(t)
    \/ \E a \in acks : HandleAck(a)
    \/ \E r \in Rid : Expire(r)
    \/ Connect \/ ConnectionLost \/ Disconnect \/ Crash

BackendInit ==
    /\ pc = [c \in Call |-> "idle"] /\ rid = [c \in Call |-> NoRid]
    /\ attempt = [c \in Call |-> 0]
    /\ outcome = [c \in Call |-> "none"] /\ answer = [c \in Call |-> "none"]
    /\ requests = {} /\ pending = [r \in Rid |-> None] /\ timers = {}
    /\ publishing = {} /\ robbed = {}
    /\ isConnected = TRUE /\ closing = FALSE /\ gateLog = {} /\ crashes = 0

\* On its own: the device may take a command, and publish an ACK.
EnvDevice ==
    /\ \/ \E m \in cmds : TakeCommand(m) /\ UNCHANGED acks
       \/ \E a \in EnvAck : PublishToAcks(a) /\ UNCHANGED <<cmds, copies>>
       \/ LoseAck
    /\ UNCHANGED backendVars

Init == BackendInit /\ ChannelInit

Next == BackendStep \/ EnvDevice

Spec == Init /\ [][Next]_vars

\* Timers fire, the database answers and the event loop runs every callback.
Fairness ==
    /\ \A c \in Call : /\ WF_vars(Register(c)) /\ WF_vars(FirstAttempt(c))
                       /\ WF_vars(NextAttempt(c)) /\ WF_vars(WriteLog(c))
    /\ \A c \in Call, n \in 0 .. RetryCount :
           WF_vars(FireTimer([call |-> c, attempt |-> n]))

FairSpec == Spec /\ Fairness

-----------------------------------------------------------------------------
(* Properties *)

\* Every variable holds a value its TypeScript type and the code allow.
TypeOK ==
    /\ pc \in [Call -> PC] /\ rid \in [Call -> Rid \cup {NoRid}]
    /\ attempt \in [Call -> 0 .. RetryCount]
    /\ outcome \in [Call -> Outcome] /\ answer \in [Call -> Outcome]
    /\ requests \subseteq Rid
    /\ pending \in [Rid -> Attempt \cup {None}]
    /\ timers \subseteq Attempt /\ publishing \subseteq Attempt
    /\ robbed \subseteq Rid
    /\ isConnected \in BOOLEAN /\ closing \in BOOLEAN
    /\ gateLog \subseteq [call : Call, rid : Rid, status : Status]
    /\ crashes \in Nat /\ copies \in Nat
    /\ cmds \subseteq [rid : Rid, kind : {"open"}, issuedAt : 0 .. RetryCount]
    /\ acks \subseteq Ack

\* The requestId key of pendingRequests suffices: two calls are never inside
\* openGate with the same id, whatever concurrent duplicates, TTL expiry and
\* crashes do (checkAndRegisterRequestId, openGate).  Only a call that was robbed
\* of its entry may still wait when its id has expired.
OneCallPerRequestId ==
    \A c, d \in Call :
        InDevice(c) /\ InDevice(d) /\ rid[c] = rid[d] /\ rid[c] \notin robbed
            => c = d

\* No request is forgotten: a call that waits has its own entry and its own
\* armed timer, so an ACK or the timer settles it.
WaiterIsPending ==
    \A c \in Call :
        pc[c] = "await" /\ rid[c] \notin robbed =>
            /\ pending[rid[c]] = Current(c)
            /\ Current(c) \in timers

\* An entry is that of a call with its request id.
EntryHasItsId ==
    \A r \in Rid : pending[r] # None => rid[pending[r].call] = r

\* No entry and no timer outlives its attempt: a late ACK finds nothing, and a
\* timer never rejects another attempt's promise.
NoStaleEntry ==
    /\ \A r \in Rid \ robbed : pending[r] # None => Waiting(pending[r])
    /\ \A t \in timers : rid[t.call] \notin robbed => Waiting(t)

\* pendingRequests and the timers are those of the calls that wait, no fewer and
\* no more, although they are found by request id and a retry uses the same one.
\* One thing breaks this, for one request id: a publish error that is reported
\* when a later attempt has the entry (robbed).
PendingMatchesCalls == WaiterIsPending /\ EntryHasItsId /\ NoStaleEntry

\* Every call is answered, unless its process died or is being shut down (then
\* openGate may wait in connect for ever), or a late publish error took its
\* entry (then nothing settles its promise any more): nothing else that the
\* broker and the device do, or fail to do, makes a call hang.
EveryCallEnds ==
    \A c \in Call :
        pc[c] # "idle" ~>
            pc[c] \in {"done", "lost"} \/ closing \/ rid[c] \in robbed
=============================================================================
