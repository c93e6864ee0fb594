---------------------------- MODULE BrowserProofs ----------------------------
(***************************************************************************)
(* Proofs about what runs in a browser and the server's end of it: the     *)
(* session of the tabs (ClientSession), the administrator's terminal       *)
(* (Terminals) and the pages around it (AdminPage), for every set of tabs, *)
(* requests, sockets, users and devices.  ClientSession shares nothing     *)
(* with the other two but this module.                                     *)
(***************************************************************************)
EXTENDS ClientSession, AdminPage, TLAPS

-----------------------------------------------------------------------------
(* ClientSession.  The single flight: a tab has a promise exactly when a    *)
(* request of its own is under way, and whoever waits, waits for that.  The *)
(* cookie: unless an answer was lost or two writers overlapped, one request *)
(* at most is about to replace the session, and what it was granted is what *)
(* its answer will put into the cookie.                                     *)
-----------------------------------------------------------------------------
RequestRecord == [phase : RequestPhase, tab : Tab \cup {None},
                  kind : {"shared", "direct"}, old : Version, new : Version]
CallRecord == [kind : Kind, phase : CallPhase, token : Version]

-----------------------------------------------------------------------------
(* Type correctness *)

LEMMA ZeroIsVersion == 0 \in Version
BY ClientAssumption DEF Version

LEMMA NoRequestType == NoRequest \in RequestRecord
BY ZeroIsVersion DEF NoRequest, RequestRecord, RequestPhase

LEMMA NoCallType == NoCall \in CallRecord
BY ZeroIsVersion DEF NoCall, CallRecord, Kind, CallPhase

\* The browser's own part of the state, which the answer to a refresh changes.
TabsTyped ==
    /\ access \in [Tab -> Version] /\ promise \in [Tab -> Refresh \cup {None}]
    /\ call \in [Tab -> [Slot -> CallRecord]]
    /\ user \in [Tab -> BOOLEAN] /\ ready \in [Tab -> BOOLEAN]

\* TypeOK, with names for the two kinds of records.
Typed ==
    /\ TabsTyped
    /\ request \in [Refresh -> RequestRecord]
    /\ session \in Version /\ cookie \in Version /\ versions \in Version
    /\ expired \in BOOLEAN
    /\ page \in [Tab -> {"login", "home"}] /\ relogin \in [Tab -> BOOLEAN]
    /\ mishap \in BOOLEAN /\ events \in 0 .. MaxEvents

LEMMA TypedIsTypeOK == Typed <=> TypeOK
BY DEF TypeOK, Typed, TabsTyped, RequestRecord, CallRecord

LEMMA TypeInit == Init => Typed
<1> SUFFICES ASSUME Init
             PROVE  Typed
  OBVIOUS
<1>1. TabsTyped
  BY ZeroIsVersion, NoCallType DEF Init, TabsTyped
<1>2. 0 \in 0 .. MaxEvents
  BY ClientAssumption
<1>3. QED
  BY <1>1, <1>2, ZeroIsVersion, NoRequestType DEF Init, Typed

LEMMA EventType ==
    ASSUME Typed, Event
    PROVE  events' \in 0 .. MaxEvents
BY ClientAssumption DEF Typed, Event

LEMMA CountType ==
    ASSUME Typed, versions < MaxVersion
    PROVE  versions + 1 \in Version
BY ClientAssumption DEF Typed, Version

LEMMA FreshIsIdle ==
    ASSUME Idle # {}
    PROVE  Fresh \in Refresh /\ request[Fresh].phase = "idle"
<1>1. Fresh \in Idle
  BY DEF Fresh
<1>2. QED
  BY <1>1 DEF Idle

LEMMA SentType ==
    ASSUME Typed, NEW q \in Refresh, NEW t \in Tab, NEW kind \in {"shared", "direct"}
    PROVE  Sent(q, t, kind) \in [Refresh -> RequestRecord]
<1>1. [phase |-> "sent", tab |-> t, kind |-> kind, old |-> cookie, new |-> 0]
        \in RequestRecord
  BY ZeroIsVersion DEF Typed, RequestRecord, RequestPhase
<1>2. QED
  BY <1>1 DEF Typed, Sent

LEMMA EndedType ==
    ASSUME NEW c \in CallRecord, NEW phase \in CallPhase
    PROVE  Ended(c, phase) \in CallRecord
BY NoCallType DEF Ended, CallRecord

LEMMA WokenType ==
    ASSUME Typed, NEW t \in Tab, NEW v \in Version
    PROVE  Woken(t, v) \in [Tab -> [Slot -> CallRecord]]
<1>1. \A s \in Slot : call[t][s] \in CallRecord
  BY DEF Typed, TabsTyped
<1>2. \A s \in Slot : [call[t][s] EXCEPT !.phase = "resent", !.token = v] \in CallRecord
  BY <1>1 DEF CallRecord, CallPhase
<1>3. \A s \in Slot : Ended(call[t][s], "unauthorized") \in CallRecord
  BY <1>1, EndedType DEF CallPhase
<1>4. QED
  BY <1>1, <1>2, <1>3 DEF Typed, Woken, TabsTyped

LEMMA SettleType ==
    ASSUME Typed, NEW t \in Tab, NEW v \in Version, Settle(t, v)
    PROVE  TabsTyped'
<1>1. call' \in [Tab -> [Slot -> CallRecord]]
  BY WokenType DEF Settle
<1>2. QED
  BY <1>1 DEF Typed, Settle, TabsTyped

LEMMA GoOnType ==
    ASSUME Typed, NEW t \in Tab, NEW v \in Version, GoOn(t, v)
    PROVE  TabsTyped'
<1>1. [kind |-> "me", phase |-> "sent", token |-> v] \in CallRecord
  BY DEF CallRecord, Kind, CallPhase
<1>2. call' \in [Tab -> [Slot -> CallRecord]]
  BY <1>1 DEF Typed, GoOn, TabsTyped, Slot
<1>3. user' \in [Tab -> BOOLEAN] /\ ready' \in [Tab -> BOOLEAN]
  BY DEF Typed, GoOn, TabsTyped
<1>4. QED
  BY <1>2, <1>3 DEF Typed, GoOn, TabsTyped

LEMMA ReturnType ==
    ASSUME Typed, NEW q \in Refresh, request[q].tab # None, NEW v \in Version, Return(q, v)
    PROVE  TabsTyped'
<1>1. request[q].tab \in Tab
  BY DEF Typed, RequestRecord
<1>2. QED
  BY <1>1, SettleType, GoOnType DEF Return

LEMMA RefreshStep ==
    ASSUME Typed, NEW q \in Refresh, Answers(q) \/ LoseRefresh(q)
    PROVE  Typed'
<1>1. request[q] \in RequestRecord /\ request \in [Refresh -> RequestRecord]
  BY DEF Typed
<1>2. CASE CheckRefresh(q)
  <2>1. \A p \in RequestPhase : [request[q] EXCEPT !.phase = p] \in RequestRecord
    BY <1>1 DEF RequestRecord
  <2>2. request' \in [Refresh -> RequestRecord]
    BY <1>1, <1>2, <2>1 DEF CheckRefresh, RequestPhase
  <2>3. mishap' \in BOOLEAN
    BY <1>2 DEF Typed, CheckRefresh
  <2>4. QED
    BY <1>2, <2>2, <2>3 DEF Typed, CheckRefresh, TabsTyped, serverVars
<1>3. CASE WriteRefresh(q)
  <2>1. versions' \in Version
    BY <1>3, CountType DEF WriteRefresh
  <2>2. [request[q] EXCEPT !.phase = "granted", !.new = versions'] \in RequestRecord
    BY <1>1, <2>1 DEF RequestRecord, RequestPhase
  <2>3. request' \in [Refresh -> RequestRecord]
    BY <1>1, <1>3, <2>2 DEF WriteRefresh
  <2>4. QED
    BY <1>3, <2>1, <2>3 DEF Typed, WriteRefresh, TabsTyped
<1>4. CASE AnswerRefresh(q)
  <2>1. request[q].new \in Version
    BY <1>1 DEF RequestRecord
  <2>2. TabsTyped'
    <3>1. \E v \in Version : Return(q, v)
      BY <1>4, <2>1, ZeroIsVersion DEF AnswerRefresh
    <3>2. QED
      BY <1>4, <3>1, ReturnType DEF AnswerRefresh
  <2>3. request' \in [Refresh -> RequestRecord] /\ cookie' \in Version
    BY <1>1, <1>4, <2>1, NoRequestType DEF Typed, AnswerRefresh
  <2>4. QED
    BY <1>4, <2>2, <2>3 DEF Typed, AnswerRefresh, serverVars
<1>5. CASE DropRefresh(q)
  BY <1>1, <1>5, NoRequestType DEF Typed, DropRefresh, TabsTyped, serverVars
<1>6. CASE LoseRefresh(q)
  <2>1. TabsTyped'
    BY <1>6, ZeroIsVersion, ReturnType DEF LoseRefresh
  <2>2. [request[q] EXCEPT !.tab = None] \in RequestRecord
    BY <1>1 DEF RequestRecord
  <2>3. request' \in [Refresh -> RequestRecord]
    BY <1>1, <1>6, <2>2 DEF LoseRefresh
  <2>4. QED
    BY <1>6, <2>1, <2>3, EventType DEF Typed, LoseRefresh, serverVars
<1>7. QED
  BY <1>2, <1>3, <1>4, <1>5, <1>6 DEF Answers

LEMMA ServerStep ==
    ASSUME Typed, SessionEnds \/ TokenExpires
    PROVE  Typed'
BY ZeroIsVersion, EventType DEF Typed, SessionEnds, TokenExpires, TabsTyped

LEMMA CallStep ==
    ASSUME Typed, NEW t \in Tab, NEW s \in Slot, Replies(t, s)
    PROVE  Typed'
<1>1. call[t][s] \in CallRecord /\ call \in [Tab -> [Slot -> CallRecord]]
  BY DEF Typed, TabsTyped
<1>2. \A p \in CallPhase : [call[t][s] EXCEPT !.phase = p] \in CallRecord
  BY <1>1 DEF CallRecord
<1>3. \A p \in CallPhase : Ended(call[t][s], p) \in CallRecord
  BY <1>1, EndedType
<1>4. call' \in [Tab -> [Slot -> CallRecord]]
  <2>1. CASE CallWorks(t, s)
    BY <1>1, <1>2, <1>3, <2>1 DEF CallWorks, CallPhase
  <2>2. CASE CallRefused(t, s)
    BY <1>1, <1>2, <2>2 DEF CallRefused, CallPhase
  <2>3. CASE RetryRefused(t, s)
    BY <1>1, <1>3, <2>3 DEF RetryRefused, CallPhase
  <2>4. QED
    BY <2>1, <2>2, <2>3 DEF Replies
<1>5. CASE CallWorks(t, s)
  BY <1>4, <1>5 DEF Typed, CallWorks, TabsTyped, serverVars
<1>6. CASE CallRefused(t, s)
  <2>1. request' \in [Refresh -> RequestRecord] /\ promise' \in [Tab -> Refresh \cup {None}]
    <3>1. CASE promise[t] # None
      BY <1>6, <3>1 DEF Typed, CallRefused, TabsTyped
    <3>2. CASE promise[t] = None
      <4>1. Fresh \in Refresh
        BY <1>6, <3>2, FreshIsIdle DEF CallRefused
      <4>2. request' = Sent(Fresh, t, "shared") /\ promise' = [promise EXCEPT ![t] = Fresh]
        BY <1>6, <3>2 DEF CallRefused
      <4>3. request' \in [Refresh -> RequestRecord]
        BY <4>1, <4>2, SentType
      <4>4. QED
        BY <4>1, <4>2, <4>3 DEF Typed, TabsTyped
    <3>3. QED
      BY <3>1, <3>2
  <2>2. QED
    BY <1>4, <1>6, <2>1 DEF Typed, CallRefused, TabsTyped, serverVars
<1>7. CASE RetryRefused(t, s)
  BY <1>4, <1>7 DEF Typed, RetryRefused, TabsTyped, serverVars
<1>8. QED
  BY <1>5, <1>6, <1>7 DEF Replies

LEMMA LogStep ==
    ASSUME Typed, NEW t \in Tab, LogsInOrOut(t)
    PROVE  Typed'
<1> DEFINE AllCalls == [Tab -> [Slot -> CallRecord]]
<1>1. call[t]["script"] \in CallRecord /\ call \in AllCalls /\ "script" \in Slot
  BY DEF Typed, TabsTyped, Slot
<1>2. mishap' \in BOOLEAN
  BY DEF Typed, LogsInOrOut, LoginWorks, AnswerLogin, LogoutWorks, AnswerLogout
<1>3. ASSUME NEW c \in CallRecord, call' = [call EXCEPT ![t]["script"] = c]
      PROVE  call' \in AllCalls
  BY <1>1, <1>3
<1>4. CASE LoginWorks(t)
  <2>1. versions' \in Version
    BY <1>4, CountType DEF LoginWorks
  <2>2. [kind |-> "login", phase |-> "served", token |-> versions'] \in CallRecord
    BY <2>1 DEF CallRecord, Kind, CallPhase
  <2>3. call' \in AllCalls
    BY <1>3, <1>4, <2>2 DEF LoginWorks
  <2>4. QED
    BY <1>2, <1>4, <2>1, <2>3 DEF Typed, LoginWorks, TabsTyped
<1>5. CASE AnswerLogin(t)
  <2>1. call[t]["script"].token \in Version
    BY <1>1 DEF CallRecord
  <2>2. [kind |-> "info", phase |-> "sent", token |-> call[t]["script"].token]
          \in CallRecord
    BY <2>1 DEF CallRecord, Kind, CallPhase
  <2>3. call' \in AllCalls
    BY <1>3, <1>5, <2>2 DEF AnswerLogin
  <2>4. QED
    BY <1>2, <1>5, <2>1, <2>3 DEF Typed, AnswerLogin, TabsTyped, serverVars
<1>6. CASE LogoutWorks(t)
  <2>1. [call[t]["script"] EXCEPT !.phase = "served"] \in CallRecord
    BY <1>1 DEF CallRecord, CallPhase
  <2>2. call' \in AllCalls
    BY <1>1, <1>6, <2>1 DEF LogoutWorks
  <2>3. QED
    BY <1>2, <1>6, <2>2, ZeroIsVersion DEF Typed, LogoutWorks, TabsTyped
<1>7. CASE AnswerLogout(t)
  <2>1. Ended(call[t]["script"], "ok") \in CallRecord
    BY <1>1, EndedType DEF CallPhase
  <2>2. call' \in AllCalls
    BY <1>1, <1>7, <2>1 DEF AnswerLogout
  <2>3. QED
    BY <1>2, <1>7, <2>2, ZeroIsVersion DEF Typed, AnswerLogout, TabsTyped, serverVars
<1>8. QED
  BY <1>4, <1>5, <1>6, <1>7 DEF LogsInOrOut

LEMMA PageStep ==
    ASSUME Typed, NEW t \in Tab,
           ScriptGoesOn(t) \/ PushLogin(t) \/ Guard(t)
    PROVE  Typed'
<1>1. CASE ScriptGoesOn(t)
  <2>1. call' \in [Tab -> [Slot -> CallRecord]]
    BY <1>1, NoCallType DEF Typed, ScriptGoesOn, TabsTyped, Slot
  <2>2. access' \in [Tab -> Version]
    BY <1>1, ZeroIsVersion DEF Typed, ScriptGoesOn, TabsTyped
  <2>3. user' \in [Tab -> BOOLEAN] /\ ready' \in [Tab -> BOOLEAN]
    <3>1. user[t] \in BOOLEAN
      BY DEF Typed, TabsTyped
    <3>2. QED
      BY <1>1, <3>1 DEF Typed, ScriptGoesOn, TabsTyped
  <2>4. page' \in [Tab -> {"login", "home"}] /\ relogin' \in [Tab -> BOOLEAN]
    BY <1>1 DEF Typed, ScriptGoesOn
  <2>5. QED
    BY <1>1, <2>1, <2>2, <2>3, <2>4 DEF Typed, ScriptGoesOn, TabsTyped, serverVars
<1>2. CASE PushLogin(t)
  BY <1>2 DEF Typed, PushLogin, TabsTyped, serverVars
<1>3. CASE Guard(t)
  BY <1>3 DEF Typed, Guard, TabsTyped, serverVars
<1>4. QED
  BY <1>1, <1>2, <1>3

LEMMA UserStep ==
    ASSUME Typed, NEW t \in Tab,
           \/ CallFails(t) \/ Load(t) \/ Login(t) \/ Poll(t)
           \/ \E kind \in {"open", "logout"} : Press(t, kind)
    PROVE  Typed'
<1> DEFINE AllCalls == [Tab -> [Slot -> CallRecord]]
<1>1. call[t]["script"] \in CallRecord /\ call \in AllCalls
  BY DEF Typed, TabsTyped, Slot
<1>2. access[t] \in Version
  BY DEF Typed, TabsTyped
<1>3. ASSUME NEW kind \in Kind, NEW v \in Version, NEW s \in Slot
      PROVE  [call EXCEPT ![t][s] = [kind |-> kind, phase |-> "sent", token |-> v]]
                \in AllCalls
  <2>1. [kind |-> kind, phase |-> "sent", token |-> v] \in CallRecord
    BY DEF CallRecord, CallPhase
  <2>2. QED
    BY <1>1, <2>1
<1>4. CASE CallFails(t)
  <2>1. [call[t]["script"] EXCEPT !.phase = "failed"] \in CallRecord
    BY <1>1 DEF CallRecord, CallPhase
  <2>2. call' \in AllCalls
    BY <1>1, <1>4, <2>1 DEF CallFails, Slot
  <2>3. QED
    BY <1>4, <2>2, EventType DEF Typed, CallFails, TabsTyped, serverVars
<1>5. CASE Load(t)
  <2>1. request' \in [Refresh -> RequestRecord]
    <3>1. \A q \in Refresh : [request[q] EXCEPT !.tab = None] \in RequestRecord
      BY DEF Typed, RequestRecord
    <3>2. \A q \in Refresh : Sent(Fresh, t, "direct")[q] \in RequestRecord
      BY <1>5, FreshIsIdle, SentType DEF Load
    <3>3. QED
      BY <1>5, <3>1, <3>2 DEF Load
  <2>2. TabsTyped'
    BY <1>5, ZeroIsVersion, NoCallType DEF Typed, Load, TabsTyped
  <2>3. mishap' \in BOOLEAN /\ relogin' \in [Tab -> BOOLEAN]
    BY <1>5 DEF Typed, Load
  <2>4. QED
    BY <1>5, <2>1, <2>2, <2>3, EventType DEF Typed, Load, serverVars
<1>6. CASE Login(t)
  <2>1. call' \in AllCalls
    BY <1>3, <1>6, ZeroIsVersion DEF Login, Kind, Slot
  <2>2. QED
    BY <1>6, <2>1, EventType DEF Typed, Login, TabsTyped, serverVars
<1>7. CASE Poll(t)
  <2>1. call' \in AllCalls
    BY <1>2, <1>3, <1>7 DEF Poll, Call, Kind, Slot
  <2>2. QED
    BY <1>7, <2>1, EventType DEF Typed, Poll, TabsTyped, serverVars
<1>8. ASSUME NEW kind \in {"open", "logout"}, Press(t, kind)
      PROVE  Typed'
  <2>1. call' \in AllCalls
    BY <1>2, <1>3, <1>8 DEF Press, Call, Kind, Slot
  <2>2. QED
    BY <1>8, <2>1, EventType DEF Typed, Press, TabsTyped, serverVars
<1>9. QED
  BY <1>4, <1>5, <1>6, <1>7, <1>8

LEMMA TypeNext == Typed /\ [Next]_vars => Typed'
<1> SUFFICES ASSUME Typed, [Next]_vars
             PROVE  Typed'
  OBVIOUS
<1>1. CASE Goes
  BY <1>1, RefreshStep, PageStep, CallStep, LogStep DEF Goes
<1>2. CASE Happens
  BY <1>2, RefreshStep, UserStep, ServerStep DEF Happens
<1>3. CASE UNCHANGED vars
  BY <1>3 DEF vars, serverVars, Typed, TabsTyped
<1>4. QED
  BY <1>1, <1>2, <1>3 DEF Next

\* The state of the tabs, the requests and the backend has the type TypeOK gives it.
THEOREM TypeCorrect == Spec => []TypeOK
BY TypeInit, TypeNext, TypedIsTypeOK, PTL DEF Spec

-----------------------------------------------------------------------------
(* Waiting calls *)

\* A request that is over belongs to nobody.
IdleIsFree == \A q \in Refresh : request[q].phase = "idle" => request[q] = NoRequest

\* The requests of WaitersAreWoken.
Mine(t) == {q \in Refresh : request[q].phase # "idle" /\ request[q].tab = t
                             /\ request[q].kind = "shared"}
Waits(t) == \E s \in Slot : call[t][s].phase = "waiting"

Matched(t) ==
    /\ Mine(t) = {promise[t]} \ {None}
    /\ Waits(t) => promise[t] # None

FlightInv == IdleIsFree /\ \A t \in Tab : Matched(t)

LEMMA FlightMeans == FlightInv => WaitersAreWoken
BY DEF FlightInv, Matched, Mine, Waits, WaitersAreWoken

LEMMA FlightInit == Init => FlightInv
<1> SUFFICES ASSUME Init
             PROVE  FlightInv
  OBVIOUS
<1>1. \A q \in Refresh : request[q] = NoRequest
  BY DEF Init
<1>2. \A t \in Tab : Mine(t) = {} /\ promise[t] = None
  BY <1>1 DEF Init, Mine, NoRequest
<1>3. \A t \in Tab : ~Waits(t)
  BY DEF Init, Waits, NoCall
<1>4. QED
  BY <1>1, <1>2, <1>3 DEF FlightInv, IdleIsFree, Matched

\* A step that starts no call's wait, and leaves the requests of the tabs and
\* their promises as they are.
LEMMA FlightKept ==
    ASSUME FlightInv, IdleIsFree', UNCHANGED promise,
           \A t \in Tab : Mine(t)' = Mine(t),
           \A t \in Tab : Waits(t)' => Waits(t)
    PROVE  FlightInv'
BY DEF FlightInv, Matched

\* A call that has not ended waits no longer after phase has been set.
LEMMA EndedDoesNotWait ==
    ASSUME NEW c \in CallRecord, NEW phase \in Over
    PROVE  Ended(c, phase).phase # "waiting"
BY DEF Ended, CallRecord, NoCall, Over

LEMMA WokenDoesNotWait ==
    ASSUME Typed, NEW t \in Tab, NEW v \in Version
    PROVE  \A s \in Slot : /\ Woken(t, v)[t][s].phase # "waiting"
                            /\ \A u \in Tab \ {t} : Woken(t, v)[u][s] = call[u][s]
<1> TAKE s \in Slot
<1>1. call[t][s] \in CallRecord /\ call \in [Tab -> [Slot -> CallRecord]]
  BY DEF Typed, TabsTyped
<1>2. Ended(call[t][s], "unauthorized").phase # "waiting"
  BY <1>1, EndedDoesNotWait DEF Over
<1>3. [call[t][s] EXCEPT !.phase = "resent", !.token = v].phase = "resent"
  BY <1>1 DEF CallRecord
<1>4. Woken(t, v)[t][s].phase # "waiting"
  BY <1>1, <1>2, <1>3 DEF Woken
<1>5. QED
  BY <1>1, <1>4 DEF Woken

\* What becomes of the promise when the request of q settles or is given up.
LEMMA ReturnMatches ==
    ASSUME Typed, FlightInv, NEW q \in Refresh, request[q].tab # None,
           NEW v \in Version, Return(q, v),
           \A p \in Refresh \ {q} : request'[p] = request[p],
           request'[q].tab = None
    PROVE  \A t \in Tab : Matched(t)'
<1>1. PICK owner \in Tab : request[q].tab = owner
  BY DEF Typed, RequestRecord
<1>2. request[q].phase # "idle"
  BY DEF FlightInv, IdleIsFree, NoRequest
<1>3. ASSUME NEW t \in Tab
      PROVE  Mine(t)' = Mine(t) \ {q}
  BY <1>3, ClientAssumption DEF Mine
<1>4. CASE request[q].kind = "shared"
  <2>1. q \in Mine(owner)
    BY <1>1, <1>2, <1>4 DEF Mine
  <2>2. promise[owner] = q /\ Mine(owner) = {q}
    BY <1>1, <2>1 DEF FlightInv, Matched
  <2>3. promise' = [promise EXCEPT ![owner] = None] /\ call' = Woken(owner, v)
    BY <1>1, <1>4 DEF Return, Settle
  <2>4. Matched(owner)'
    <3>1. promise'[owner] = None
      BY <1>1, <2>3 DEF Typed, TabsTyped
    <3>2. ~Waits(owner)'
      BY <1>1, <2>3, WokenDoesNotWait DEF Waits
    <3>3. QED
      BY <1>1, <1>3, <2>2, <3>1, <3>2 DEF Matched
  <2>5. ASSUME NEW t \in Tab \ {owner}
        PROVE  Matched(t)'
    <3>1. promise'[t] = promise[t]
      BY <2>3 DEF Typed, TabsTyped
    <3>2. Waits(t)' <=> Waits(t)
      BY <1>1, <2>3, WokenDoesNotWait DEF Waits
    <3>3. q \notin Mine(t)
      BY <1>1 DEF Mine
    <3>4. Mine(t)' = Mine(t) /\ Matched(t)
      BY <1>3, <3>3 DEF FlightInv
    <3>5. QED
      BY <3>1, <3>2, <3>4 DEF Matched
  <2>6. QED
    BY <2>4, <2>5
<1>5. CASE request[q].kind # "shared"
  <2>1. UNCHANGED promise
    BY <1>5 DEF Return, GoOn
  <2>2. \A t \in Tab : Waits(t)' => Waits(t)
    BY <1>1, <1>5 DEF Return, GoOn, Waits, Typed, TabsTyped
  <2>3. \A t \in Tab : Mine(t)' = Mine(t)
    BY <1>3, <1>5 DEF Mine
  <2>4. QED
    BY <2>1, <2>2, <2>3 DEF FlightInv, Matched
<1>6. QED
  BY <1>4, <1>5

LEMMA FlightRefresh ==
    ASSUME Typed, FlightInv, NEW q \in Refresh, Answers(q) \/ LoseRefresh(q)
    PROVE  FlightInv'
<1>1. request[q] \in RequestRecord /\ request \in [Refresh -> RequestRecord]
  BY DEF Typed
<1>2. NoRequest.phase = "idle" /\ NoRequest.tab = None
  BY DEF NoRequest
<1>3. CASE CheckRefresh(q) \/ WriteRefresh(q)
  <2>1. \A p \in Refresh : /\ (request'[p].phase = "idle" <=> request[p].phase = "idle")
                            /\ (request[p].phase = "idle" => request'[p] = request[p])
                            /\ request'[p].tab = request[p].tab
                            /\ request'[p].kind = request[p].kind
    <3>1. CASE CheckRefresh(q)
      BY <1>1, <3>1 DEF CheckRefresh, RequestRecord
    <3>2. CASE WriteRefresh(q)
      BY <1>1, <3>2 DEF WriteRefresh, RequestRecord
    <3>3. QED
      BY <1>3, <3>1, <3>2
  <2>2. IdleIsFree'
    BY <2>1 DEF FlightInv, IdleIsFree, NoRequest
  <2>3. \A t \in Tab : Mine(t)' = Mine(t)
    BY <2>1 DEF Mine
  <2>4. UNCHANGED <<promise, call>>
    BY <1>3 DEF CheckRefresh, WriteRefresh
  <2>5. QED
    BY <2>2, <2>3, <2>4, FlightKept DEF Waits
<1>4. CASE AnswerRefresh(q)
  <2>1. \A p \in Refresh \ {q} : request'[p] = request[p]
    BY <1>1, <1>4 DEF AnswerRefresh
  <2>2. request'[q] = NoRequest
    BY <1>1, <1>4 DEF AnswerRefresh
  <2>3. request[q].new \in Version
    BY <1>1 DEF RequestRecord
  <2>4. \A t \in Tab : Matched(t)'
    <3>1. \E v \in Version : Return(q, v)
      BY <1>4, <2>3, ZeroIsVersion DEF AnswerRefresh
    <3>2. request[q].tab # None
      BY <1>4 DEF AnswerRefresh
    <3>3. QED
      BY <1>2, <2>1, <2>2, <3>1, <3>2, ReturnMatches
  <2>5. IdleIsFree'
    BY <2>1, <2>2 DEF FlightInv, IdleIsFree, NoRequest
  <2>6. QED
    BY <2>4, <2>5 DEF FlightInv
<1>5. CASE LoseRefresh(q)
  <2>1. \A p \in Refresh \ {q} : request'[p] = request[p]
    BY <1>1, <1>5 DEF LoseRefresh
  <2>2. request'[q].tab = None /\ request'[q].phase = request[q].phase
    BY <1>1, <1>5 DEF LoseRefresh, RequestRecord
  <2>3. \A t \in Tab : Matched(t)'
    BY <1>5, <2>1, <2>2, ZeroIsVersion, ReturnMatches DEF LoseRefresh
  <2>4. request[q].phase # "idle"
    BY <1>2, <1>5 DEF FlightInv, IdleIsFree, LoseRefresh
  <2>5. IdleIsFree'
    BY <2>1, <2>2, <2>4 DEF FlightInv, IdleIsFree, NoRequest
  <2>6. QED
    BY <2>3, <2>5 DEF FlightInv
<1>6. CASE DropRefresh(q)
  <2>1. \A p \in Refresh \ {q} : request'[p] = request[p]
    BY <1>1, <1>6 DEF DropRefresh
  <2>2. request'[q] = NoRequest
    BY <1>1, <1>6 DEF DropRefresh
  <2>3. IdleIsFree'
    BY <2>1, <2>2 DEF FlightInv, IdleIsFree, NoRequest
  <2>4. \A t \in Tab : Mine(t)' = Mine(t)
    BY <1>2, <1>6, <2>1, <2>2, ClientAssumption DEF Mine, DropRefresh
  <2>5. QED
    BY <1>6, <2>3, <2>4, FlightKept DEF DropRefresh, Waits
<1>7. QED
  BY <1>3, <1>4, <1>5, <1>6 DEF Answers

LEMMA FlightCall ==
    ASSUME Typed, FlightInv, NEW t \in Tab, NEW s \in Slot, Replies(t, s)
    PROVE  FlightInv'
<1>1. call[t][s] \in CallRecord /\ call \in [Tab -> [Slot -> CallRecord]]
  BY DEF Typed, TabsTyped
<1>2. CASE CallWorks(t, s) \/ RetryRefused(t, s)
  <2>1. \A p \in Over : Ended(call[t][s], p).phase # "waiting"
    BY <1>1, EndedDoesNotWait
  <2>2. [call[t][s] EXCEPT !.phase = "accepted"].phase # "waiting"
    BY <1>1 DEF CallRecord
  <2>3. \E c : c.phase # "waiting" /\ call' = [call EXCEPT ![t][s] = c]
    BY <1>1, <1>2, <2>1, <2>2 DEF CallWorks, RetryRefused, Over
  <2>4. \A u \in Tab : Waits(u)' => Waits(u)
    BY <1>1, <2>3 DEF Waits
  <2>5. UNCHANGED <<promise, request>>
    BY <1>2 DEF CallWorks, RetryRefused
  <2>6. QED
    BY <2>4, <2>5, FlightKept DEF FlightInv, IdleIsFree, Mine, NoRequest
<1>3. CASE CallRefused(t, s)
  <2>1. \A u \in Tab \ {t} : Waits(u)' <=> Waits(u)
    BY <1>1, <1>3 DEF CallRefused, Waits
  <2>2. CASE promise[t] # None
    BY <1>3, <2>1, <2>2 DEF CallRefused, FlightInv, IdleIsFree, Matched, Mine, NoRequest
  <2>3. CASE promise[t] = None
    <3>1. Fresh \in Refresh /\ request[Fresh].phase = "idle"
      BY <1>3, <2>3, FreshIsIdle DEF CallRefused
    <3>2. request' = Sent(Fresh, t, "shared") /\ promise' = [promise EXCEPT ![t] = Fresh]
      BY <1>3, <2>3 DEF CallRefused
    <3>3. /\ request'[Fresh].phase = "sent" /\ request'[Fresh].tab = t
          /\ request'[Fresh].kind = "shared"
          /\ \A q \in Refresh \ {Fresh} : request'[q] = request[q]
      BY <3>1, <3>2 DEF Sent, Typed
    <3>4. IdleIsFree'
      BY <3>3 DEF FlightInv, IdleIsFree, NoRequest
    <3>5. Matched(t)'
      <4>1. Mine(t) = {} /\ promise'[t] = Fresh
        BY <2>3, <3>2 DEF FlightInv, Matched, Typed, TabsTyped
      <4>2. Mine(t)' = {Fresh}
        BY <3>1, <3>3, <4>1 DEF Mine
      <4>3. Fresh # None
        BY <3>1, ClientAssumption
      <4>4. QED
        BY <4>1, <4>2, <4>3 DEF Matched
    <3>6. ASSUME NEW u \in Tab \ {t}
          PROVE  Matched(u)'
      <4>1. promise'[u] = promise[u]
        BY <3>2 DEF Typed, TabsTyped
      <4>2. Mine(u)' = Mine(u)
        BY <3>1, <3>3 DEF Mine
      <4>3. QED
        BY <2>1, <4>1, <4>2 DEF FlightInv, Matched
    <3>7. QED
      BY <3>4, <3>5, <3>6 DEF FlightInv
  <2>4. QED
    BY <2>2, <2>3
<1>4. QED
  BY <1>2, <1>3 DEF Replies

\* Steps of a tab that touch no refresh: its calls, if they change, do not wait.
LEMMA FlightTab ==
    ASSUME Typed, FlightInv, NEW t \in Tab,
           \/ LogsInOrOut(t) \/ ScriptGoesOn(t) \/ PushLogin(t) \/ Guard(t)
           \/ CallFails(t) \/ Login(t) \/ Poll(t)
           \/ \E kind \in {"open", "logout"} : Press(t, kind)
    PROVE  FlightInv'
<1> DEFINE Sets(s) == \/ UNCHANGED call
                      \/ \E c : c.phase # "waiting" /\ call' = [call EXCEPT ![t][s] = c]
<1>1. call[t]["script"] \in CallRecord /\ call \in [Tab -> [Slot -> CallRecord]]
  BY DEF Typed, TabsTyped, Slot
<1>2. UNCHANGED <<promise, request>>
  BY DEF ScriptGoesOn, PushLogin, Guard, CallFails, Login, Poll, Press,
     LogsInOrOut, LoginWorks, AnswerLogin, LogoutWorks, AnswerLogout
<1>3. \E s \in Slot : Sets(s)
  <2>1. CASE ScriptGoesOn(t)
    BY <2>1 DEF ScriptGoesOn, NoCall, Slot
  <2>2. CASE PushLogin(t) \/ Guard(t)
    <3>1. NoCall.phase # "waiting" /\ "poll" \in Slot
      BY DEF NoCall, Slot
    <3>2. QED
      BY <2>2, <3>1 DEF PushLogin, Guard
  <2>3. CASE CallFails(t)
    <3>1. [call[t]["script"] EXCEPT !.phase = "failed"].phase # "waiting"
      BY <1>1 DEF CallRecord
    <3>2. QED
      BY <2>3, <3>1 DEF CallFails, Slot
  <2>4. CASE Login(t)
    BY <2>4 DEF Login, Slot
  <2>5. CASE Poll(t)
    BY <2>5 DEF Poll, Call, Slot
  <2>6. ASSUME NEW kind \in {"open", "logout"}, Press(t, kind)
        PROVE  \E s \in Slot : Sets(s)
    BY <2>6 DEF Press, Call, Slot
  <2>7. CASE LoginWorks(t) \/ AnswerLogin(t)
    BY <2>7 DEF LoginWorks, AnswerLogin, Slot
  <2>8. CASE LogoutWorks(t)
    <3>1. [call[t]["script"] EXCEPT !.phase = "served"].phase # "waiting"
      BY <1>1 DEF CallRecord
    <3>2. QED
      BY <2>8, <3>1 DEF LogoutWorks, Slot
  <2>9. CASE AnswerLogout(t)
    <3>1. Ended(call[t]["script"], "ok").phase # "waiting"
      BY <1>1, EndedDoesNotWait DEF Over
    <3>2. QED
      BY <2>9, <3>1 DEF AnswerLogout, Slot
  <2>10. QED
    BY <2>1, <2>2, <2>3, <2>4, <2>5, <2>6, <2>7, <2>8, <2>9 DEF LogsInOrOut
<1>4. \A u \in Tab : Waits(u)' => Waits(u)
  BY <1>1, <1>3 DEF Waits
<1>5. QED
  BY <1>2, <1>4, FlightKept DEF FlightInv, IdleIsFree, Mine, NoRequest

LEMMA FlightLoad ==
    ASSUME Typed, FlightInv, NEW t \in Tab, Load(t)
    PROVE  FlightInv'
<1> DEFINE mine == {q \in Refresh : request[q].tab = t}
<1>1. Fresh \in Refresh /\ request[Fresh].phase = "idle" /\ request[Fresh] = NoRequest
  BY FreshIsIdle DEF Load, FlightInv, IdleIsFree
<1>2. Fresh \notin mine
  BY <1>1, ClientAssumption DEF NoRequest
<1>3. /\ request'[Fresh].phase = "sent" /\ request'[Fresh].kind = "direct"
      /\ \A q \in mine : /\ request'[q].tab = None /\ request'[q].phase = request[q].phase
      /\ \A q \in Refresh \ (mine \cup {Fresh}) : request'[q] = request[q]
  <2>1. \A q \in mine : request'[q] = [request[q] EXCEPT !.tab = None]
    BY DEF Load
  <2>2. \A q \in Refresh \ mine : request'[q] = Sent(Fresh, t, "direct")[q]
    BY DEF Load
  <2>3. /\ Sent(Fresh, t, "direct")[Fresh].phase = "sent"
        /\ Sent(Fresh, t, "direct")[Fresh].kind = "direct"
        /\ \A q \in Refresh \ {Fresh} : Sent(Fresh, t, "direct")[q] = request[q]
    BY <1>1 DEF Sent, Typed
  <2>4. \A q \in mine : /\ [request[q] EXCEPT !.tab = None].tab = None
                         /\ [request[q] EXCEPT !.tab = None].phase = request[q].phase
    BY DEF Typed, RequestRecord
  <2>5. QED
    BY <1>1, <1>2, <2>1, <2>2, <2>3, <2>4
<1>4. IdleIsFree'
  <2>1. \A q \in mine : request[q].phase # "idle"
    BY ClientAssumption DEF FlightInv, IdleIsFree, NoRequest
  <2>2. QED
    BY <1>3, <2>1 DEF FlightInv, IdleIsFree, NoRequest
<1>5. Matched(t)'
  <2>1. Mine(t)' = {}
    BY <1>3, ClientAssumption DEF Mine
  <2>2. promise'[t] = None
    BY DEF Load, Typed, TabsTyped
  <2>3. ~Waits(t)'
    BY DEF Load, Waits, Typed, TabsTyped, NoCall
  <2>4. QED
    BY <2>1, <2>2, <2>3 DEF Matched
<1>6. ASSUME NEW u \in Tab \ {t}
      PROVE  Matched(u)'
  <2>1. Mine(u)' = Mine(u)
    BY <1>1, <1>3, ClientAssumption DEF Mine
  <2>2. promise'[u] = promise[u] /\ call'[u] = call[u]
    BY DEF Load, Typed, TabsTyped
  <2>3. QED
    BY <2>1, <2>2 DEF FlightInv, Matched, Waits
<1>7. QED
  BY <1>4, <1>5, <1>6 DEF FlightInv

LEMMA FlightNext == Typed /\ FlightInv /\ [Next]_vars => FlightInv'
<1> SUFFICES ASSUME Typed, FlightInv, [Next]_vars
             PROVE  FlightInv'
  OBVIOUS
<1>1. CASE Goes
  BY <1>1, FlightRefresh, FlightTab, FlightCall DEF Goes
<1>2. CASE Happens
  <2>1. CASE SessionEnds \/ TokenExpires
    BY <2>1, FlightKept
       DEF SessionEnds, TokenExpires, FlightInv, IdleIsFree, Mine, Waits, NoRequest
  <2>2. QED
    BY <1>2, <2>1, FlightRefresh, FlightTab, FlightLoad DEF Happens
<1>3. CASE UNCHANGED vars
  BY <1>3, FlightKept DEF vars, FlightInv, IdleIsFree, Mine, Waits, NoRequest
<1>4. QED
  BY <1>1, <1>2, <1>3 DEF Next

\* Whatever answers come, in whatever order, a call that waits for refreshPromise
\* waits for the one shared request of its own tab (refreshAccessToken in api.ts).
THEOREM WaitersCorrect == Spec => []WaitersAreWoken
<1>1. Init => Typed /\ FlightInv
  BY TypeInit, FlightInit
<1>2. Typed /\ FlightInv /\ [Next]_vars => (Typed /\ FlightInv)'
  BY TypeNext, FlightNext
<1>3. QED
  BY <1>1, <1>2, FlightMeans, PTL DEF Spec

-----------------------------------------------------------------------------
(* Cookie and session *)

\* Unless an answer was lost or two writers overlapped, somebody waits for every
\* request; one refresh, login or logout at most is about to change session or
\* cookie; and a session written for an answer on its way is the last one, if it
\* has not ended.
Awaited == ~mishap => \A q \in Refresh : request[q].phase # "idle" => request[q].tab # None
OneWriter ==
    ~mishap => /\ \A p, q \in Underway : p = q
               /\ \A t, u \in Served : t = u
               /\ Underway = {} \/ Served = {}
GrantIsSession ==
    ~mishap =>
        /\ \A q \in Refresh :
               request[q].phase = "granted" => session \in {0, request[q].new}
        /\ \A t \in Served :
               LET c == call[t]["script"]
               IN  session = 0 \/ (c.kind = "login" /\ session = c.token)

CookieInv == IdleIsFree /\ Awaited /\ OneWriter /\ GrantIsSession /\ CookieFollowsSession

LEMMA CookieInit == Init => CookieInv
BY DEF Init, CookieInv, IdleIsFree, Awaited, OneWriter, GrantIsSession,
       CookieFollowsSession, Underway, Served, NoRequest, NoCall, Slot

\* No login or logout is served by the step, and none that was is forgotten while
\* there is a session.
ServedKept ==
    /\ \A u \in Tab : call'[u]["script"].phase = "served"
                      => call'[u]["script"] = call[u]["script"]
    /\ session' # 0 => \A u \in Tab : call[u]["script"].phase = "served"
                                      => call'[u]["script"].phase = "served"

\* The calls of t change, but its script's call is not served and was not.
LEMMA ServedSame ==
    ASSUME NEW t \in Tab, \A u \in Tab \ {t} : call'[u] = call[u],
           call'[t]["script"] # call[t]["script"]
               => /\ call'[t]["script"].phase # "served"
                  /\ session' # 0 => call[t]["script"].phase # "served"
    PROVE  ServedKept
BY DEF ServedKept

\* A step that leaves the requests alone, and session and cookie unless the
\* session ends.
LEMMA CookieKept ==
    ASSUME CookieInv, UNCHANGED request, mishap => mishap', ServedKept,
           session' = 0 \/ UNCHANGED <<session, cookie>>
    PROVE  CookieInv'
<1>1. IdleIsFree'
  BY DEF CookieInv, IdleIsFree, NoRequest
<1>2. Awaited'
  BY DEF CookieInv, Awaited
<1>3. Underway' = Underway /\ Served' \subseteq Served
  BY DEF Underway, Served, ServedKept
<1>4. OneWriter'
  BY <1>3 DEF CookieInv, OneWriter
<1>5. GrantIsSession'
  BY DEF CookieInv, GrantIsSession, Served, ServedKept
<1>6. CookieFollowsSession'
  BY DEF CookieInv, CookieFollowsSession, Served, ServedKept
<1>7. QED
  BY <1>1, <1>2, <1>4, <1>5, <1>6 DEF CookieInv

\* A request that is sent or has been refused may be replaced by another one like
\* that, or by none, if somebody waits for the new one.
LEMMA CookieOther ==
    ASSUME CookieInv, NEW q \in Refresh,
           request[q].phase \notin {"checked", "granted"},
           request'[q].phase \notin {"checked", "granted"},
           \A p \in Refresh \ {q} : request'[p] = request[p],
           request'[q].phase = "idle" => request'[q] = NoRequest,
           ~mishap' /\ request'[q].phase # "idle" => request'[q].tab # None,
           mishap => mishap', ServedKept, UNCHANGED <<session, cookie>>
    PROVE  CookieInv'
<1>1. IdleIsFree'
  BY DEF CookieInv, IdleIsFree, NoRequest
<1>2. Awaited'
  BY DEF CookieInv, Awaited
<1>3. Underway' = Underway /\ Served' \subseteq Served
  BY DEF Underway, Served, ServedKept
<1>4. OneWriter'
  BY <1>3 DEF CookieInv, OneWriter
<1>5. GrantIsSession'
  BY DEF CookieInv, GrantIsSession, Served, ServedKept
<1>6. CookieFollowsSession'
  BY DEF CookieInv, CookieFollowsSession, Served, ServedKept
<1>7. QED
  BY <1>1, <1>2, <1>4, <1>5, <1>6 DEF CookieInv

\* After a mishap only IdleIsFree is left to keep.
LEMMA CookieGone ==
    ASSUME IdleIsFree', mishap'
    PROVE  CookieInv'
BY DEF CookieInv, Awaited, OneWriter, GrantIsSession, CookieFollowsSession

LEMMA CookieCheck ==
    ASSUME Typed, CookieInv, NEW q \in Refresh, CheckRefresh(q)
    PROVE  CookieInv'
<1> DEFINE passes == request[q].old # 0 /\ request[q].old = session
<1>1. /\ request'[q].phase = (IF passes THEN "checked" ELSE "refused")
      /\ request'[q].tab = request[q].tab
      /\ \A p \in Refresh \ {q} : request'[p] = request[p]
  BY DEF CheckRefresh, Typed, RequestRecord
<1>2. /\ request[q].phase = "sent" /\ mishap' = (mishap \/ (passes /\ Writing))
      /\ UNCHANGED <<session, cookie, call>>
  BY DEF CheckRefresh, serverVars
<1>3. CASE ~passes
  BY <1>1, <1>2, <1>3, CookieOther DEF CookieInv, Awaited, ServedKept
<1>4. CASE passes
  <2>1. IdleIsFree'
    BY <1>1, <1>4 DEF CookieInv, IdleIsFree, NoRequest
  <2>2. CASE mishap'
    BY <2>1, <2>2, CookieGone
  <2>3. CASE ~mishap'
    <3>1. ~mishap /\ Underway = {} /\ Served = {}
      BY <1>2, <1>4, <2>3 DEF Typed, Writing
    <3>2. Underway' = {q} /\ Served' = {}
      BY <1>1, <1>2, <1>4, <3>1 DEF Underway, Served
    <3>3. Awaited'
      BY <1>1, <1>2, <3>1 DEF CookieInv, Awaited
    <3>4. OneWriter'
      BY <3>2 DEF OneWriter
    <3>5. GrantIsSession'
      BY <1>1, <1>4, <3>1, <3>2 DEF GrantIsSession, Underway
    <3>6. CookieFollowsSession'
      BY <1>2, <3>1 DEF CookieInv, CookieFollowsSession, Underway
    <3>7. QED
      BY <2>1, <3>3, <3>4, <3>5, <3>6 DEF CookieInv
  <2>4. QED
    BY <2>2, <2>3
<1>5. QED
  BY <1>3, <1>4

LEMMA CookieWrite ==
    ASSUME Typed, CookieInv, NEW q \in Refresh, WriteRefresh(q)
    PROVE  CookieInv'
<1>1. /\ request'[q].phase = "granted" /\ request'[q].new = session'
      /\ request'[q].tab = request[q].tab
      /\ \A p \in Refresh \ {q} : request'[p] = request[p]
  BY DEF WriteRefresh, Typed, RequestRecord
<1>2. request[q].phase = "checked" /\ UNCHANGED <<mishap, call>>
  BY DEF WriteRefresh
<1>3. IdleIsFree'
  BY <1>1 DEF CookieInv, IdleIsFree, NoRequest
<1>4. CASE mishap'
  BY <1>3, <1>4, CookieGone
<1>5. CASE ~mishap'
  <2>1. Underway = {q} /\ Served = {} /\ request[q].tab # None
    BY <1>2, <1>5 DEF CookieInv, OneWriter, Awaited, Underway
  <2>2. Underway' = {q} /\ Served' = {}
    BY <1>1, <1>2, <2>1 DEF Underway, Served
  <2>3. Awaited'
    BY <1>1, <1>2, <2>1 DEF CookieInv, Awaited
  <2>4. OneWriter' /\ GrantIsSession'
    BY <1>1, <2>2 DEF OneWriter, GrantIsSession, Underway
  <2>5. CookieFollowsSession'
    BY <1>1, <2>1 DEF CookieFollowsSession
  <2>6. QED
    BY <1>3, <2>3, <2>4, <2>5 DEF CookieInv
<1>6. QED
  BY <1>4, <1>5

\* The calls an answer wakes or starts are not served.
LEMMA ReturnServesNone ==
    ASSUME Typed, NEW q \in Refresh, NEW t \in Tab, request[q].tab = t,
           NEW v \in Version, Return(q, v), Served = {}
    PROVE  \A u \in Tab : call'[u]["script"].phase # "served"
<1>1. /\ call \in [Tab -> [Slot -> CallRecord]] /\ "script" \in Slot
      /\ call[t]["script"] \in CallRecord
  BY DEF Typed, TabsTyped, Slot
<1>2. \A u \in Tab : call[u]["script"].phase # "served"
  BY DEF Served
<1>3. CASE request[q].kind = "shared"
  <2>1. call' = Woken(t, v)
    BY <1>3 DEF Return, Settle
  <2>2. Ended(call[t]["script"], "unauthorized").phase # "served"
    BY <1>1 DEF Ended, CallRecord, NoCall
  <2>3. [call[t]["script"] EXCEPT !.phase = "resent", !.token = v].phase = "resent"
    BY <1>1 DEF CallRecord
  <2>4. QED
    BY <1>1, <1>2, <2>1, <2>2, <2>3 DEF Woken
<1>4. CASE request[q].kind # "shared"
  BY <1>1, <1>2, <1>4 DEF Return, GoOn
<1>5. QED
  BY <1>3, <1>4

LEMMA CookieAnswer ==
    ASSUME Typed, CookieInv, NEW q \in Refresh, AnswerRefresh(q)
    PROVE  CookieInv'
<1>1. /\ request'[q] = NoRequest /\ NoRequest.phase = "idle"
      /\ \A p \in Refresh \ {q} : request'[p] = request[p]
  BY DEF AnswerRefresh, Typed, NoRequest
<1>2. UNCHANGED <<mishap, session>>
  BY DEF AnswerRefresh, serverVars
<1>3. PICK t \in Tab : request[q].tab = t
  BY DEF AnswerRefresh, Typed, RequestRecord
<1>4. CASE request[q].phase = "refused"
  <2>1. Return(q, 0)
    BY <1>4 DEF AnswerRefresh
  <2>2. call' = Woken(t, 0) \/ UNCHANGED call
    BY <1>3, <2>1 DEF Return, Settle, GoOn
  <2>3. ASSUME call' = Woken(t, 0) PROVE ServedKept
    <3>1. call[t]["script"] \in CallRecord /\ call \in [Tab -> [Slot -> CallRecord]]
      BY DEF Typed, TabsTyped, Slot
    <3>2. Ended(call[t]["script"], "unauthorized").phase # "served"
      BY <3>1 DEF Ended, CallRecord, NoCall
    <3>3. call'[t]["script"] =
              IF call[t]["script"].phase # "waiting" THEN call[t]["script"]
              ELSE Ended(call[t]["script"], "unauthorized")
      BY <2>3, <3>1 DEF Woken, Slot
    <3>4. \A u \in Tab \ {t} : call'[u] = call[u]
      BY <2>3, <3>1 DEF Woken
    <3>5. QED
      BY <3>2, <3>3, <3>4, ServedSame
  <2>4. ServedKept
    BY <2>2, <2>3 DEF ServedKept
  <2>5. QED
    BY <1>1, <1>2, <1>4, <2>4, CookieOther DEF AnswerRefresh
<1>5. CASE request[q].phase = "granted"
  <2>1. IdleIsFree'
    BY <1>1 DEF CookieInv, IdleIsFree
  <2>2. CASE mishap'
    BY <2>1, <2>2, CookieGone
  <2>3. CASE ~mishap'
    <3>1. Underway = {q} /\ Served = {} /\ session \in {0, request[q].new}
      BY <1>2, <1>5, <2>3 DEF CookieInv, OneWriter, GrantIsSession, Underway
    <3>2. Underway' = {}
      BY <1>1, <3>1 DEF Underway
    <3>3. Served' = {}
      <4>1. request[q].new \in Version
        BY DEF Typed, RequestRecord
      <4>2. Return(q, request[q].new)
        BY <1>5 DEF AnswerRefresh
      <4>3. \A u \in Tab : call'[u]["script"].phase # "served"
        BY <1>3, <3>1, <4>1, <4>2, ReturnServesNone
      <4>4. QED
        BY <4>3 DEF Served
    <3>4. Awaited'
      BY <1>1, <1>2 DEF CookieInv, Awaited
    <3>5. OneWriter' /\ GrantIsSession'
      BY <3>2, <3>3 DEF OneWriter, GrantIsSession, Underway
    <3>6. cookie' = request[q].new
      BY <1>5 DEF AnswerRefresh
    <3>7. CookieFollowsSession'
      BY <1>2, <3>1, <3>6 DEF CookieFollowsSession
    <3>8. QED
      BY <2>1, <3>4, <3>5, <3>7 DEF CookieInv
  <2>4. QED
    BY <2>2, <2>3
<1>6. QED
  BY <1>4, <1>5 DEF AnswerRefresh

LEMMA CookieLose ==
    ASSUME Typed, CookieInv, NEW q \in Refresh, LoseRefresh(q) \/ DropRefresh(q)
    PROVE  CookieInv'
<1>1. CASE LoseRefresh(q)
  <2>1. /\ request'[q].phase = request[q].phase
        /\ \A p \in Refresh \ {q} : request'[p] = request[p]
    BY <1>1 DEF LoseRefresh, Typed, RequestRecord
  <2>2. request[q].phase # "idle"
    BY <1>1 DEF LoseRefresh, CookieInv, IdleIsFree, NoRequest
  <2>3. IdleIsFree'
    BY <2>1, <2>2 DEF CookieInv, IdleIsFree, NoRequest
  <2>4. QED
    BY <1>1, <2>3, CookieGone DEF LoseRefresh
<1>2. CASE DropRefresh(q)
  <2>1. /\ request'[q] = NoRequest /\ NoRequest.phase = "idle"
        /\ \A p \in Refresh \ {q} : request'[p] = request[p]
    BY <1>2 DEF DropRefresh, Typed, NoRequest
  <2>2. UNCHANGED mishap
    BY <1>2 DEF DropRefresh
  <2>3. IdleIsFree'
    BY <2>1 DEF CookieInv, IdleIsFree
  <2>4. mishap
    BY <1>2 DEF DropRefresh, CookieInv, Awaited
  <2>5. QED
    BY <2>2, <2>3, <2>4, CookieGone
<1>3. QED
  BY <1>1, <1>2

\* A login or a logout is served: nobody else is writing, or there is a mishap.
LEMMA CookieServed ==
    ASSUME Typed, CookieInv, NEW t \in Tab, LoginWorks(t) \/ LogoutWorks(t)
    PROVE  CookieInv'
<1> DEFINE c == call'[t]["script"]
<1>1. /\ UNCHANGED request /\ mishap' = (mishap \/ Writing)
      /\ \A u \in Tab \ {t} : call'[u] = call[u]
      /\ session' = 0 \/ (c.kind = "login" /\ session' = c.token)
  BY DEF LoginWorks, LogoutWorks, Typed, TabsTyped, Slot
<1>2. c.phase = "served"
  BY DEF LoginWorks, LogoutWorks, Typed, TabsTyped, Slot, CallRecord
<1>3. IdleIsFree'
  BY <1>1 DEF CookieInv, IdleIsFree, NoRequest
<1>4. CASE mishap'
  BY <1>3, <1>4, CookieGone
<1>5. CASE ~mishap'
  <2>1. ~mishap /\ Underway = {} /\ Served = {}
    BY <1>1, <1>5 DEF Writing
  <2>2. Underway' = {} /\ Served' = {t}
    BY <1>1, <1>2, <2>1 DEF Underway, Served
  <2>3. Awaited' /\ OneWriter'
    BY <1>1, <2>1, <2>2 DEF CookieInv, Awaited, OneWriter
  <2>4. GrantIsSession'
    BY <1>1, <2>2 DEF GrantIsSession, Underway
  <2>5. CookieFollowsSession'
    BY <1>1, <2>2 DEF CookieFollowsSession
  <2>6. QED
    BY <1>3, <2>3, <2>4, <2>5 DEF CookieInv
<1>6. QED
  BY <1>4, <1>5

\* The answer of a login or a logout: there is no other writer, so that the
\* session is the one of this login, or none.
LEMMA CookieAnswered ==
    ASSUME Typed, CookieInv, NEW t \in Tab, AnswerLogin(t) \/ AnswerLogout(t)
    PROVE  CookieInv'
<1> DEFINE c == call[t]["script"]
<1>1. /\ UNCHANGED <<request, mishap, session>>
      /\ c.phase = "served" /\ c.kind \in {"login", "logout"}
      /\ \A u \in Tab \ {t} : call'[u] = call[u]
      /\ c.kind = "login" => cookie' = c.token
  BY DEF AnswerLogin, AnswerLogout, serverVars, Typed, TabsTyped
<1>2. call'[t]["script"].phase # "served"
  <2>1. c \in CallRecord /\ call \in [Tab -> [Slot -> CallRecord]]
    BY DEF Typed, TabsTyped, Slot
  <2>2. Ended(c, "ok").phase # "served"
    BY <2>1 DEF Ended, CallRecord, NoCall
  <2>3. QED
    BY <2>1, <2>2 DEF AnswerLogin, AnswerLogout, Slot
<1>3. IdleIsFree'
  BY <1>1 DEF CookieInv, IdleIsFree, NoRequest
<1>4. CASE mishap'
  BY <1>3, <1>4, CookieGone
<1>5. CASE ~mishap'
  <2>1. Underway = {} /\ Served = {t}
    BY <1>1, <1>5 DEF CookieInv, OneWriter, Served
  <2>2. Underway' = {} /\ Served' = {}
    BY <1>1, <1>2, <2>1 DEF Underway, Served
  <2>3. Awaited' /\ OneWriter' /\ GrantIsSession'
    BY <1>1, <2>2 DEF CookieInv, Awaited, OneWriter, GrantIsSession, Underway
  <2>4. session = 0 \/ (c.kind = "login" /\ session = c.token)
    BY <1>1, <1>5, <2>1 DEF CookieInv, GrantIsSession
  <2>5. CookieFollowsSession'
    BY <1>1, <2>4 DEF CookieFollowsSession
  <2>6. QED
    BY <1>3, <2>3, <2>5 DEF CookieInv
<1>6. QED
  BY <1>4, <1>5

LEMMA CookieLoad ==
    ASSUME Typed, CookieInv, NEW t \in Tab, Load(t)
    PROVE  CookieInv'
<1> DEFINE mine == {q \in Refresh : request[q].tab = t}
<1>1. Fresh \in Refresh /\ request[Fresh].phase = "idle"
  BY FreshIsIdle DEF Load
<1>2. Sent(Fresh, t, "direct")[Fresh].phase = "sent"
      /\ Sent(Fresh, t, "direct")[Fresh].tab = t
      /\ \A q \in Refresh \ {Fresh} : Sent(Fresh, t, "direct")[q] = request[q]
  BY <1>1 DEF Sent, Typed
<1>3. mishap' = (mishap \/ mine # {} \/ call[t]["script"].kind = "login")
  BY DEF Load
<1>4. CASE ~mishap'
  <2>1. \A q \in Refresh : request'[q] = Sent(Fresh, t, "direct")[q]
    BY <1>3, <1>4 DEF Load
  <2>2. ~mishap /\ call[t]["script"].kind # "login"
    BY <1>3, <1>4
  <2>3. UNCHANGED <<session, cookie>>
    BY DEF Load, serverVars
  <2>4. t # None
    BY ClientAssumption
  <2>5. \A u \in Tab \ {t} : call'[u] = call[u]
    BY DEF Load, Typed, TabsTyped
  <2>6. call'[t]["script"] = NoCall
    BY DEF Load, Typed, TabsTyped, Slot
  <2>7. session # 0 => call[t]["script"].phase # "served"
    BY <2>2 DEF CookieInv, GrantIsSession, Served
  <2>8. ServedKept
    BY <2>3, <2>5, <2>6, <2>7, ServedSame DEF NoCall
  <2>9. QED
    BY <1>1, <1>2, <1>4, <2>1, <2>2, <2>3, <2>4, <2>8, CookieOther
<1>5. CASE mishap'
  <2>1. ASSUME NEW q \in Refresh, request'[q].phase = "idle"
        PROVE  request'[q] = NoRequest
    <3>1. CASE q \in mine
      <4>1. request'[q] = [request[q] EXCEPT !.tab = None]
        BY <3>1 DEF Load
      <4>2. request'[q].phase = request[q].phase
        BY <4>1 DEF Typed, RequestRecord
      <4>3. request[q] = NoRequest
        BY <2>1, <4>2 DEF CookieInv, IdleIsFree
      <4>4. QED
        BY <3>1, <4>3, ClientAssumption DEF NoRequest
    <3>2. CASE q \notin mine
      <4>1. request'[q] = Sent(Fresh, t, "direct")[q]
        BY <3>2 DEF Load
      <4>2. q # Fresh
        BY <1>2, <2>1, <4>1
      <4>3. QED
        BY <1>2, <2>1, <4>1, <4>2 DEF CookieInv, IdleIsFree
    <3>3. QED
      BY <3>1, <3>2
  <2>2. IdleIsFree'
    BY <2>1 DEF IdleIsFree, NoRequest
  <2>3. QED
    BY <1>5, <2>2, CookieGone
<1>6. QED
  BY <1>4, <1>5

\* The steps of a tab that change one call of its own, from and to something that
\* is not served.
LEMMA ServedCall ==
    ASSUME Typed, NEW t \in Tab, NEW s \in Slot, NEW c, c.phase # "served",
           s = "script" => call[t]["script"].phase # "served",
           call' = [call EXCEPT ![t][s] = c]
    PROVE  ServedKept
<1>1. call \in [Tab -> [Slot -> CallRecord]] /\ "script" \in Slot
  BY DEF Typed, TabsTyped, Slot
<1>2. /\ \A u \in Tab \ {t} : call'[u] = call[u]
      /\ call'[t]["script"] = IF s = "script" THEN c ELSE call[t]["script"]
  BY <1>1
<1>3. QED
  BY <1>2, ServedSame

LEMMA CookieCall ==
    ASSUME Typed, CookieInv, NEW t \in Tab, NEW s \in Slot, Replies(t, s)
    PROVE  CookieInv'
<1>1. call[t][s] \in CallRecord
  BY DEF Typed, TabsTyped
<1>2. ServedKept
  <2>1. \A p \in {"ok", "unauthorized"} : Ended(call[t][s], p).phase # "served"
    BY <1>1 DEF Ended, CallRecord, NoCall
  <2>2. \A p \in {"accepted", "waiting"} :
            [call[t][s] EXCEPT !.phase = p].phase # "served"
    BY <1>1 DEF CallRecord
  <2>3. \E c : c.phase # "served" /\ call' = [call EXCEPT ![t][s] = c]
    BY <2>1, <2>2 DEF Replies, CallWorks, CallRefused, RetryRefused
  <2>4. call[t][s].phase # "served"
    BY DEF Replies, CallWorks, CallRefused, RetryRefused
  <2>5. QED
    BY <2>3, <2>4, ServedCall
<1>3. CASE CallWorks(t, s) \/ RetryRefused(t, s)
  BY <1>2, <1>3, CookieKept DEF CallWorks, RetryRefused, serverVars
<1>4. CASE CallRefused(t, s)
  <2>1. UNCHANGED <<session, cookie, mishap>>
    BY <1>4 DEF CallRefused, serverVars
  <2>2. CASE promise[t] # None
    BY <1>2, <1>4, <2>1, <2>2, CookieKept DEF CallRefused
  <2>3. CASE promise[t] = None
    <3>1. Fresh \in Refresh /\ request[Fresh].phase = "idle"
      BY <1>4, <2>3, FreshIsIdle DEF CallRefused
    <3>2. request' = Sent(Fresh, t, "shared")
      BY <1>4, <2>3 DEF CallRefused
    <3>3. /\ request'[Fresh].phase = "sent" /\ request'[Fresh].tab = t
          /\ \A q \in Refresh \ {Fresh} : request'[q] = request[q]
      BY <3>1, <3>2 DEF Sent, Typed
    <3>4. t # None
      BY ClientAssumption
    <3>5. QED
      BY <1>2, <2>1, <3>1, <3>3, <3>4, CookieOther
  <2>4. QED
    BY <2>2, <2>3
<1>5. QED
  BY <1>3, <1>4 DEF Replies

LEMMA CookieTab ==
    ASSUME Typed, CookieInv, NEW t \in Tab,
           \/ ScriptGoesOn(t) \/ PushLogin(t) \/ Guard(t) \/ Poll(t) \/ Login(t)
           \/ \E kind \in {"open", "logout"} : Press(t, kind)
    PROVE  CookieInv'
<1>1. ServedKept
  <2>1. CASE PushLogin(t) \/ Guard(t)
    BY <2>1 DEF PushLogin, Guard, ServedKept
  <2>2. CASE ScriptGoesOn(t)
    <3>1. /\ call' = [call EXCEPT ![t]["script"] = NoCall]
          /\ call[t]["script"].phase # "served" /\ "script" \in Slot
      BY <2>2 DEF ScriptGoesOn, Over, Slot
    <3>2. NoCall.phase # "served"
      BY DEF NoCall
    <3>3. QED
      BY <3>1, <3>2, ServedCall
  <2>3. CASE Poll(t)
    <3>1. \E c : c.phase # "served" /\ call' = [call EXCEPT ![t]["poll"] = c]
      BY <2>3 DEF Poll, Call
    <3>2. "poll" \in Slot /\ "poll" # "script"
      BY DEF Slot
    <3>3. QED
      BY <3>1, <3>2, ServedCall
  <2>4. CASE Login(t) \/ \E kind \in {"open", "logout"} : Press(t, kind)
    <3>1. call[t]["script"].phase # "served"
      BY <2>4 DEF Login, Press, Free, NoCall
    <3>2. QED
      BY <2>4, <3>1, ServedCall DEF Login, Press, Call, Slot
  <2>5. QED
    BY <2>1, <2>2, <2>3, <2>4
<1>2. UNCHANGED <<request, mishap, session, cookie>>
  BY DEF ScriptGoesOn, PushLogin, Guard, Poll, Login, Press, serverVars
<1>3. QED
  BY <1>1, <1>2, CookieKept

LEMMA CookieFails ==
    ASSUME Typed, CookieInv, NEW t \in Tab, CallFails(t)
    PROVE  CookieInv'
<1> DEFINE c == call[t]["script"]
<1>1. /\ UNCHANGED <<request, session, cookie>>
      /\ mishap' = (mishap \/ (c.kind = "login" /\ c.phase = "served"))
  BY DEF CallFails, serverVars
<1>2. IdleIsFree'
  BY <1>1 DEF CookieInv, IdleIsFree, NoRequest
<1>3. CASE mishap'
  BY <1>2, <1>3, CookieGone
<1>4. CASE ~mishap'
  <2>1. session # 0 => c.phase # "served"
    BY <1>1, <1>4 DEF CookieInv, GrantIsSession, Served
  <2>2. /\ \A u \in Tab \ {t} : call'[u] = call[u]
        /\ call'[t]["script"].phase = "failed"
    BY DEF CallFails, Typed, TabsTyped, Slot, CallRecord
  <2>3. ServedKept
    BY <1>1, <2>1, <2>2, ServedSame
  <2>4. QED
    BY <1>1, <1>4, <2>3, CookieKept
<1>5. QED
  BY <1>3, <1>4

LEMMA CookieNext == Typed /\ CookieInv /\ [Next]_vars => CookieInv'
<1> SUFFICES ASSUME Typed, CookieInv, [Next]_vars
             PROVE  CookieInv'
  OBVIOUS
<1>1. CASE Goes
  BY <1>1, CookieCheck, CookieWrite, CookieAnswer, CookieLose, CookieCall, CookieTab,
     CookieServed, CookieAnswered DEF Goes, Answers, LogsInOrOut
<1>2. CASE Happens
  <2>1. CASE SessionEnds \/ TokenExpires
    BY <2>1, CookieKept DEF SessionEnds, TokenExpires, ServedKept
  <2>2. QED
    BY <1>2, <2>1, CookieLose, CookieLoad, CookieTab, CookieFails DEF Happens
<1>3. CASE UNCHANGED vars
  BY <1>3, CookieKept DEF vars, serverVars, ServedKept
<1>4. QED
  BY <1>1, <1>2, <1>3 DEF Next

\* The browser holds the cookie of the session, or its answer brings it, whatever
\* the tabs do, unless an answer is lost or two refreshes, logins or logouts
\* overlap (AuthService.refresh, login and logout, the functions of api.ts).
THEOREM CookieCorrect == Spec => []CookieFollowsSession
<1>1. Init => Typed /\ CookieInv
  BY TypeInit, CookieInit
<1>2. Typed /\ CookieInv /\ [Next]_vars => (Typed /\ CookieInv)'
  BY TypeNext, CookieNext
<1>3. CookieInv => CookieFollowsSession
  BY DEF CookieInv
<1>4. QED
  BY <1>1, <1>2, <1>3, PTL DEF Spec

-----------------------------------------------------------------------------
(* Terminals.  The sessions the service knows are the shells that run; a    *)
(* shell without an open socket is one whose socket closed while            *)
(* handleConnection waited.  The second needs to know that a socket         *)
(* handleConnection still waits for is open or already noted as late: from  *)
(* there createTerminal may start a shell, whatever happened in between.    *)
-----------------------------------------------------------------------------

WaitingIsKnown ==
    \A s \in finding : s \notin shell /\ (s \in open \/ s \in late)

-----------------------------------------------------------------------------
(* Type correctness *)

LEMMA TerminalTypeInit == TerminalInit => TerminalTypeOK
BY TerminalAssumption DEF TerminalInit, TerminalTypeOK, Account, Phase, Off

TerminalRecord == [phase : Phase, socket : Socket \cup {NoSocket},
              attempts : 0 .. Attempts, token : BOOLEAN]

LEMMA OffType == Off \in TerminalRecord
BY TerminalAssumption DEF Off, TerminalRecord, Phase

LEMMA ConnectingType ==
    ASSUME TerminalTypeOK, NEW t \in Terminal, NEW left \in 0 .. Attempts
    PROVE  Connecting(t, left) \in TerminalRecord
BY DEF TerminalTypeOK, Connecting, TerminalRecord, Phase

LEMMA TerminalStep ==
    ASSUME TerminalTypeOK, NEW t \in Terminal,
           Mount(t) \/ Unmount(t) \/ ConnectFails(t) \/ ClientLoses(t) \/ TerminalTokenExpires(t)
    PROVE  TerminalTypeOK'
<1>1. terminal[t] \in TerminalRecord /\ terminal \in [Terminal -> TerminalRecord]
  BY DEF TerminalTypeOK, TerminalRecord
<1>2. Attempts \in 0 .. Attempts
  BY TerminalAssumption
<1>3. terminal' \in [Terminal -> TerminalRecord]
  <2>1. CASE Mount(t)
    <3>1. \A c \in TerminalRecord : [c EXCEPT !.token = TRUE] \in TerminalRecord
      BY DEF TerminalRecord
    <3>2. QED
      BY <1>1, <1>2, <2>1, <3>1, ConnectingType DEF Mount
  <2>2. CASE Unmount(t)
    BY <1>1, <2>2, OffType DEF Unmount
  <2>3. CASE ConnectFails(t)
    <3>1. CASE terminal[t].attempts > 0
      <4>1. terminal[t].attempts - 1 \in 0 .. Attempts
        BY <1>1, <3>1, TerminalAssumption DEF TerminalRecord
      <4>2. QED
        BY <1>1, <2>3, <3>1, <4>1, ConnectingType DEF ConnectFails
    <3>2. CASE ~(terminal[t].attempts > 0)
      <4>1. [Off EXCEPT !.phase = "failed"] \in TerminalRecord
        BY OffType DEF TerminalRecord, Phase
      <4>2. QED
        BY <1>1, <2>3, <3>2, <4>1 DEF ConnectFails
    <3>3. QED
      BY <3>1, <3>2
  <2>4. CASE ClientLoses(t)
    BY <1>1, <1>2, <2>4, ConnectingType DEF ClientLoses
  <2>5. CASE TerminalTokenExpires(t)
    BY <1>1, <2>5 DEF TerminalTokenExpires, TerminalRecord
  <2>6. QED
    BY <2>1, <2>2, <2>3, <2>4, <2>5
<1>4. UNCHANGED <<account, open, finding, sessions, shell, late>>
  BY DEF Mount, Unmount, ConnectFails, ClientLoses, TerminalTokenExpires
<1>5. QED
  BY <1>3, <1>4 DEF TerminalTypeOK, TerminalRecord

LEMMA ConnectionStep ==
    ASSUME TerminalTypeOK, NEW t \in Terminal, HandleConnection(t)
    PROVE  TerminalTypeOK'
<1>1. PICK s \in Unused :
        /\ terminal' = [terminal EXCEPT ![t].phase = "connected", ![t].socket = s]
        /\ IF terminal[t].token THEN open' = open \cup {s} /\ finding' = finding \cup {s}
           ELSE UNCHANGED <<open, finding>>
        /\ late' = late \ {s}
  BY DEF HandleConnection
<1>2. s \in Socket
  BY <1>1 DEF Unused
<1>3. terminal \in [Terminal -> TerminalRecord] /\ "connected" \in Phase
  BY DEF TerminalTypeOK, TerminalRecord, Phase
<1>4. terminal' \in [Terminal -> TerminalRecord]
  BY <1>1, <1>2, <1>3 DEF TerminalRecord
<1>5. UNCHANGED <<account, sessions, shell>>
  BY DEF HandleConnection
<1>6. QED
  BY <1>1, <1>2, <1>4, <1>5 DEF TerminalTypeOK, TerminalRecord

LEMMA SocketStep ==
    ASSUME TerminalTypeOK, NEW s \in Socket,
           Refuse(s) \/ CreateTerminal(s) \/ ServerLoses(s) \/ ShellExits(s)
    PROVE  TerminalTypeOK'
BY DEF TerminalTypeOK, Refuse, CreateTerminal, ServerLoses, Close, DestroyTerminal, ShellExits

LEMMA TerminalTypeStep == TerminalTypeOK /\ [TerminalNext]_terminalVars => TerminalTypeOK'
<1> SUFFICES ASSUME TerminalTypeOK, [TerminalNext]_terminalVars PROVE TerminalTypeOK'
  OBVIOUS
<1>1. ASSUME NEW t \in Terminal,
             \/ Mount(t) \/ Unmount(t) \/ ConnectFails(t) \/ ClientLoses(t)
             \/ HandleConnection(t) \/ TerminalTokenExpires(t)
      PROVE  TerminalTypeOK'
  BY <1>1, TerminalStep, ConnectionStep
<1>2. ASSUME NEW s \in Socket,
             Refuse(s) \/ CreateTerminal(s) \/ ServerLoses(s) \/ ShellExits(s)
      PROVE  TerminalTypeOK'
  BY <1>2, SocketStep
<1>3. CASE Restart \/ UserChanges
  BY <1>3 DEF Restart, UserChanges, TerminalTypeOK, Account
<1>4. CASE UNCHANGED terminalVars
  BY <1>4 DEF terminalVars, TerminalTypeOK
<1>5. QED
  BY <1>1, <1>2, <1>3, <1>4 DEF TerminalNext

\* TypeOK for every set of tabs and sockets and every number of attempts: the
\* attempts a component has left never fall below 0 (Terminal.tsx).
THEOREM TerminalTypeCorrect == TerminalSpec => []TerminalTypeOK
BY TerminalTypeInit, TerminalTypeStep, PTL DEF TerminalSpec

-----------------------------------------------------------------------------
(* Sessions and shells *)

LEMMA SessionsStep == SessionsAreShells /\ [TerminalNext]_terminalVars => SessionsAreShells'
<1> SUFFICES ASSUME SessionsAreShells, [TerminalNext]_terminalVars PROVE SessionsAreShells'
  OBVIOUS
<1> USE DEF SessionsAreShells
<1>1. ASSUME NEW t \in Terminal,
             \/ Mount(t) \/ Unmount(t) \/ ConnectFails(t) \/ ClientLoses(t)
             \/ HandleConnection(t) \/ TerminalTokenExpires(t)
      PROVE  SessionsAreShells'
  BY <1>1 DEF Mount, Unmount, ConnectFails, ClientLoses, HandleConnection, TerminalTokenExpires
<1>2. ASSUME NEW s \in Socket,
             Refuse(s) \/ CreateTerminal(s) \/ ServerLoses(s) \/ ShellExits(s)
      PROVE  SessionsAreShells'
  BY <1>2 DEF Refuse, CreateTerminal, ServerLoses, Close, DestroyTerminal, ShellExits
<1>3. CASE Restart \/ UserChanges \/ UNCHANGED terminalVars
  BY <1>3 DEF Restart, UserChanges, terminalVars
<1>4. QED
  BY <1>1, <1>2, <1>3 DEF TerminalNext

\* destroyTerminal, onExit and createTerminal keep the map of sessions and the
\* running shells the same, in whatever order sockets and shells end.
THEOREM SessionsCorrect == TerminalSpec => []SessionsAreShells
<1>1. TerminalInit => SessionsAreShells
  BY DEF TerminalInit, SessionsAreShells
<1>2. QED
  BY <1>1, SessionsStep, PTL DEF TerminalSpec

LEMMA OrphansStep ==
    ASSUME SessionsAreShells, WaitingIsKnown, OrphansAreLate, [TerminalNext]_terminalVars
    PROVE  WaitingIsKnown' /\ OrphansAreLate'
<1> USE DEF WaitingIsKnown, OrphansAreLate
<1>1. ASSUME NEW t \in Terminal,
             Mount(t) \/ Unmount(t) \/ ConnectFails(t) \/ ClientLoses(t) \/ TerminalTokenExpires(t)
      PROVE  WaitingIsKnown' /\ OrphansAreLate'
  BY <1>1 DEF Mount, Unmount, ConnectFails, ClientLoses, TerminalTokenExpires
<1>2. ASSUME NEW t \in Terminal, HandleConnection(t)
      PROVE  WaitingIsKnown' /\ OrphansAreLate'
  <2>1. PICK s \in Unused :
          /\ \/ open' = open \cup {s} /\ finding' = finding \cup {s}
             \/ UNCHANGED <<open, finding>>
          /\ late' = late \ {s}
    BY <1>2 DEF HandleConnection
  <2>2. s \notin finding /\ s \notin shell
    BY <2>1 DEF Unused
  <2>3. UNCHANGED shell
    BY <1>2 DEF HandleConnection
  <2>4. QED
    BY <2>1, <2>2, <2>3
<1>3. ASSUME NEW s \in Socket, Refuse(s) \/ CreateTerminal(s) \/ ShellExits(s)
      PROVE  WaitingIsKnown' /\ OrphansAreLate'
  BY <1>3 DEF Refuse, CreateTerminal, ShellExits
<1>4. ASSUME NEW s \in Socket, ServerLoses(s)
      PROVE  WaitingIsKnown' /\ OrphansAreLate'
  BY <1>4 DEF ServerLoses, Close, DestroyTerminal, SessionsAreShells
<1>5. CASE Restart \/ UserChanges \/ UNCHANGED terminalVars
  BY <1>5 DEF Restart, UserChanges, terminalVars
<1>6. QED
  BY <1>1, <1>2, <1>3, <1>4, <1>5 DEF TerminalNext

\* The only way a shell loses its socket and runs on is the await of findById in
\* handleConnection: disconnects at any other time end it.
THEOREM OrphansCorrect == TerminalSpec => []OrphansAreLate
<1>1. TerminalInit => WaitingIsKnown /\ OrphansAreLate
  BY DEF TerminalInit, WaitingIsKnown, OrphansAreLate
<1>2. QED
  BY <1>1, SessionsCorrect, OrphansStep, PTL DEF TerminalSpec

-----------------------------------------------------------------------------
(* AdminPage.  A load that is asked for last is of the page's view, and if   *)
(* none is, the list shown was; a spinner has a load; the form in the edit   *)
(* modal is that of the selected user.                                       *)
-----------------------------------------------------------------------------
\* The kinds of records PageTypeOK is about, and its conjuncts by part.
ShownRecord == [view : View \cup {Nobody}, rows : SUBSET Row]
FormRecord == [of : Resident \cup {Nobody}, changed : BOOLEAN]
DiagnosisRecord == [device : Device \cup {Nobody}, data : Device \cup {Nobody},
                    loading : BOOLEAN, error : BOOLEAN]

ListTyped ==
    /\ view \in View /\ shown \in ShownRecord /\ fetches \subseteq Fetch
    /\ loading \in BOOLEAN /\ error \in BOOLEAN /\ stray \in BOOLEAN
DialogTyped ==
    /\ modal \subseteq Modal /\ selected \in Chosen \cup {Nobody}
    /\ toDelete \in Resident \cup {Nobody} /\ form \in FormRecord
    /\ crossed \in BOOLEAN
RequestsTyped ==
    /\ resident \in [Resident -> Doc] /\ handlers \subseteq Handler
    /\ clicks \in 0 .. MaxClicks
DiagnosisTyped ==
    /\ diagnosis \in DiagnosisRecord /\ asked \subseteq Device
    /\ overlapped \in BOOLEAN
PageTyped ==
    /\ activeTab \in Tabs
    /\ ListTyped /\ DialogTyped /\ RequestsTyped /\ DiagnosisTyped

LEMMA PageTypedDef == PageTypeOK <=> PageTyped
BY DEF PageTypeOK, PageTyped, ListTyped, DialogTyped, RequestsTyped, DiagnosisTyped,
   ShownRecord, FormRecord, DiagnosisRecord

-----------------------------------------------------------------------------
LEMMA FetchType ==
    ASSUME NEW v \in View, NEW n \in BOOLEAN, NEW s \in BOOLEAN
    PROVE  [view |-> v, newest |-> n, silent |-> s] \in Fetch
BY DEF Fetch

LEMMA AgedType ==
    ASSUME NEW set \in SUBSET Fetch
    PROVE  Aged(set) \subseteq Fetch /\ \A k \in Aged(set) : ~k.newest
<1> SUFFICES ASSUME NEW k \in Aged(set)
             PROVE  k \in Fetch /\ ~k.newest
  OBVIOUS
<1>1. PICK l \in set : k = [l EXCEPT !.newest = FALSE]
  BY DEF Aged
<1>2. l \in Fetch
  OBVIOUS
<1> QED
  BY <1>1, <1>2 DEF Fetch

LEMMA LoadsType ==
    ASSUME NEW v \in View
    PROVE  /\ Loads(v) \subseteq Fetch
           /\ \A l \in Loads(v) : l.view = v /\ ~l.silent
           /\ [view |-> v, newest |-> TRUE, silent |-> FALSE] \in Loads(v)
<1>1. [view |-> v, newest |-> TRUE, silent |-> FALSE] \in Loads(v)
  BY DEF Loads
<1>2. ASSUME NEW l \in Loads(v)
      PROVE  l \in Fetch /\ l.view = v /\ ~l.silent
  <2>1. \/ l = [view |-> v, newest |-> TRUE, silent |-> FALSE]
        \/ l = [view |-> v, newest |-> FALSE, silent |-> FALSE]
    BY <1>2 DEF Loads
  <2>2. ASSUME NEW n \in BOOLEAN, l = [view |-> v, newest |-> n, silent |-> FALSE]
        PROVE  l \in Fetch /\ l.view = v /\ ~l.silent
    BY <2>2 DEF Fetch
  <2> QED
    BY <2>1, <2>2
<1> QED
  BY <1>1, <1>2

LEMMA ViewType ==
    ASSUME NEW v \in View
    PROVE  /\ \A f \in Filter, p \in 1 .. LastPage, r \in Rest :
                  [filter |-> f, page |-> p, rest |-> r] \in View
           /\ \A f \in Filter : [v EXCEPT !.filter = f, !.page = 1] \in View
           /\ \A r \in Rest : /\ [v EXCEPT !.rest = r, !.page = 1] \in View
                              /\ [v EXCEPT !.rest = r] \in View
           /\ \A p \in 1 .. LastPage : [v EXCEPT !.page = p] \in View
           /\ [v EXCEPT !.page = 1] \in View
<1>1. 1 \in 1 .. LastPage
  BY PageAssumption
<1> QED
  BY <1>1 DEF View

\* What is known of the lists: at most one view is asked for last, and if nothing
\* is asked for last, the list shown was.
ListInv ==
    activeTab # "terminal" /\ ~stray =>
        /\ \A l \in fetches : l.newest => l.view = view
        /\ (\A l \in fetches : ~l.newest) => (error \/ shown.view = view)

ListGood == ListTyped /\ ListInv /\ SpinnerIsLoading

LEMMA ShowGood ==
    ASSUME ListTyped, NEW v \in View, NEW sent \in SUBSET Fetch, Show(v, sent),
           activeTab' = activeTab
    PROVE  ListGood'
<1>1. Aged(sent) \subseteq Fetch /\ \A k \in Aged(sent) : ~k.newest
  BY AgedType
<1>2. /\ Loads(v) \subseteq Fetch
      /\ \A l \in Loads(v) : l.view = v /\ ~l.silent
      /\ [view |-> v, newest |-> TRUE, silent |-> FALSE] \in Loads(v)
  BY LoadsType
<1>3. fetches' = Aged(sent) \cup Loads(v) /\ view' = v /\ shown' = shown
      /\ loading' = TRUE /\ error' = FALSE /\ stray' = FALSE
  BY DEF Show, Spin
<1>4. ListTyped'
  BY <1>1, <1>2, <1>3 DEF ListTyped
<1>5. [view |-> v, newest |-> TRUE, silent |-> FALSE].newest
  OBVIOUS
<1> QED
  BY <1>1, <1>2, <1>3, <1>4, <1>5 DEF ListGood, ListInv, SpinnerIsLoading

LEMMA ReloadGood ==
    ASSUME ListTyped, NEW v \in View, Reload(v), activeTab' = activeTab
    PROVE  ListGood'
<1>1. Aged(fetches) \subseteq Fetch /\ \A k \in Aged(fetches) : ~k.newest
  BY AgedType DEF ListTyped
<1> DEFINE new == [view |-> v, newest |-> TRUE, silent |-> FALSE]
<1>2. new \in Fetch /\ new.newest /\ ~new.silent /\ new.view = v
  BY FetchType
<1>3. fetches' = Aged(fetches) \cup {new} /\ view' = view /\ shown' = shown
      /\ loading' = TRUE /\ error' = FALSE /\ stray' = (v # view)
  BY DEF Reload, Spin
<1> HIDE DEF new
<1>4. ListTyped'
  BY <1>1, <1>2, <1>3 DEF ListTyped
<1> QED
  BY <1>1, <1>2, <1>3, <1>4 DEF ListGood, ListInv, SpinnerIsLoading

LEMMA SilentGood ==
    ASSUME ListGood, RefreshSilently
    PROVE  ListGood'
<1> USE DEF ListGood
<1>1. Aged(fetches) \subseteq Fetch /\ \A k \in Aged(fetches) : ~k.newest
  BY AgedType DEF ListTyped
<1> DEFINE new == [view |-> view, newest |-> TRUE, silent |-> TRUE]
<1>2. new \in Fetch /\ new.newest /\ new.view = view
  BY FetchType DEF ListTyped
<1>3. fetches' = Aged(fetches) \cup {new} /\ view' = view /\ shown' = shown
      /\ loading' = loading /\ error' = error /\ stray' = stray
      /\ activeTab' = activeTab
  BY DEF RefreshSilently, OnPage
<1> HIDE DEF new
<1>4. ListTyped'
  BY <1>1, <1>2, <1>3 DEF ListTyped
<1>5. ListInv'
  BY <1>1, <1>2, <1>3 DEF ListInv
<1>6. SpinnerIsLoading'
  <2>1. SUFFICES ASSUME loading, activeTab # "terminal"
                 PROVE  \E k \in fetches' : ~k.silent
    BY <1>3 DEF SpinnerIsLoading
  <2>2. PICK l \in fetches : ~l.silent
    BY <2>1 DEF SpinnerIsLoading
  <2>3. [l EXCEPT !.newest = FALSE] \in Aged(fetches)
    BY DEF Aged
  <2>4. ~[l EXCEPT !.newest = FALSE].silent
    BY <2>2 DEF ListTyped, Fetch
  <2> QED
    BY <1>3, <2>3, <2>4
<1> QED
  BY <1>4, <1>5, <1>6

LEMMA AnswerGood ==
    ASSUME ListGood, resident \in [Resident -> Doc],
           NEW l \in fetches, ListAnswers(l)
    PROVE  ListGood'
<1> USE DEF ListGood
<1>1. PICK rows \in PageOf(Rows(l.view), l.view.page) :
          shown' = [view |-> l.view, rows |-> rows]
  BY DEF ListAnswers
<1>2. l \in Fetch /\ l.view \in View /\ l.silent \in BOOLEAN
  BY DEF ListTyped, Fetch
<1>3. rows \subseteq Row
  <2>1. rows \subseteq Rows(l.view)
    BY DEF PageOf
  <2>2. \A u \in Found[l.view.rest] : u \in Resident
    BY <1>2, PageAssumption DEF View
  <2>3. Rows(l.view) \subseteq Row
    BY <2>2 DEF Rows, Row
  <2> QED
    BY <2>1, <2>3
<1>4. shown' \in ShownRecord /\ shown'.view = l.view
  BY <1>1, <1>2, <1>3 DEF ShownRecord
<1>5. fetches' = fetches \ {l} /\ view' = view /\ error' = error
      /\ loading' = (loading /\ l.silent) /\ activeTab' = activeTab
      /\ stray' = (stray \/ (l.view # view /\ \A k \in fetches \ {l} : ~k.newest))
  BY DEF ListAnswers, OnPage
<1>6. ListTyped'
  BY <1>2, <1>4, <1>5 DEF ListTyped
<1>7. ListInv'
  BY <1>4, <1>5 DEF ListInv
<1>8. SpinnerIsLoading'
  BY <1>5 DEF SpinnerIsLoading
<1> QED
  BY <1>6, <1>7, <1>8

LEMMA FailGood ==
    ASSUME ListGood, NEW l \in fetches, ListFails(l)
    PROVE  ListGood'
<1> USE DEF ListGood
<1>1. l \in Fetch /\ l.silent \in BOOLEAN
  BY DEF ListTyped, Fetch
<1>2. fetches' = fetches \ {l} /\ view' = view /\ error' = TRUE /\ shown' = shown
      /\ loading' = (loading /\ l.silent) /\ activeTab' = activeTab /\ stray' = stray
  BY DEF ListFails, OnPage
<1>3. ListTyped'
  BY <1>1, <1>2 DEF ListTyped
<1>4. ListInv'
  BY <1>2 DEF ListInv
<1>5. SpinnerIsLoading'
  BY <1>2 DEF SpinnerIsLoading
<1> QED
  BY <1>3, <1>4, <1>5

-----------------------------------------------------------------------------
\* What a step can do to the list.
LEMMA ListCases ==
    ASSUME PageTyped, AdminNext
    PROVE  \/ UNCHANGED <<activeTab, listVars>>
           \/ RefreshSilently
           \/ \E l \in fetches : ListAnswers(l) \/ ListFails(l)
           \/ activeTab' = activeTab /\ \E v \in View : Reload(v)
           \/ /\ activeTab' = activeTab
              /\ \E v \in View, sent \in SUBSET Fetch : Show(v, sent)
<1> DEFINE Goal == \/ UNCHANGED <<activeTab, listVars>>
                   \/ RefreshSilently
                   \/ \E l \in fetches : ListAnswers(l) \/ ListFails(l)
                   \/ activeTab' = activeTab /\ \E v \in View : Reload(v)
                   \/ /\ activeTab' = activeTab
                      /\ \E v \in View, sent \in SUBSET Fetch : Show(v, sent)
<1>0. fetches \in SUBSET Fetch /\ view \in View
  BY DEF PageTyped, ListTyped
<1>1. ASSUME NEW f \in Filter, SetFilter(f) PROVE Goal
  <2>1. [view EXCEPT !.filter = f, !.page = 1] \in View
    BY <1>0, ViewType
  <2> QED
    BY <1>0, <1>1, <2>1 DEF SetFilter, ViewStep, OnPage
<1>2. ASSUME NEW r \in Rest, Arrange(r) \/ SearchDebounced(r) PROVE Goal
  <2>1. /\ [view EXCEPT !.rest = r, !.page = 1] \in View
        /\ [view EXCEPT !.rest = r] \in View
    BY <1>0, ViewType
  <2> QED
    BY <1>0, <1>2, <2>1 DEF Arrange, SearchDebounced, ViewStep, OnPage
<1>3. ASSUME NEW p \in 1 .. LastPage, GoToPage(p) PROVE Goal
  <2>1. [view EXCEPT !.page = p] \in View
    BY <1>0, ViewType
  <2> QED
    BY <1>0, <1>3, <2>1 DEF GoToPage, ViewStep, OnPage
<1>4. CASE RefreshDevices
  BY <1>0, <1>4 DEF RefreshDevices, ViewStep, OnPage
<1>5. CASE ListStep
  BY <1>1, <1>2, <1>3, <1>4, <1>5 DEF ListStep
<1>6. CASE RowStep
  BY <1>6 DEF RowStep, Approve, Archive, Reactivate, MailOrResetDevice, OpenReject,
     OpenDelete, OpenEdit, CancelReject, EscapeReject, Reject, CloseDelete, Delete,
     OpenApproveAll, CloseApproveAll, ApproveAll, EditForm, CloseEdit, EscapeEdit,
     ConfirmClose, CancelClose, SaveEdit, HandlerStep, DialogStep, OnPage
<1>7. ASSUME NEW h \in handlers, ApproveAnswers(h) PROVE Goal
  <2>1. h.view \in View
    BY DEF PageTyped, RequestsTyped, Handler
  <2>2. activeTab' = activeTab /\ (Reload(h.view) \/ ReloadFirstPage(h.view))
    BY <1>7 DEF ApproveAnswers, Answered, OnPage
  <2>3. [view EXCEPT !.page = 1] \in View
    BY <1>0, ViewType
  <2>4. fetches \cup {[view |-> h.view, newest |-> TRUE, silent |-> FALSE]}
            \in SUBSET Fetch
    BY <1>0, <2>1, FetchType
  <2> QED
    BY <2>1, <2>2, <2>3, <2>4 DEF ReloadFirstPage
<1>8. ASSUME NEW h \in handlers,
             \/ StatusAnswers(h) \/ RejectAnswers(h) \/ DeleteAnswers(h)
             \/ EditAnswers(h)
      PROVE Goal
  <2>1. h.view \in View
    BY DEF PageTyped, RequestsTyped, Handler
  <2> QED
    BY <1>8, <2>1 DEF StatusAnswers, RejectAnswers, DeleteAnswers, EditAnswers,
       Answered, OnPage
<1>9. ASSUME NEW h \in handlers,
             Serve(h) \/ ServeAll(h) \/ HandlerFails(h) \/ RoleFollows(h)
      PROVE Goal
  BY <1>9 DEF Serve, ServeAll, HandlerFails, RoleFollows, OnPage
<1>10. ASSUME NEW u \in Resident, AnotherAdmin(u) PROVE Goal
  BY <1>10 DEF AnotherAdmin, OnPage
<1>11. CASE ServiceStep
  BY <1>7, <1>8, <1>9, <1>10, <1>11 DEF ServiceStep
<1>12. CASE DiagnosticsStep
  BY <1>12 DEF DiagnosticsStep, OpenDiagnostics, CloseDiagnostics,
     DiagnosticsArrive, DiagnosticsFail, DiagnosisStep, OnPage
<1>13. CASE TerminalTab
  BY <1>13 DEF TerminalTab, pageVars
<1> QED
  BY <1>5, <1>6, <1>11, <1>12, <1>13 DEF AdminNext

LEMMA ListGoodStep ==
    PageTyped /\ ListInv /\ SpinnerIsLoading /\ [AdminNext]_adminVars => ListGood'
<1> SUFFICES ASSUME PageTyped, ListInv, SpinnerIsLoading, [AdminNext]_adminVars
             PROVE  ListGood'
  OBVIOUS
<1>1. ListGood /\ resident \in [Resident -> Doc]
  BY DEF ListGood, PageTyped, RequestsTyped
<1>2. CASE UNCHANGED <<activeTab, listVars>>
  BY <1>1, <1>2 DEF ListGood, ListTyped, ListInv, SpinnerIsLoading, listVars
<1>3. CASE UNCHANGED adminVars
  BY <1>2, <1>3 DEF adminVars, pageVars
<1>4. CASE AdminNext
  BY <1>1, <1>2, <1>4, ListCases, SilentGood, AnswerGood, FailGood, ReloadGood,
     ShowGood DEF ListGood
<1> QED
  BY <1>3, <1>4

-----------------------------------------------------------------------------
(* The rest of the types *)

LEMMA DiagnosisTypeStep ==
    PageTyped /\ [AdminNext]_adminVars => DiagnosisTyped' /\ (DiagnosticsFit => DiagnosticsFit')
<1> SUFFICES ASSUME PageTyped, [AdminNext]_adminVars
             PROVE  DiagnosisTyped' /\ (DiagnosticsFit => DiagnosticsFit')
  OBVIOUS
<1> USE DEF PageTyped, DiagnosisTyped, DiagnosisRecord, DiagnosticsFit
<1>1. ASSUME NEW d \in Device, OpenDiagnostics(d)
      PROVE  DiagnosisTyped' /\ (DiagnosticsFit => DiagnosticsFit')
  BY <1>1 DEF OpenDiagnostics
<1>2. CASE CloseDiagnostics
  BY <1>2 DEF CloseDiagnostics
<1>3. ASSUME NEW d \in Device, DiagnosticsArrive(d)
      PROVE  DiagnosisTyped' /\ (DiagnosticsFit => DiagnosticsFit')
  BY <1>3 DEF DiagnosticsArrive
<1>4. ASSUME NEW d \in Device, DiagnosticsFail(d)
      PROVE  DiagnosisTyped' /\ (DiagnosticsFit => DiagnosticsFit')
  BY <1>4 DEF DiagnosticsFail
<1>5. CASE DiagnosticsStep
  BY <1>1, <1>2, <1>3, <1>4, <1>5 DEF DiagnosticsStep
<1>6. CASE UNCHANGED diagnosisVars
  BY <1>6 DEF diagnosisVars
<1>7. CASE ListStep
  BY <1>6, <1>7 DEF ListStep, ListAnswers, ListFails, SetFilter, Arrange,
     SearchDebounced, GoToPage, RefreshSilently, RefreshDevices, ViewStep
<1>8. CASE RowStep
  BY <1>6, <1>8 DEF RowStep, Approve, Archive, Reactivate, MailOrResetDevice,
     OpenReject, OpenDelete, OpenEdit, CancelReject, EscapeReject, Reject,
     CloseDelete, Delete, OpenApproveAll, CloseApproveAll, ApproveAll, EditForm,
     CloseEdit, EscapeEdit, ConfirmClose, CancelClose, SaveEdit, HandlerStep,
     DialogStep
<1>9. CASE ServiceStep
  BY <1>6, <1>9 DEF ServiceStep, Serve, ServeAll, HandlerFails, ApproveAnswers,
     StatusAnswers, RejectAnswers, DeleteAnswers, RoleFollows, EditAnswers,
     AnotherAdmin, Answered
<1>10. CASE TerminalTab
  BY <1>6, <1>10 DEF TerminalTab, pageVars
<1>11. CASE UNCHANGED adminVars
  BY <1>6, <1>11 DEF adminVars, pageVars
<1> QED
  BY <1>5, <1>7, <1>8, <1>9, <1>10, <1>11 DEF AdminNext

\* A row names a user, and what the modals are opened with is a choice of it.
LEMMA ChosenType ==
    ASSUME PageTyped, NEW r \in shown.rows
    PROVE  /\ r.id \in Resident /\ r.doc.of \in Resident \cup {Nobody}
           /\ [id |-> r.id, of |-> r.doc.of] \in Chosen
           /\ [of |-> r.doc.of, changed |-> FALSE] \in FormRecord
<1>1. r \in Row
  BY DEF PageTyped, ListTyped, ShownRecord
<1> QED
  BY <1>1 DEF Row, Doc, Chosen, FormRecord

LEMMA DialogTypeStep == PageTyped /\ [AdminNext]_adminVars => DialogTyped'
<1> SUFFICES ASSUME PageTyped, [AdminNext]_adminVars
             PROVE  DialogTyped'
  OBVIOUS
<1> USE DEF PageTyped, DialogTyped
<1>0. NoForm \in FormRecord
  BY DEF NoForm, FormRecord
<1>1. CASE UNCHANGED dialogVars
  BY <1>1 DEF dialogVars
<1>2. ASSUME NEW r \in shown.rows,
             \/ OpenReject(r) \/ OpenDelete(r) \/ OpenEdit(r)
      PROVE  DialogTyped'
  BY <1>2, ChosenType DEF OpenReject, OpenDelete, OpenEdit, Modal
<1>3. ASSUME NEW r \in shown.rows,
             \/ Approve(r) \/ Archive(r) \/ Reactivate(r) \/ MailOrResetDevice(r)
      PROVE  DialogTyped'
  BY <1>1, <1>3 DEF Approve, Archive, Reactivate, MailOrResetDevice, HandlerStep
<1>4. CASE EditForm
  <2>1. [form EXCEPT !.changed = ~@] \in FormRecord
    BY DEF FormRecord
  <2> QED
    BY <1>4, <2>1 DEF EditForm
<1>5. CASE \/ CancelReject \/ EscapeReject \/ CloseDelete \/ OpenApproveAll
           \/ CloseApproveAll \/ ApproveAll \/ CloseEdit \/ EscapeEdit
           \/ ConfirmClose \/ CancelClose
  BY <1>0, <1>5 DEF CancelReject, EscapeReject, CloseDelete, OpenApproveAll,
     CloseApproveAll, ApproveAll, CloseEdit, EscapeEdit, ConfirmClose, CancelClose,
     AskBeforeLeaving, LeaveEdit, Modal
<1>6. CASE Reject \/ Delete \/ SaveEdit
  BY <1>1, <1>6 DEF Reject, Delete, SaveEdit, HandlerStep
<1>7. CASE RowStep
  BY <1>2, <1>3, <1>4, <1>5, <1>6, <1>7 DEF RowStep
<1>8. ASSUME NEW h \in handlers,
             RejectAnswers(h) \/ DeleteAnswers(h) \/ EditAnswers(h)
      PROVE  DialogTyped'
  BY <1>0, <1>8 DEF RejectAnswers, DeleteAnswers, EditAnswers
<1>9. ASSUME NEW h \in handlers,
             \/ Serve(h) \/ ServeAll(h) \/ HandlerFails(h) \/ ApproveAnswers(h)
             \/ StatusAnswers(h) \/ RoleFollows(h)
      PROVE  DialogTyped'
  BY <1>1, <1>9 DEF Serve, ServeAll, HandlerFails, ApproveAnswers, StatusAnswers,
     RoleFollows
<1>10. CASE ServiceStep
  BY <1>1, <1>8, <1>9, <1>10 DEF ServiceStep, AnotherAdmin
<1>11. CASE ListStep
  BY <1>1, <1>11 DEF ListStep, ListAnswers, ListFails, SetFilter, Arrange,
     SearchDebounced, GoToPage, RefreshSilently, RefreshDevices, ViewStep
<1>12. CASE DiagnosticsStep
  BY <1>1, <1>12 DEF DiagnosticsStep, OpenDiagnostics, CloseDiagnostics,
     DiagnosticsArrive, DiagnosticsFail, DiagnosisStep
<1>13. CASE TerminalTab
  BY <1>1, <1>13 DEF TerminalTab, pageVars
<1>14. CASE UNCHANGED adminVars
  BY <1>1, <1>14 DEF adminVars, pageVars
<1> QED
  BY <1>7, <1>10, <1>11, <1>12, <1>13, <1>14 DEF AdminNext

LEMMA BeginType ==
    ASSUME PageTyped, NEW kind \in HandlerKind, NEW who \in Resident \cup {Nobody},
           NEW of \in Resident \cup {Nobody}, Begin(kind, who, of)
    PROVE  handlers' \subseteq Handler
<1>1. [kind |-> kind, user |-> who, of |-> of, view |-> view, phase |-> "sent"]
          \in Handler
  BY DEF PageTyped, ListTyped, Handler
<1> QED
  BY <1>1 DEF Begin, PageTyped, RequestsTyped

LEMMA ClickType ==
    ASSUME PageTyped, Click
    PROVE  clicks' \in 0 .. MaxClicks
BY PageAssumption DEF PageTyped, RequestsTyped, Click

\* What a served request leaves behind is a document.
LEMMA WantedType ==
    ASSUME NEW h \in Handler, NEW doc \in Doc, NEW new \in Wanted(h, doc)
    PROVE  new \in Doc
<1>1. [doc EXCEPT !.status = "approved"] \in Doc
  BY DEF Doc, Status
<1>2. [doc EXCEPT !.status = "archived"] \in Doc
  BY DEF Doc, Status
<1>3. [doc EXCEPT !.status = "rejected"] \in Doc
  BY DEF Doc, Status
<1>4. [doc EXCEPT !.status = "deleted"] \in Doc
  BY DEF Doc
<1>5. \A s \in Status : [status |-> s, of |-> h.of] \in Doc
  BY DEF Doc, Handler
<1> QED
  BY <1>1, <1>2, <1>3, <1>4, <1>5 DEF Wanted

LEMMA RequestsTypeStep == PageTyped /\ [AdminNext]_adminVars => RequestsTyped'
<1> SUFFICES ASSUME PageTyped, [AdminNext]_adminVars
             PROVE  RequestsTyped'
  OBVIOUS
<1>0. /\ resident \in [Resident -> Doc] /\ handlers \subseteq Handler
      /\ clicks \in 0 .. MaxClicks
  BY DEF PageTyped, RequestsTyped
<1>1. CASE UNCHANGED <<resident, handlers, clicks>>
  BY <1>0, <1>1 DEF RequestsTyped
<1>2. ASSUME UNCHANGED <<resident, handlers>>, Click
      PROVE  RequestsTyped'
  BY <1>0, <1>2, ClickType DEF RequestsTyped
<1>3. ASSUME NEW kind \in HandlerKind, NEW who \in Resident \cup {Nobody},
             NEW of \in Resident \cup {Nobody}, Begin(kind, who, of),
             UNCHANGED resident, Click
      PROVE  RequestsTyped'
  BY <1>0, <1>3, ClickType, BeginType DEF RequestsTyped
<1>4. ASSUME NEW r \in shown.rows,
             \/ Approve(r) \/ Archive(r) \/ Reactivate(r) \/ MailOrResetDevice(r)
      PROVE  RequestsTyped'
  <2>1. r.id \in Resident
    BY <1>4, ChosenType
  <2>2. {"approve", "archive", "reactivate", "other"} \subseteq HandlerKind
    BY DEF HandlerKind
  <2>3. /\ resident' = resident /\ Click
        /\ \E kind \in {"approve", "archive", "reactivate", "other"} :
              Begin(kind, r.id, Nobody)
    BY <1>4 DEF Approve, Archive, Reactivate, MailOrResetDevice, HandlerStep
  <2> QED
    BY <1>3, <2>1, <2>2, <2>3
<1>5. ASSUME NEW r \in shown.rows,
             \/ OpenReject(r) \/ OpenDelete(r) \/ OpenEdit(r)
      PROVE  RequestsTyped'
  BY <1>1, <1>5 DEF OpenReject, OpenDelete, OpenEdit, DialogStep
<1>6. CASE Reject \/ SaveEdit
  <2>1. selected \in Chosen /\ form.of \in Resident \cup {Nobody}
    BY <1>6 DEF Reject, SaveEdit, Rejecting, Editing, PageTyped, DialogTyped,
       FormRecord
  <2>2. selected.id \in Resident
    BY <2>1 DEF Chosen
  <2>3. {"reject", "edit"} \subseteq HandlerKind
    BY DEF HandlerKind
  <2> QED
    BY <1>3, <1>6, <2>1, <2>2, <2>3 DEF Reject, SaveEdit, HandlerStep
<1>7. CASE Delete
  <2>1. toDelete \in Resident \cup {Nobody} /\ "delete" \in HandlerKind
    BY DEF PageTyped, DialogTyped, HandlerKind
  <2> QED
    BY <1>3, <1>7, <2>1 DEF Delete, HandlerStep
<1>8. CASE ApproveAll
  <2>1. "all" \in HandlerKind
    BY DEF HandlerKind
  <2> QED
    BY <1>3, <1>8, <2>1 DEF ApproveAll
<1>9. CASE RowStep
  BY <1>1, <1>4, <1>5, <1>6, <1>7, <1>8, <1>9 DEF RowStep, CancelReject,
     EscapeReject, CloseDelete, OpenApproveAll, CloseApproveAll, EditForm, CloseEdit,
     EscapeEdit, ConfirmClose, CancelClose, DialogStep
<1>10. ASSUME NEW h \in handlers, Serve(h) PROVE RequestsTyped'
  <2>1. h \in Handler /\ [h EXCEPT !.phase = "served"] \in Handler
    BY <1>0 DEF Handler
  <2>2. PICK doc \in Wanted(h, resident[h.user]) :
            resident' = [resident EXCEPT ![h.user] = doc]
    BY <1>10 DEF Serve
  <2>3. h.user \in Resident => doc \in Doc
    BY <1>0, <2>1, <2>2, WantedType
  <2>4. resident' \in [Resident -> Doc]
    BY <1>0, <2>2, <2>3
  <2> QED
    BY <1>0, <1>10, <2>1, <2>4 DEF Serve, RequestsTyped
<1>11. ASSUME NEW h \in handlers, ServeAll(h) PROVE RequestsTyped'
  <2>1. h \in Handler /\ [h EXCEPT !.phase = "served"] \in Handler
    BY <1>0 DEF Handler
  <2>2. \A u \in Resident : [resident[u] EXCEPT !.status = "approved"] \in Doc
    BY <1>0 DEF Doc, Status
  <2>3. resident' \in [Resident -> Doc]
    BY <1>0, <1>11, <2>2 DEF ServeAll
  <2> QED
    BY <1>0, <1>11, <2>1, <2>3 DEF ServeAll, RequestsTyped
<1>12. ASSUME NEW h \in handlers, RoleFollows(h) PROVE RequestsTyped'
  <2>1. [h EXCEPT !.kind = "role", !.phase = "sent"] \in Handler
    BY <1>0 DEF Handler, HandlerKind
  <2> QED
    BY <1>0, <1>12, <2>1 DEF RoleFollows, RequestsTyped
<1>13. ASSUME NEW h \in handlers,
              \/ HandlerFails(h) \/ ApproveAnswers(h) \/ StatusAnswers(h)
              \/ RejectAnswers(h) \/ DeleteAnswers(h) \/ EditAnswers(h)
       PROVE  RequestsTyped'
  BY <1>0, <1>13 DEF HandlerFails, ApproveAnswers, StatusAnswers, RejectAnswers,
     DeleteAnswers, EditAnswers, Answered, RequestsTyped
<1>14. ASSUME NEW u \in Resident, AnotherAdmin(u) PROVE RequestsTyped'
  <2>1. \A s \in Status \cup {"deleted"} : [resident[u] EXCEPT !.status = s] \in Doc
    BY <1>0 DEF Doc
  <2>2. PICK s \in (Status \cup {"deleted"}) \ {resident[u].status} :
            resident' = [resident EXCEPT ![u].status = s]
    BY <1>14 DEF AnotherAdmin
  <2>3. resident' \in [Resident -> Doc]
    BY <1>0, <2>1, <2>2
  <2> QED
    BY <1>0, <1>14, <2>3, ClickType DEF AnotherAdmin, RequestsTyped
<1>15. CASE ServiceStep
  BY <1>10, <1>11, <1>12, <1>13, <1>14, <1>15 DEF ServiceStep
<1>16. CASE ListStep
  BY <1>1, <1>2, <1>16 DEF ListStep, ListAnswers, ListFails, SetFilter, Arrange,
     SearchDebounced, GoToPage, RefreshSilently, RefreshDevices, ViewStep
<1>17. CASE DiagnosticsStep
  BY <1>1, <1>2, <1>17 DEF DiagnosticsStep, OpenDiagnostics, CloseDiagnostics,
     DiagnosticsArrive, DiagnosticsFail, DiagnosisStep
<1>18. CASE TerminalTab
  BY <1>1, <1>18 DEF TerminalTab, pageVars
<1>19. CASE UNCHANGED adminVars
  BY <1>1, <1>19 DEF adminVars, pageVars
<1> QED
  BY <1>9, <1>15, <1>16, <1>17, <1>18, <1>19 DEF AdminNext

-----------------------------------------------------------------------------
LEMMA PageTypeInit == AdminInit => PageTyped /\ ListInv /\ SpinnerIsLoading
                                     /\ DiagnosticsFit
<1> SUFFICES ASSUME AdminInit
             PROVE  PageTyped /\ ListInv /\ SpinnerIsLoading /\ DiagnosticsFit
  OBVIOUS
<1>1. view \in View
  <2>1. 1 \in 1 .. LastPage
    BY PageAssumption
  <2> QED
    BY <2>1, PageAssumption DEF AdminInit, View
<1>2. /\ Loads(view) \subseteq Fetch
      /\ \A l \in Loads(view) : l.view = view /\ ~l.silent
      /\ [view |-> view, newest |-> TRUE, silent |-> FALSE] \in Loads(view)
  BY <1>1, LoadsType
<1>3. shown \in ShownRecord
  BY DEF AdminInit, ShownRecord
<1>4. ListTyped
  BY <1>1, <1>2, <1>3 DEF AdminInit, ListTyped
<1>5. ListInv /\ SpinnerIsLoading
  <2>1. [view |-> view, newest |-> TRUE, silent |-> FALSE].newest
    OBVIOUS
  <2> QED
    BY <1>2, <2>1 DEF AdminInit, ListInv, SpinnerIsLoading
<1>6. DialogTyped
  BY DEF AdminInit, DialogTyped, FormRecord, NoForm
<1>7. RequestsTyped
  <2>1. \A u \in Resident : [status |-> "pending", of |-> u] \in Doc
    BY DEF Doc, Status
  <2> QED
    BY <2>1, PageAssumption DEF AdminInit, RequestsTyped
<1>8. DiagnosisTyped /\ DiagnosticsFit
  BY DEF AdminInit, DiagnosisTyped, DiagnosisRecord, DiagnosticsFit
<1> QED
  BY <1>4, <1>5, <1>6, <1>7, <1>8 DEF AdminInit, PageTyped

LEMMA TabStep == [AdminNext]_adminVars => activeTab' = activeTab
<1> USE DEF OnPage
<1>1. CASE ListStep
  BY <1>1 DEF ListStep, ListAnswers, ListFails, SetFilter, Arrange,
     SearchDebounced, GoToPage, RefreshSilently, RefreshDevices, ViewStep
<1>2. CASE RowStep
  BY <1>2 DEF RowStep, Approve, Archive, Reactivate, MailOrResetDevice,
     OpenReject, OpenDelete, OpenEdit, CancelReject, EscapeReject, Reject,
     CloseDelete, Delete, OpenApproveAll, CloseApproveAll, ApproveAll, EditForm,
     CloseEdit, EscapeEdit, ConfirmClose, CancelClose, SaveEdit, HandlerStep,
     DialogStep
<1>3. CASE ServiceStep
  BY <1>3 DEF ServiceStep, Serve, ServeAll, HandlerFails, ApproveAnswers,
     StatusAnswers, RejectAnswers, DeleteAnswers, RoleFollows, EditAnswers,
     AnotherAdmin, Answered
<1>4. CASE DiagnosticsStep
  BY <1>4 DEF DiagnosticsStep, OpenDiagnostics, CloseDiagnostics,
     DiagnosticsArrive, DiagnosticsFail, DiagnosisStep
<1>5. CASE TerminalTab
  BY <1>5 DEF TerminalTab
<1>6. CASE UNCHANGED adminVars
  BY <1>6 DEF adminVars
<1> QED
  BY <1>1, <1>2, <1>3, <1>4, <1>5, <1>6 DEF AdminNext

PageInv == PageTyped /\ ListInv /\ SpinnerIsLoading /\ DiagnosticsFit

LEMMA PageInvStep == PageInv /\ [AdminNext]_adminVars => PageInv'
BY ListGoodStep, DiagnosisTypeStep, DialogTypeStep, RequestsTypeStep, TabStep
   DEF PageInv, PageTyped, ListGood

LEMMA PageCorrect == AdminSpec => []PageInv
<1>1. AdminInit => PageInv
  BY PageTypeInit DEF PageInv
<1> QED
  BY <1>1, PageInvStep, PTL DEF AdminSpec

\* The variables of the admin component and the requests it has sent hold what
\* PageTypeOK says, in every tab and for every set of users, devices, filters and
\* searches: so no handler asks for a page that is not there.
THEOREM PageTypeCorrect == AdminSpec => []PageTypeOK
<1>1. PageInv => PageTypeOK
  BY PageTypedDef DEF PageInv
<1> QED
  BY <1>1, PageCorrect, PTL

\* A list at rest answers the filter, page and search above it, unless a load of
\* another view was sent or answered last (loadUsers, loadLogs and the handlers
\* that reload); and the diagnostics modal shows the device of its title.
THEOREM ShownCorrect == AdminSpec => []ShownIsAsked
<1>1. PageInv => ShownIsAsked
  BY DEF PageInv, ListInv, ShownIsAsked, ListIsCurrent
<1> QED
  BY <1>1, PageCorrect, PTL

\* A list that spins has a load under way that is not silent: finally in
\* loadUsers, loadLogs and loadDeviceStatus ends the spinner on every path.
THEOREM SpinnerCorrect == AdminSpec => []SpinnerIsLoading
<1>1. PageInv => SpinnerIsLoading
  BY DEF PageInv
<1> QED
  BY <1>1, PageCorrect, PTL

-----------------------------------------------------------------------------
(* Edits reach their user *)

\* Until a rejection is answered under an open edit modal: documents and rows are
\* their users' own; the edit modal is open for somebody, and with his form; and
\* what is on its way is the form of the user it is for.
RowsOwn ==
    /\ \A u \in Resident : resident[u].of = u
    /\ \A r \in shown.rows : r.doc.of = r.id
FormOwn ==
    /\ selected # Nobody => selected.of = selected.id
    /\ "edit" \in modal => selected # Nobody /\ form.of = selected.id
HandlersOwn == \A h \in handlers : h.kind = "edit" => h.of = h.user

EditInv == ~crossed => RowsOwn /\ FormOwn /\ HandlersOwn

LEMMA CrossedStep ==
    PageTyped /\ [AdminNext]_adminVars => (crossed => crossed')
<1> SUFFICES ASSUME PageTyped, [AdminNext]_adminVars, crossed
             PROVE  crossed'
  OBVIOUS
<1>1. CASE ListStep
  BY <1>1 DEF ListStep, ListAnswers, ListFails, SetFilter, Arrange,
     SearchDebounced, GoToPage, RefreshSilently, RefreshDevices, ViewStep, dialogVars
<1>2. CASE RowStep
  BY <1>2 DEF RowStep, Approve, Archive, Reactivate, MailOrResetDevice,
     OpenReject, OpenDelete, OpenEdit, CancelReject, EscapeReject, Reject,
     CloseDelete, Delete, OpenApproveAll, CloseApproveAll, ApproveAll, EditForm,
     CloseEdit, EscapeEdit, ConfirmClose, CancelClose, SaveEdit, HandlerStep,
     dialogVars
<1>3. CASE ServiceStep
  BY <1>3 DEF ServiceStep, Serve, ServeAll, HandlerFails, ApproveAnswers,
     StatusAnswers, RejectAnswers, DeleteAnswers, RoleFollows, EditAnswers,
     AnotherAdmin, dialogVars
<1>4. CASE DiagnosticsStep
  BY <1>4 DEF DiagnosticsStep, OpenDiagnostics, CloseDiagnostics,
     DiagnosticsArrive, DiagnosticsFail, DiagnosisStep, dialogVars
<1>5. CASE TerminalTab
  BY <1>5 DEF TerminalTab, pageVars, dialogVars
<1>6. CASE UNCHANGED adminVars
  BY <1>6 DEF adminVars, pageVars, dialogVars
<1> QED
  BY <1>1, <1>2, <1>3, <1>4, <1>5, <1>6 DEF AdminNext

LEMMA RowsOwnStep ==
    PageTyped /\ RowsOwn /\ HandlersOwn /\ [AdminNext]_adminVars => RowsOwn'
<1> SUFFICES ASSUME PageTyped, RowsOwn, HandlersOwn, [AdminNext]_adminVars
             PROVE  RowsOwn'
  OBVIOUS
<1>0. /\ resident \in [Resident -> Doc] /\ handlers \subseteq Handler
      /\ fetches \subseteq Fetch
  BY DEF PageTyped, RequestsTyped, ListTyped
<1>1. ASSUME UNCHANGED <<resident, shown>> PROVE RowsOwn'
  BY <1>1 DEF RowsOwn
<1>2. ASSUME NEW l \in fetches, ListAnswers(l) PROVE RowsOwn'
  <2>1. PICK rows \in PageOf(Rows(l.view), l.view.page) :
            shown' = [view |-> l.view, rows |-> rows]
    BY <1>2 DEF ListAnswers
  <2>2. rows \subseteq Rows(l.view) /\ shown'.rows = rows
    BY <2>1 DEF PageOf
  <2>3. Found[l.view.rest] \subseteq Resident
    BY <1>0, PageAssumption DEF Fetch, View
  <2>4. \A r \in Rows(l.view) : r.doc.of = r.id
    BY <2>3 DEF Rows, RowsOwn
  <2> QED
    BY <1>2, <2>2, <2>4 DEF ListAnswers, RowsOwn
<1>3. CASE ListStep
  BY <1>1, <1>2, <1>3 DEF ListStep, ListFails, SetFilter, Arrange, SearchDebounced,
     GoToPage, RefreshSilently, RefreshDevices, ViewStep, Show, Reload
<1>4. CASE RowStep
  BY <1>1, <1>4 DEF RowStep, Approve, Archive, Reactivate, MailOrResetDevice,
     OpenReject, OpenDelete, OpenEdit, CancelReject, EscapeReject, Reject,
     CloseDelete, Delete, OpenApproveAll, CloseApproveAll, ApproveAll, EditForm,
     CloseEdit, EscapeEdit, ConfirmClose, CancelClose, SaveEdit, HandlerStep,
     DialogStep, listVars
<1>5. ASSUME NEW h \in handlers, Serve(h) PROVE RowsOwn'
  <2>1. PICK doc \in Wanted(h, resident[h.user]) :
            resident' = [resident EXCEPT ![h.user] = doc]
    BY <1>5 DEF Serve
  <2>2. h.user \in Resident => doc.of = h.user
    BY <1>0, <2>1 DEF Wanted, RowsOwn, HandlersOwn, Doc
  <2>3. \A u \in Resident : resident'[u].of = u
    BY <1>0, <2>1, <2>2 DEF RowsOwn
  <2> QED
    BY <1>5, <2>3 DEF Serve, RowsOwn, listVars
<1>6. ASSUME NEW h \in handlers, ServeAll(h) PROVE RowsOwn'
  <2>1. \A u \in Resident : resident'[u].of = resident[u].of
    BY <1>0, <1>6 DEF ServeAll, Doc
  <2> QED
    BY <1>6, <2>1 DEF ServeAll, RowsOwn, listVars
<1>7. ASSUME NEW w \in Resident, AnotherAdmin(w) PROVE RowsOwn'
  <2>1. \A u \in Resident : resident'[u].of = resident[u].of
    BY <1>0, <1>7 DEF AnotherAdmin, Doc
  <2> QED
    BY <1>7, <2>1 DEF AnotherAdmin, RowsOwn, listVars
<1>8. ASSUME NEW h \in handlers,
             \/ HandlerFails(h) \/ ApproveAnswers(h) \/ StatusAnswers(h)
             \/ RejectAnswers(h) \/ DeleteAnswers(h) \/ RoleFollows(h)
             \/ EditAnswers(h)
      PROVE  RowsOwn'
  BY <1>1, <1>8 DEF HandlerFails, ApproveAnswers, StatusAnswers, RejectAnswers,
     DeleteAnswers, RoleFollows, EditAnswers, Answered, Reload, ReloadFirstPage, Show,
     listVars
<1>9. CASE ServiceStep
  BY <1>5, <1>6, <1>7, <1>8, <1>9 DEF ServiceStep
<1>10. CASE DiagnosticsStep
  BY <1>1, <1>10 DEF DiagnosticsStep, OpenDiagnostics, CloseDiagnostics,
     DiagnosticsArrive, DiagnosticsFail, DiagnosisStep, listVars
<1>11. CASE TerminalTab
  BY <1>1, <1>11 DEF TerminalTab, pageVars, listVars
<1>12. CASE UNCHANGED adminVars
  BY <1>1, <1>12 DEF adminVars, pageVars, listVars
<1> QED
  BY <1>3, <1>4, <1>9, <1>10, <1>11, <1>12 DEF AdminNext

LEMMA FormOwnStep ==
    PageTyped /\ RowsOwn /\ FormOwn /\ [AdminNext]_adminVars /\ ~crossed'
    => FormOwn'
<1> SUFFICES ASSUME PageTyped, RowsOwn, FormOwn, [AdminNext]_adminVars, ~crossed'
             PROVE  FormOwn'
  OBVIOUS
<1>1. ASSUME UNCHANGED <<selected, modal, form>> PROVE FormOwn'
  BY <1>1 DEF FormOwn
<1>2. ASSUME NEW r \in shown.rows, OpenReject(r) PROVE FormOwn'
  <2>1. "edit" \notin modal
    BY <1>2 DEF OpenReject, OnRow, Listed, Covered, Editing, FormOwn
  <2> QED
    BY <1>2, <2>1 DEF OpenReject, FormOwn, RowsOwn
<1>3. ASSUME NEW r \in shown.rows, OpenEdit(r) PROVE FormOwn'
  <2>1. [id |-> r.id, of |-> r.doc.of] # Nobody
    BY <1>3, ChosenType, NobodyAssumption
  <2> QED
    BY <1>3, <2>1 DEF OpenEdit, FormOwn, RowsOwn
<1>4. ASSUME NEW r \in shown.rows, OpenDelete(r) PROVE FormOwn'
  BY <1>4 DEF OpenDelete, FormOwn
<1>5. ASSUME NEW r \in shown.rows,
             \/ Approve(r) \/ Archive(r) \/ Reactivate(r) \/ MailOrResetDevice(r)
      PROVE  FormOwn'
  BY <1>1, <1>5 DEF Approve, Archive, Reactivate, MailOrResetDevice, HandlerStep,
     dialogVars
<1>6. CASE EditForm
  <2>1. form'.of = form.of
    BY <1>6 DEF EditForm, PageTyped, DialogTyped, FormRecord
  <2> QED
    BY <1>6, <2>1 DEF EditForm, FormOwn
<1>7. CASE CancelReject
  <2>1. "edit" \notin modal
    BY <1>7 DEF CancelReject, Editing, FormOwn
  <2> QED
    BY <1>7, <2>1 DEF CancelReject, FormOwn
<1>8. CASE \/ EscapeReject \/ CloseDelete \/ OpenApproveAll \/ CloseApproveAll
           \/ ApproveAll \/ CancelClose
  BY <1>8 DEF EscapeReject, CloseDelete, OpenApproveAll, CloseApproveAll, ApproveAll,
     CancelClose, FormOwn
<1>9. CASE CloseEdit \/ EscapeEdit \/ ConfirmClose
  BY <1>9 DEF CloseEdit, EscapeEdit, ConfirmClose, AskBeforeLeaving, LeaveEdit,
     FormOwn
<1>10. CASE Reject \/ Delete \/ SaveEdit
  BY <1>1, <1>10 DEF Reject, Delete, SaveEdit, HandlerStep, dialogVars
<1>11. CASE RowStep
  BY <1>2, <1>3, <1>4, <1>5, <1>6, <1>7, <1>8, <1>9, <1>10, <1>11 DEF RowStep
<1>12. ASSUME NEW h \in handlers,
              RejectAnswers(h) \/ DeleteAnswers(h) \/ EditAnswers(h)
       PROVE  FormOwn'
  BY <1>12 DEF RejectAnswers, DeleteAnswers, EditAnswers, FormOwn
<1>13. ASSUME NEW h \in handlers,
              \/ Serve(h) \/ ServeAll(h) \/ HandlerFails(h) \/ ApproveAnswers(h)
              \/ StatusAnswers(h) \/ RoleFollows(h)
       PROVE  FormOwn'
  BY <1>1, <1>13 DEF Serve, ServeAll, HandlerFails, ApproveAnswers, StatusAnswers,
     RoleFollows, dialogVars
<1>14. CASE ServiceStep
  BY <1>1, <1>12, <1>13, <1>14 DEF ServiceStep, AnotherAdmin, dialogVars
<1>15. CASE ListStep
  BY <1>1, <1>15 DEF ListStep, ListAnswers, ListFails, SetFilter, Arrange,
     SearchDebounced, GoToPage, RefreshSilently, RefreshDevices, ViewStep, dialogVars
<1>16. CASE DiagnosticsStep
  BY <1>1, <1>16 DEF DiagnosticsStep, OpenDiagnostics, CloseDiagnostics,
     DiagnosticsArrive, DiagnosticsFail, DiagnosisStep, dialogVars
<1>17. CASE TerminalTab
  BY <1>1, <1>17 DEF TerminalTab, pageVars, dialogVars
<1>18. CASE UNCHANGED adminVars
  BY <1>1, <1>18 DEF adminVars, pageVars, dialogVars
<1> QED
  BY <1>11, <1>14, <1>15, <1>16, <1>17, <1>18 DEF AdminNext

LEMMA HandlersOwnStep ==
    PageTyped /\ FormOwn /\ HandlersOwn /\ [AdminNext]_adminVars => HandlersOwn'
<1> SUFFICES ASSUME PageTyped, FormOwn, HandlersOwn, [AdminNext]_adminVars
             PROVE  HandlersOwn'
  OBVIOUS
<1>0. handlers \subseteq Handler
  BY DEF PageTyped, RequestsTyped
<1>1. ASSUME handlers' \subseteq handlers PROVE HandlersOwn'
  BY <1>1 DEF HandlersOwn
<1>2. ASSUME NEW kind, NEW who, NEW of, Begin(kind, who, of),
             kind = "edit" => of = who
      PROVE  HandlersOwn'
  BY <1>2 DEF Begin, HandlersOwn
<1>3. ASSUME NEW r \in shown.rows,
             \/ Approve(r) \/ Archive(r) \/ Reactivate(r) \/ MailOrResetDevice(r)
      PROVE  HandlersOwn'
  BY <1>2, <1>3 DEF Approve, Archive, Reactivate, MailOrResetDevice
<1>4. ASSUME NEW r \in shown.rows,
             \/ OpenReject(r) \/ OpenDelete(r) \/ OpenEdit(r)
      PROVE  HandlersOwn'
  BY <1>1, <1>4 DEF OpenReject, OpenDelete, OpenEdit, DialogStep
<1>5. CASE Reject \/ Delete \/ ApproveAll
  BY <1>2, <1>5 DEF Reject, Delete, ApproveAll
<1>6. CASE SaveEdit
  BY <1>2, <1>6 DEF SaveEdit, Editing, FormOwn
<1>7. CASE RowStep
  BY <1>1, <1>3, <1>4, <1>5, <1>6, <1>7 DEF RowStep, CancelReject, EscapeReject,
     CloseDelete, OpenApproveAll, CloseApproveAll, EditForm, CloseEdit, EscapeEdit,
     ConfirmClose, CancelClose, DialogStep
<1>8. ASSUME NEW h \in handlers, Serve(h) \/ ServeAll(h) PROVE HandlersOwn'
  <2>1. handlers' = (handlers \ {h}) \cup {[h EXCEPT !.phase = "served"]}
    BY <1>8 DEF Serve, ServeAll
  <2>2. LET g == [h EXCEPT !.phase = "served"]
        IN  g.kind = h.kind /\ g.of = h.of /\ g.user = h.user
    BY <1>0 DEF Handler
  <2> QED
    BY <2>1, <2>2 DEF HandlersOwn
<1>9. ASSUME NEW h \in handlers, RoleFollows(h) PROVE HandlersOwn'
  <2>1. handlers' = (handlers \ {h})
                        \cup {[h EXCEPT !.kind = "role", !.phase = "sent"]}
    BY <1>9 DEF RoleFollows
  <2>2. [h EXCEPT !.kind = "role", !.phase = "sent"].kind = "role"
    BY <1>0 DEF Handler
  <2> QED
    BY <2>1, <2>2 DEF HandlersOwn
<1>10. ASSUME NEW h \in handlers,
              \/ HandlerFails(h) \/ ApproveAnswers(h) \/ StatusAnswers(h)
              \/ RejectAnswers(h) \/ DeleteAnswers(h) \/ EditAnswers(h)
       PROVE  HandlersOwn'
  BY <1>1, <1>10 DEF HandlerFails, ApproveAnswers, StatusAnswers, RejectAnswers,
     DeleteAnswers, EditAnswers, Answered
<1>11. CASE ServiceStep
  BY <1>1, <1>8, <1>9, <1>10, <1>11 DEF ServiceStep, AnotherAdmin
<1>12. CASE ListStep
  BY <1>1, <1>12 DEF ListStep, ListAnswers, ListFails, SetFilter, Arrange,
     SearchDebounced, GoToPage, RefreshSilently, RefreshDevices, ViewStep
<1>13. CASE DiagnosticsStep
  BY <1>1, <1>13 DEF DiagnosticsStep, OpenDiagnostics, CloseDiagnostics,
     DiagnosticsArrive, DiagnosticsFail, DiagnosisStep
<1>14. CASE TerminalTab
  BY <1>1, <1>14 DEF TerminalTab, pageVars
<1>15. CASE UNCHANGED adminVars
  BY <1>1, <1>15 DEF adminVars, pageVars
<1> QED
  BY <1>7, <1>11, <1>12, <1>13, <1>14, <1>15 DEF AdminNext

\* handleEditUser never writes one user's form to another, unless a rejection was
\* answered while the edit modal was open.
THEOREM EditsCorrect == AdminSpec => []EditsReachTheirUser
<1>1. AdminInit => EditInv
  BY DEF AdminInit, EditInv, RowsOwn, FormOwn, HandlersOwn
<1>2. PageInv /\ EditInv /\ [AdminNext]_adminVars => EditInv'
  BY CrossedStep, RowsOwnStep, FormOwnStep, HandlersOwnStep DEF PageInv, EditInv
<1>3. EditInv => EditsReachTheirUser
  BY DEF EditInv, RowsOwn, EditsReachTheirUser
<1> QED
  BY <1>1, <1>2, <1>3, PageCorrect, PTL DEF AdminSpec

\* AdminPage implements Terminals: in the tab of the terminal the component of
\* Terminal.tsx runs, and every other step of the page leaves it alone; so what is
\* proved of Terminals holds in the page.
THEOREM PageRunsTerminals == AdminSpec => TerminalSpec
<1>1. AdminInit => TerminalInit
  BY DEF AdminInit
<1>2. [AdminNext]_adminVars => [TerminalNext]_terminalVars
  <2> USE DEF OnPage
  <2>1. CASE ListStep
    BY <2>1 DEF ListStep, ListAnswers, ListFails, SetFilter, Arrange,
       SearchDebounced, GoToPage, RefreshSilently, RefreshDevices, ViewStep
  <2>2. CASE RowStep
    BY <2>2 DEF RowStep, Approve, Archive, Reactivate, MailOrResetDevice,
       OpenReject, OpenDelete, OpenEdit, CancelReject, EscapeReject, Reject,
       CloseDelete, Delete, OpenApproveAll, CloseApproveAll, ApproveAll, EditForm,
       CloseEdit, EscapeEdit, ConfirmClose, CancelClose, SaveEdit, HandlerStep,
       DialogStep
  <2>3. CASE ServiceStep
    BY <2>3 DEF ServiceStep, Serve, ServeAll, HandlerFails, ApproveAnswers,
       StatusAnswers, RejectAnswers, DeleteAnswers, RoleFollows, EditAnswers,
       AnotherAdmin, Answered
  <2>4. CASE DiagnosticsStep
    BY <2>4 DEF DiagnosticsStep, OpenDiagnostics, CloseDiagnostics,
       DiagnosticsArrive, DiagnosticsFail, DiagnosisStep
  <2>5. CASE TerminalTab
    BY <2>5 DEF TerminalTab
  <2>6. CASE UNCHANGED adminVars
    BY <2>6 DEF adminVars
  <2> QED
    BY <2>1, <2>2, <2>3, <2>4, <2>5, <2>6 DEF AdminNext
<1> QED
  BY <1>1, <1>2, PTL DEF AdminSpec, TerminalSpec
=============================================================================
