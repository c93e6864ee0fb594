--------------------------- MODULE SessionsProofs ---------------------------
(***************************************************************************)
(* Theorems about the sessions of a user, for every set of requests,       *)
(* devices and operations.                                                 *)
(***************************************************************************)
EXTENDS Sessions, TLAPS

\* Calls that can leave the user's fields without a session.
Opens == {"clearAllSessions", "deleteSession", "setFields"}

\* Calls that make the fields and the sessions agree again.
Mends == {"createSession", "getAllSessions", "clearSession",
          "clearActiveDevice", "deleteById"}

\* Calls after which the request may end, or finds out what to do next.
Last == {"credentials", "findSession", "validate", "approvedGuard",
         "logoutUser", "getSessionData", "findUser", "findPending",
         "getAllSessions", "answer", "findByEmail", "findLinks", "sendMail"}

\* A list of calls that mends what it opens.
Proper(calls) ==
    /\ calls \in Seq(Call)
    /\ \A i \in 1 .. Len(calls) :
           /\ calls[i] \in Opens =>
                  \E j \in 1 .. Len(calls) : j > i /\ calls[j] \in Mends
           /\ calls[i] \in Last => i = Len(calls)

Mending(calls) == \E i \in 1 .. Len(calls) : calls[i] \in Mends

-----------------------------------------------------------------------------
(* Lists of calls *)

LEMMA EmptyProper == Proper(<<>>)
  BY DEF Proper

\* What is left of a proper list after its first call.
LEMMA ProperTail ==
    ASSUME NEW s, Proper(s), s # <<>>
    PROVE  /\ Tail(s) \in Seq(Call)
           /\ Proper(Tail(s))
           /\ Head(s) \in Call
           /\ Head(s) \in Last => Tail(s) = <<>>
           /\ Head(s) \in Opens => Mending(Tail(s))
           /\ Mending(s) /\ Head(s) \notin Mends => Mending(Tail(s))
           /\ Head(s) \in Last \ Mends => ~Mending(s)
<1>1. /\ s \in Seq(Call) /\ Len(s) \in Nat \ {0}
      /\ Head(s) = s[1] /\ s[1] \in Call
      /\ Tail(s) \in Seq(Call) /\ Len(Tail(s)) = Len(s) - 1
      /\ \A i \in 1 .. Len(Tail(s)) : Tail(s)[i] = s[i + 1]
  BY DEF Proper
<1>2. ASSUME NEW j \in 1 .. Len(s), j > 1
      PROVE  j - 1 \in 1 .. Len(Tail(s)) /\ Tail(s)[j - 1] = s[j]
  <2> DEFINE n == Len(s)
             m == Len(Tail(s))
  <2>0. n \in Nat /\ m = n - 1 /\ j \in 1 .. n /\ j > 1
    BY <1>1, <1>2
  <2>1. j - 1 \in 1 .. m
    <3> HIDE DEF n, m
    <3>1. QED
      BY <2>0
  <2>2. Tail(s)[j - 1] = s[(j - 1) + 1]
    BY <1>1, <2>1
  <2>3. QED
    BY <2>1, <2>2
<1>3. Proper(Tail(s))
  <2>1. ASSUME NEW i \in 1 .. Len(Tail(s))
        PROVE  /\ Tail(s)[i] \in Opens =>
                      \E j \in 1 .. Len(Tail(s)) : j > i /\ Tail(s)[j] \in Mends
               /\ Tail(s)[i] \in Last => i = Len(Tail(s))
    <3>1. i + 1 \in 1 .. Len(s) /\ Tail(s)[i] = s[i + 1]
      BY <1>1
    <3>2. Tail(s)[i] \in Last => i = Len(Tail(s))
      <4> DEFINE n == Len(s)
                 m == Len(Tail(s))
      <4>1. n \in Nat /\ m = n - 1 /\ i \in 1 .. m
        BY <1>1
      <4>2. Tail(s)[i] \in Last => i + 1 = n
        BY <3>1 DEF Proper
      <4>3. QED
        <5>1. i + 1 = n => i = m
          <6> HIDE DEF n, m
          <6>1. QED
            BY <4>1
        <5>2. QED
          BY <4>2, <5>1
    <3>3. ASSUME Tail(s)[i] \in Opens
          PROVE  \E j \in 1 .. Len(Tail(s)) : j > i /\ Tail(s)[j] \in Mends
      <4>1. PICK j \in 1 .. Len(s) : j > i + 1 /\ s[j] \in Mends
        BY <3>1, <3>3 DEF Proper
      <4>2. j - 1 > i
        BY <4>1
      <4>3. QED
        BY <1>2, <4>1, <4>2
    <3>4. QED
      BY <3>2, <3>3
  <2>2. QED
    BY <1>1, <2>1 DEF Proper
<1>4. Head(s) \in Last => Tail(s) = <<>>
  <2>1. Head(s) \in Last => Len(s) = 1
    <3>1. 1 \in 1 .. Len(s)
      BY <1>1
    <3>2. s[1] \in Last => 1 = Len(s)
      BY <3>1 DEF Proper
    <3>3. QED
      BY <1>1, <3>2
  <2>2. QED
    BY <1>1, <2>1
<1>5. Head(s) \in Opens => Mending(Tail(s))
  <2>1. SUFFICES ASSUME Head(s) \in Opens PROVE Mending(Tail(s))
    OBVIOUS
  <2>2. PICK j \in 1 .. Len(s) : j > 1 /\ s[j] \in Mends
    <3>1. 1 \in 1 .. Len(s) /\ s[1] \in Opens
      BY <1>1, <2>1
    <3>2. QED
      BY <3>1 DEF Proper
  <2>3. QED
    BY <1>2, <2>2 DEF Mending
<1>6. Mending(s) /\ Head(s) \notin Mends => Mending(Tail(s))
  <2>1. SUFFICES ASSUME Mending(s), Head(s) \notin Mends
                 PROVE  Mending(Tail(s))
    OBVIOUS
  <2>2. PICK j \in 1 .. Len(s) : s[j] \in Mends
    BY <2>1 DEF Mending
  <2>3. j > 1
    BY <1>1, <2>1, <2>2
  <2>4. QED
    BY <1>2, <2>2, <2>3 DEF Mending
<1>7. Head(s) \in Last \ Mends => ~Mending(s)
  <2>1. SUFFICES ASSUME Head(s) \in Last \ Mends PROVE ~Mending(s)
    OBVIOUS
  <2>2. Len(s) = 1
    <3>1. 1 \in 1 .. Len(s) /\ s[1] \in Last
      BY <1>1, <2>1
    <3>2. QED
      BY <3>1 DEF Proper
  <2>3. QED
    BY <1>1, <2>1, <2>2 DEF Mending
<1>8. QED
  BY <1>1, <1>3, <1>4, <1>5, <1>6, <1>7

\* The lists of calls that the requests of the module start.
LEMMA ProperLists ==
    /\ Proper(WriteSession)
    /\ Proper(<<"clearAllSessions">> \o WriteSession)
    /\ Proper(<<"approvedGuard">>) /\ Proper(<<"logoutUser">>)
    /\ Proper(<<"getSessionData">>)
    /\ Proper(<<"deleteSession", "getAllSessions">>)
    /\ Proper(<<"setStatus", "clearSession", "clearActiveDevice">>)
    /\ Proper(<<"setLink", "sendMail">>) /\ Proper(<<"applyLink">>)
    /\ Proper(<<"clearSession">>)
    /\ Proper(<<"clearSession", "clearActiveDevice">>)
    /\ \A call \in Call \ Opens : Proper(<<call>>)
<1>1. Proper(WriteSession)
  BY DEF Proper, WriteSession, Call, Opens, Mends, Last
<1>2. Proper(<<"clearAllSessions">> \o WriteSession)
  BY DEF Proper, WriteSession, Call, Opens, Mends, Last
<1>3. Proper(<<"deleteSession", "getAllSessions">>)
  BY DEF Proper, Call, Opens, Mends, Last
<1>4. Proper(<<"setStatus", "clearSession", "clearActiveDevice">>)
  BY DEF Proper, Call, Opens, Mends, Last
<1>5. Proper(<<"clearSession", "clearActiveDevice">>)
  BY DEF Proper, Call, Opens, Mends, Last
<1>6. \A call \in Call \ Opens : Proper(<<call>>)
  BY DEF Proper
<1>7. /\ Proper(<<"approvedGuard">>) /\ Proper(<<"logoutUser">>)
      /\ Proper(<<"getSessionData">>) /\ Proper(<<"clearSession">>)
      /\ Proper(<<"applyLink">>)
  BY <1>6 DEF Call, Opens
<1>8. Proper(<<"setLink", "sendMail">>)
  BY DEF Proper, Call, Opens, Mends, Last
<1>9. QED
  BY <1>1, <1>2, <1>3, <1>4, <1>5, <1>6, <1>7, <1>8

LEMMA AdminCallsProper ==
    ASSUME NEW args
    PROVE  Proper(AdminCalls(args))
<1> DEFINE Other == args.kind \notin {"setRole", "resetPassword", "delete",
                                      "resetDevice"}
<1>1. CASE args.kind = "setRole"
  <2>1. AdminCalls(args) = <<"setRole">>
    BY <1>1 DEF AdminCalls
  <2>2. Proper(<<"setRole">>)
    BY DEF Proper, Call, Opens, Mends, Last
  <2>3. QED
    BY <2>1, <2>2
<1>2. CASE args.kind = "resetPassword"
  <2>1. AdminCalls(args) = <<"setPassword", "clearAllSessions",
                             "clearSession">>
    BY <1>2 DEF AdminCalls
  <2>2. Proper(<<"setPassword", "clearAllSessions", "clearSession">>)
    BY DEF Proper, Call, Opens, Mends, Last
  <2>3. QED
    BY <2>1, <2>2
<1>3. CASE args.kind = "delete"
  <2>1. AdminCalls(args) = <<"clearAllSessions", "deleteById">>
    BY <1>3 DEF AdminCalls
  <2>2. Proper(<<"clearAllSessions", "deleteById">>)
    BY DEF Proper, Call, Opens, Mends, Last
  <2>3. QED
    BY <2>1, <2>2
<1>4. CASE args.kind = "resetDevice" /\ args.device = NoDevice
  <2>1. AdminCalls(args) = <<"clearAllSessions", "clearSession",
                             "clearActiveDevice", "getAllSessions">>
    BY <1>4 DEF AdminCalls
  <2>2. Proper(<<"clearAllSessions", "clearSession", "clearActiveDevice",
                 "getAllSessions">>)
    BY DEF Proper, Call, Opens, Mends, Last
  <2>3. QED
    BY <2>1, <2>2
<1>5. CASE args.kind = "resetDevice" /\ args.device # NoDevice
  <2>1. AdminCalls(args) = <<"deleteSession", "getAllSessions">>
    BY <1>5 DEF AdminCalls
  <2>2. QED
    BY <2>1, ProperLists
<1>6. CASE Other /\ args.to = "approved"
  <2>1. AdminCalls(args) = <<"setStatus">>
    BY <1>6 DEF AdminCalls
  <2>2. Proper(<<"setStatus">>)
    BY DEF Proper, Call, Opens, Mends, Last
  <2>3. QED
    BY <2>1, <2>2
<1>7. CASE Other /\ args.to # "approved"
  <2>1. AdminCalls(args) = <<"clearSession", "setStatus">>
    BY <1>7 DEF AdminCalls
  <2>2. Proper(<<"clearSession", "setStatus">>)
    BY DEF Proper, Call, Opens, Mends, Last
  <2>3. QED
    BY <2>1, <2>2
<1>8. QED
  BY <1>1, <1>2, <1>3, <1>4, <1>5, <1>6, <1>7
-----------------------------------------------------------------------------
(* The inductive invariant *)

Lists == /\ todo \in [Request -> Seq(Call)]
         /\ \A r \in Request : Proper(todo[r])

\* A request with something to do was made, and has handed out nothing yet.
Started == \A r \in Request : todo[r] # <<>> => req[r].kind # "none"
IssuedDone == \A r \in issued \cup mailed : todo[r] = <<>>

DeletedInactive == status = "deleted" => active = NoDevice

\* A user with an active device and no session: somebody is about to mend it.
Mended == active # NoDevice /\ sessions = {} /\ ~failed =>
              \E r \in Request : Mending(todo[r])

IInv == TypeOK /\ Lists /\ Started /\ IssuedDone /\ DeletedInactive /\ Mended

\* A call was made and `calls' were found out (Then).
LEMMA ThenStep ==
    ASSUME NEW r \in Request, NEW call, NEW calls, Lists, At(r, call),
           Then(r, calls), Proper(calls), calls = <<>> \/ call \in Last
    PROVE  /\ Lists'
           /\ todo'[r] = IF calls = <<>> THEN Tail(todo[r]) ELSE calls
           /\ \A q \in Request \ {r} : todo'[q] = todo[q]
<1> DEFINE s == todo[r]
<1>1. s \in Seq(Call) /\ s # <<>> /\ Proper(s) /\ Head(s) = call
  BY DEF Lists, At
<1>2. Tail(s) \in Seq(Call) /\ Proper(Tail(s))
  BY <1>1, ProperTail
<1>3. call \in Last => Tail(s) = <<>>
  BY <1>1, ProperTail
<1>4. calls \in Seq(Call)
  BY DEF Proper
<1>5. calls \o Tail(s) = IF calls = <<>> THEN Tail(s) ELSE calls
  <2>1. ASSUME NEW t \in Seq(Call) PROVE <<>> \o t = t /\ t \o <<>> = t
    OBVIOUS
  <2>2. CASE calls = <<>>
    BY <1>2, <2>1, <2>2
  <2>3. CASE calls # <<>>
    <3>1. Tail(s) = <<>>
      BY <1>3, <2>3
    <3>2. calls \o Tail(s) = calls
      BY <1>4, <2>1, <3>1
    <3>3. QED
      BY <2>3, <3>2
  <2>4. QED
    BY <2>2, <2>3
<1>6. todo' = [todo EXCEPT ![r] = IF calls = <<>> THEN Tail(s) ELSE calls]
  BY <1>5 DEF Then
<1>7. Proper(IF calls = <<>> THEN Tail(s) ELSE calls)
  BY <1>2
<1>8. (IF calls = <<>> THEN Tail(s) ELSE calls) \in Seq(Call)
  BY <1>2, <1>4
<1>9. QED
  BY <1>6, <1>7, <1>8 DEF Lists

LEMMA StopStep ==
    ASSUME NEW r \in Request, Lists, Stop(r)
    PROVE  /\ Lists'
           /\ todo'[r] = <<>>
           /\ \A q \in Request \ {r} : todo'[q] = todo[q]
  BY EmptyProper DEF Lists, Stop

\* The read of a request that does not mend anything: the witness of Mended
\* is another request.
LEMMA ReadKeepsMended ==
    ASSUME NEW r \in Request, Lists, Mended, todo[r] # <<>>,
           Head(todo[r]) \in Last \ Mends,
           UNCHANGED <<active, sessions, failed>>,
           \A q \in Request \ {r} : todo'[q] = todo[q]
    PROVE  Mended'
<1>1. ~Mending(todo[r])
  BY ProperTail DEF Lists
<1>2. QED
  BY <1>1 DEF Mended

\* A call that only shortens the list of its request.
LEMMA CallKeepsMended ==
    ASSUME NEW r \in Request, Lists, Mended, todo[r] # <<>>,
           Head(todo[r]) \notin Mends,
           UNCHANGED <<active, sessions, failed>>,
           todo'[r] = Tail(todo[r]),
           \A q \in Request \ {r} : todo'[q] = todo[q]
    PROVE  Mended'
<1>1. Mending(todo[r]) => Mending(Tail(todo[r]))
  BY ProperTail DEF Lists
<1>2. QED
  BY <1>1 DEF Mended
-----------------------------------------------------------------------------
(* Every step keeps the invariant *)

\* A new request.
LEMMA AskStep ==
    ASSUME NEW r \in Request, IInv, Ask(r)
    PROVE  IInv'
<1>1. PICK args \in Arguments, call \in Call \ Opens :
          args.kind # "none" /\ Begin(r, args, call)
  <2> USE NoDeviceAssumption, NoRequestAssumption DEF IInv, TypeOK
  <2>1. CASE Login(r)
    <3>1. PICK d \in Device :
              Begin(r, [NoArguments EXCEPT !.kind = "login", !.device = d],
                    "credentials")
      BY <2>1 DEF Login
    <3>2. [NoArguments EXCEPT !.kind = "login", !.device = d] \in Arguments
      BY <3>1 DEF Begin, NoArguments, Arguments, Role, Status
    <3>3. QED
      BY <3>1, <3>2 DEF NoArguments, Call, Opens
  <2>2. CASE Refresh(r)
    <3>1. PICK t \in issued :
              Begin(r, [NoArguments EXCEPT !.kind = "refresh", !.token = t,
                                           !.device = req[t].device],
                    "findSession")
      BY <2>2 DEF Refresh
    <3>2. [NoArguments EXCEPT !.kind = "refresh", !.token = t,
                              !.device = req[t].device] \in Arguments
      BY <3>1 DEF Begin, NoArguments, Arguments, Role, Status
    <3>3. QED
      BY <3>1, <3>2 DEF NoArguments, Call, Opens
  <2>3. CASE Logout(r)
    <3>1. PICK t \in issued :
              Begin(r, [NoArguments EXCEPT !.kind = "logout", !.token = t,
                                           !.device = req[t].device],
                    "validate")
      BY <2>3 DEF Logout
    <3>2. [NoArguments EXCEPT !.kind = "logout", !.token = t,
                              !.device = req[t].device] \in Arguments
      BY <3>1 DEF Begin, NoArguments, Arguments, Role, Status
    <3>3. QED
      BY <3>1, <3>2 DEF NoArguments, Call, Opens
  <2>4. CASE Recover(r)
    <3>1. ASSUME NEW t \in mailed
          PROVE  [NoArguments EXCEPT !.kind = "resetByLink", !.token = t] \in Arguments
                 \/ "resetByLink" \notin Operation
      BY <3>1 DEF NoArguments, Arguments, Role, Status
    <3>2. CASE Begin(r, [NoArguments EXCEPT !.kind = "forgotPassword"], "findByEmail")
      BY <3>2 DEF Begin, NoArguments, Arguments, Role, Status, Call, Opens
    <3>3. CASE \E t \in mailed :
                   Begin(r, [NoArguments EXCEPT !.kind = "resetByLink", !.token = t],
                         "findLinks")
      <4>1. PICK t \in mailed :
                Begin(r, [NoArguments EXCEPT !.kind = "resetByLink", !.token = t],
                      "findLinks")
        BY <3>3
      <4>2. [NoArguments EXCEPT !.kind = "resetByLink", !.token = t].kind
                = "resetByLink"
        BY DEF NoArguments
      <4>3. "resetByLink" \in Operation
        BY <4>1, <4>2 DEF Begin
      <4>4. QED
        BY <3>1, <4>1, <4>2, <4>3 DEF Call, Opens
    <3>4. QED
      BY <2>4, <3>2, <3>3 DEF Recover
  <2>5. CASE Administer(r)
    BY <2>5 DEF Administer, Begin, NoArguments, Arguments, Role, Status, Call,
       Opens
  <2>6. QED
    BY <2>1, <2>2, <2>3, <2>4, <2>5 DEF Ask
<1>2. todo[r] = <<>> /\ r \notin issued \cup mailed
  BY <1>1 DEF IInv, TypeOK, Started, Begin
<1>3. Lists' /\ todo'[r] = <<call>>
      /\ \A q \in Request \ {r} : todo'[q] = todo[q]
  <2>1. Proper(<<call>>)
    BY <1>1, ProperLists
  <2>2. QED
    BY <1>1, <2>1 DEF IInv, Lists, Begin, Proper
<1>4. req' \in [Request -> Arguments] /\ req'[r].kind # "none"
      /\ \A q \in Request \ {r} : req'[q] = req[q]
  BY <1>1 DEF IInv, TypeOK, Begin
<1>5. UNCHANGED <<status, role, active, link, sessions, issued, mailed, failed>>
  BY <1>1 DEF Begin, user
<1>6. TypeOK'
  BY <1>3, <1>4, <1>5 DEF IInv, TypeOK, Lists
<1>7. Started'
  BY <1>3, <1>4 DEF IInv, Started
<1>8. IssuedDone'
  BY <1>2, <1>3, <1>5 DEF IInv, IssuedDone, TypeOK
<1>9. DeletedInactive'
  BY <1>5 DEF IInv, DeletedInactive
<1>10. Mended'
  <2>1. ~Mending(<<>>)
    BY DEF Mending
  <2>2. QED
    BY <1>2, <1>3, <1>5, <2>1 DEF IInv, Mended
<1>11. QED
  BY <1>3, <1>6, <1>7, <1>8, <1>9, <1>10 DEF IInv
\* What the steps of a request that is under way have in common.
OwnTypes ==
    /\ status \in Status \cup {"deleted"} /\ role \in Role
    /\ active \in Device \cup {NoDevice} /\ link \in Request \cup {NoRequest}
    /\ sessions \subseteq [device : Device \cup {NoDevice}, sid : Request]
    /\ failed \in BOOLEAN

Own(r) ==
    /\ todo[r] # <<>>
    /\ Lists'
    /\ \A q \in Request \ {r} : todo'[q] = todo[q]
    /\ req' \in [Request -> Arguments]
    /\ \A q \in Request : req'[q].kind = req[q].kind
    /\ issued' \cup mailed' \subseteq issued \cup mailed \cup {r}
    /\ UNCHANGED <<issued, mailed>> \/ todo'[r] = <<>>

LEMMA OwnStep ==
    ASSUME NEW r \in Request, IInv, Own(r), OwnTypes'
    PROVE  TypeOK' /\ Started' /\ IssuedDone'
<1>1. req[r].kind # "none" /\ r \notin issued \cup mailed
  BY DEF IInv, Started, IssuedDone, Own
<1>2. TypeOK'
  <2>1. issued' \cup mailed' \subseteq {q \in Request : req'[q].kind # "none"}
    BY <1>1 DEF IInv, TypeOK, Own
  <2>2. QED
    BY <2>1 DEF TypeOK, OwnTypes, Own, Lists
<1>3. Started'
  BY <1>1 DEF IInv, Started, Own
<1>4. IssuedDone'
  BY <1>1 DEF IInv, IssuedDone, TypeOK, Own
<1>5. QED
  BY <1>2, <1>3, <1>4

\* A request that remembers the role it read.
LEMMA RoleStep ==
    ASSUME NEW r \in Request, TypeOK,
           req' = req \/ req' = [req EXCEPT ![r].role = role]
    PROVE  /\ req' \in [Request -> Arguments]
           /\ \A q \in Request : req'[q].kind = req[q].kind
<1>1. CASE req' = req
  BY <1>1 DEF TypeOK
<1>2. CASE req' = [req EXCEPT ![r].role = role]
  <2>1. req[r] \in Arguments /\ role \in Role /\ req \in [Request -> Arguments]
    BY DEF TypeOK
  <2>2. /\ [req[r] EXCEPT !.role = role] \in Arguments
        /\ [req[r] EXCEPT !.role = role].kind = req[r].kind
    BY <2>1 DEF Arguments
  <2>3. req' = [req EXCEPT ![r] = [req[r] EXCEPT !.role = role]]
    BY <1>2, <2>1
  <2>4. QED
    BY <2>1, <2>2, <2>3
<1>3. QED
  BY <1>1, <1>2

\* The first reads of the requests (CheckCredentials ... FindPending).
LEMMA FirstReadStep ==
    ASSUME NEW r \in Request, IInv,
           \/ CheckCredentials(r) \/ FindSession(r) \/ ValidateToken(r)
           \/ PassApprovedGuard(r) \/ LogoutUser(r) \/ CheckActiveDevice(r)
           \/ FindUser(r) \/ FindPending(r) \/ FindByEmail(r) \/ FindLinks(r)
    PROVE  IInv'
<1>1. PICK call \in Last \ Mends : At(r, call)
  BY DEF CheckCredentials, FindSession, ValidateToken, PassApprovedGuard,
     LogoutUser, CheckActiveDevice, FindUser, FindPending, FindByEmail,
     FindLinks, Last, Mends
<1>2. UNCHANGED <<status, role, active, link, sessions, issued, mailed, failed>>
  BY DEF CheckCredentials, FindSession, ValidateToken, PassApprovedGuard,
     LogoutUser, CheckActiveDevice, FindUser, FindPending, FindByEmail,
     FindLinks, user
<1>3. req' = req \/ req' = [req EXCEPT ![r].role = role]
  BY DEF CheckCredentials, FindSession, ValidateToken, PassApprovedGuard,
     LogoutUser, CheckActiveDevice, FindUser, FindPending, FindByEmail,
     FindLinks
<1>4. Stop(r) \/ \E calls : Proper(calls) /\ Then(r, calls)
  <2>1. CASE CheckCredentials(r)
    BY <2>1, ProperLists DEF CheckCredentials
  <2>2. CASE FindSession(r)
    BY <2>2, ProperLists DEF FindSession
  <2>3. CASE ValidateToken(r)
    BY <2>3, ProperLists DEF ValidateToken
  <2>4. CASE PassApprovedGuard(r)
    BY <2>4, ProperLists DEF PassApprovedGuard
  <2>5. CASE LogoutUser(r)
    BY <2>5, ProperLists DEF LogoutUser
  <2>6. CASE CheckActiveDevice(r)
    BY <2>6, ProperLists DEF CheckActiveDevice
  <2>7. CASE FindUser(r)
    BY <2>7, ProperLists, AdminCallsProper DEF FindUser
  <2>8. CASE FindPending(r)
    BY <2>8, ProperLists DEF FindPending
  <2>9. CASE FindByEmail(r)
    BY <2>9, ProperLists DEF FindByEmail
  <2>10. CASE FindLinks(r)
    BY <2>10, ProperLists DEF FindLinks
  <2>11. QED
    BY <2>1, <2>2, <2>3, <2>4, <2>5, <2>6, <2>7, <2>8, <2>9, <2>10
<1>5. Lists' /\ \A q \in Request \ {r} : todo'[q] = todo[q]
  BY <1>1, <1>4, ThenStep, StopStep DEF IInv
<1>6. todo[r] # <<>> /\ Head(todo[r]) \in Last \ Mends
  BY <1>1 DEF At
<1>7. /\ req' \in [Request -> Arguments]
      /\ \A q \in Request : req'[q].kind = req[q].kind
  BY <1>3, RoleStep DEF IInv
<1>8. TypeOK' /\ Started' /\ IssuedDone'
  <2>1. OwnTypes'
    BY <1>2 DEF IInv, TypeOK, OwnTypes
  <2>2. Own(r)
    BY <1>2, <1>5, <1>6, <1>7 DEF Own
  <2>3. QED
    BY <2>1, <2>2, OwnStep
<1>9. DeletedInactive'
  BY <1>2 DEF IInv, DeletedInactive
<1>10. Mended'
  BY <1>2, <1>5, <1>6, ReadKeepsMended DEF IInv
<1>11. QED
  BY <1>5, <1>8, <1>9, <1>10 DEF IInv
\* The calls that neither mend nor end: the session is cleared, deleted, or the
\* user's fields are written, and the request goes on.
LEMMA OpeningStep ==
    ASSUME NEW r \in Request, IInv,
           ClearAllSessions(r) \/ DeleteSession(r) \/ SetFields(r)
    PROVE  IInv'
<1>1. PICK call \in Opens : At(r, call)
  BY DEF ClearAllSessions, DeleteSession, SetFields, Opens
<1>2. Then(r, <<>>)
  BY DEF ClearAllSessions, DeleteSession, SetFields
<1>3. Lists' /\ todo'[r] = Tail(todo[r])
      /\ \A q \in Request \ {r} : todo'[q] = todo[q]
  BY <1>1, <1>2, ThenStep, EmptyProper DEF IInv
<1>4. Own(r)
  BY <1>1, <1>3 DEF Own, At, ClearAllSessions, DeleteSession, SetFields, IInv,
     TypeOK
<1>5. req[r].device \in Device \cup {NoDevice}
  BY DEF IInv, TypeOK, Arguments
<1>6. OwnTypes' /\ DeletedInactive'
  BY <1>5 DEF OwnTypes, DeletedInactive, IInv, TypeOK, ClearAllSessions,
     DeleteSession, SetFields, user
<1>7. Mended'
  <2>1. Mending(Tail(todo[r]))
    BY <1>1, ProperTail DEF IInv, Lists, At
  <2>2. QED
    BY <1>3, <2>1 DEF Mended
<1>8. QED
  BY <1>3, <1>4, <1>6, <1>7, OwnStep DEF IInv

\* The calls that only shorten the list and leave the sessions alone.
LEMMA PlainStep ==
    ASSUME NEW r \in Request, IInv,
           \/ SetRole(r) \/ SetStatus(r) \/ SetPassword(r)
           \/ SetLink(r) \/ ApplyLink(r)
    PROVE  IInv'
<1>1. PICK call \in {"setRole", "setStatus", "setPassword", "setLink",
                 "applyLink"} : At(r, call)
  BY DEF SetRole, SetStatus, SetPassword, SetLink, ApplyLink
<1>2. \/ Then(r, <<>>)
      \/ Stop(r) /\ status = "deleted" /\ UNCHANGED <<status, active>>
  BY DEF SetRole, SetStatus, SetPassword, SetLink, ApplyLink, user
<1>3. Lists' /\ \A q \in Request \ {r} : todo'[q] = todo[q]
  BY <1>1, <1>2, ThenStep, StopStep, EmptyProper DEF IInv
<1>4. UNCHANGED <<sessions, req, issued, mailed, failed>>
  BY DEF SetRole, SetStatus, SetPassword, SetLink, ApplyLink
<1>5. Own(r)
  BY <1>1, <1>3, <1>4 DEF Own, At, IInv, TypeOK
<1>6. req[r].to \in Status /\ "deleted" \notin Status
  BY DEF IInv, TypeOK, Arguments, Status
<1>7. OwnTypes' /\ DeletedInactive'
  BY <1>4, <1>6 DEF OwnTypes, DeletedInactive, IInv, TypeOK, SetRole, SetStatus,
     SetPassword, SetLink, ApplyLink, user
<1>8. Mended'
  <2>1. CASE active' = NoDevice
    BY <2>1 DEF Mended
  <2>2. CASE active' # NoDevice
    <3>1. active' = active
      BY <2>2 DEF SetRole, SetStatus, SetPassword, SetLink, ApplyLink, user
    <3>2. Then(r, <<>>)
      BY <1>2, <2>2 DEF IInv, DeletedInactive
    <3>3. todo'[r] = Tail(todo[r])
      BY <1>1, <3>2, ThenStep, EmptyProper DEF IInv
    <3>4. todo[r] # <<>> /\ Head(todo[r]) \notin Mends
      BY <1>1 DEF At, Mends
    <3>5. QED
      BY <1>3, <1>4, <3>1, <3>3, <3>4, CallKeepsMended DEF IInv
  <2>3. QED
    BY <2>1, <2>2
<1>9. QED
  BY <1>3, <1>5, <1>7, <1>8, OwnStep DEF IInv

\* The calls that mend: a session is written, or the fields are cleared.
LEMMA MendingStep ==
    ASSUME NEW r \in Request, IInv,
           CreateSession(r) \/ ClearSession(r) \/ DeleteById(r)
    PROVE  IInv'
<1>1. PICK call \in Mends : At(r, call)
  BY DEF CreateSession, ClearSession, DeleteById, Mends
<1>2. Then(r, <<>>)
  BY DEF CreateSession, ClearSession, DeleteById
<1>3. Lists' /\ \A q \in Request \ {r} : todo'[q] = todo[q]
  BY <1>1, <1>2, ThenStep, EmptyProper DEF IInv
<1>4. Own(r)
  BY <1>1, <1>3 DEF Own, At, CreateSession, ClearSession, DeleteById, IInv,
     TypeOK
<1>5. Document(r) \in [device : Device \cup {NoDevice}, sid : Request]
  BY DEF Document, IInv, TypeOK, Arguments
<1>6. OwnTypes' /\ DeletedInactive'
  BY <1>5 DEF OwnTypes, DeletedInactive, IInv, TypeOK, CreateSession,
     ClearSession, DeleteById, user
<1>7. Mended'
  <2>1. active' = NoDevice \/ Document(r) \in sessions'
    BY DEF CreateSession, ClearSession, DeleteById
  <2>2. QED
    BY <2>1 DEF Mended
<1>8. QED
  BY <1>3, <1>4, <1>6, <1>7, OwnStep DEF IInv

\* getAllSessions: when nothing is left the fields are cleared next.
LEMMA GetAllStep ==
    ASSUME NEW r \in Request, IInv, GetAllSessions(r)
    PROVE  IInv'
<1>1. At(r, "getAllSessions") /\ UNCHANGED <<user, sessions, req, issued, mailed, failed>>
  BY DEF GetAllSessions
<1>2. \/ Stop(r) /\ sessions # {}
      \/ Then(r, <<"clearSession">>)
      \/ Then(r, <<"clearSession", "clearActiveDevice">>)
  BY DEF GetAllSessions
<1>3. Lists' /\ \A q \in Request \ {r} : todo'[q] = todo[q]
  BY <1>1, <1>2, ThenStep, StopStep, ProperLists DEF IInv, Last
<1>4. Own(r) /\ OwnTypes' /\ DeletedInactive'
  BY <1>1, <1>3 DEF Own, At, OwnTypes, DeletedInactive, IInv, TypeOK, user
<1>5. Mended'
  <2>1. CASE sessions # {}
    BY <1>1, <2>1 DEF Mended
  <2>2. CASE sessions = {}
    <3>1. PICK calls \in {<<"clearSession">>,
                          <<"clearSession", "clearActiveDevice">>} :
              Then(r, calls)
      BY <1>2, <2>2
    <3>2. Proper(calls) /\ calls # <<>> /\ Mending(calls)
      <4>1. calls[1] = "clearSession" /\ 1 \in 1 .. Len(calls)
        BY <3>1
      <4>2. calls # <<>>
        BY <3>1
      <4>3. Proper(calls)
        BY <3>1, ProperLists
      <4>4. Mending(calls)
        BY <4>1 DEF Mending, Mends
      <4>5. QED
        BY <4>2, <4>3, <4>4
    <3>3. todo'[r] = calls
      BY <1>1, <3>1, <3>2, ThenStep DEF IInv, Last
    <3>4. QED
      BY <3>2, <3>3 DEF Mended
  <2>3. QED
    BY <2>1, <2>2
<1>6. QED
  BY <1>3, <1>4, <1>5, OwnStep DEF IInv

\* The answer is the last thing a login or refresh does, and the mail the last
\* thing a request for a link.
LEMMA AnswerStep ==
    ASSUME NEW r \in Request, IInv, Answer(r) \/ SendMail(r)
    PROVE  IInv'
<1>1. PICK call \in {"answer", "sendMail"} : At(r, call) /\ Then(r, <<>>)
      /\ UNCHANGED <<user, sessions, failed>>
  BY DEF Answer, SendMail
<1>2. todo[r] # <<>> /\ Head(todo[r]) \in Last \ Mends
  BY <1>1 DEF At, Last, Mends
<1>3. Lists' /\ todo'[r] = <<>>
      /\ \A q \in Request \ {r} : todo'[q] = todo[q]
  <2>1. Tail(todo[r]) = <<>>
    BY <1>2, ProperTail DEF IInv, Lists
  <2>2. QED
    BY <1>1, <2>1, ThenStep, EmptyProper DEF IInv
<1>4. /\ req' \in [Request -> Arguments]
      /\ \A q \in Request : req'[q].kind = req[q].kind
  BY RoleStep DEF IInv, Answer, SendMail
<1>5. issued' \cup mailed' \subseteq issued \cup mailed \cup {r}
  BY DEF Answer, SendMail
<1>6. Own(r)
  BY <1>2, <1>3, <1>4, <1>5 DEF Own
<1>7. OwnTypes' /\ DeletedInactive'
  BY <1>1 DEF OwnTypes, DeletedInactive, IInv, TypeOK, user
<1>8. Mended'
  <2>1. UNCHANGED <<active, sessions, failed>>
    BY <1>1 DEF user
  <2>2. QED
    BY <1>2, <1>3, <2>1, ReadKeepsMended DEF IInv
<1>9. QED
  BY <1>3, <1>6, <1>7, <1>8, OwnStep DEF IInv

\* A request that dies is remembered in `failed'.
LEMMA DieStep ==
    ASSUME NEW r \in Request, IInv, Die(r)
    PROVE  IInv'
<1>1. todo[r] # <<>> /\ Stop(r) /\ failed' = TRUE
      /\ UNCHANGED <<user, sessions, req, issued, mailed>>
  BY DEF Die
<1>2. Lists' /\ \A q \in Request \ {r} : todo'[q] = todo[q]
  BY <1>1, StopStep DEF IInv
<1>3. Own(r) /\ OwnTypes' /\ DeletedInactive' /\ Mended'
  BY <1>1, <1>2 DEF Own, OwnTypes, DeletedInactive, Mended, IInv, TypeOK, user
<1>4. QED
  BY <1>2, <1>3, OwnStep DEF IInv

LEMMA ExpiryStep == IInv /\ LinkExpires => IInv'
  BY DEF LinkExpires, IInv, TypeOK, Lists, Started, IssuedDone, DeletedInactive, Mended

LEMMA InvariantStep == IInv /\ [Next]_vars => IInv'
<1> SUFFICES ASSUME IInv, [Next]_vars PROVE IInv'
  OBVIOUS
<1>1. ASSUME NEW r \in Request, Ask(r) \/ Read(r) \/ Write(r) \/ Answer(r) \/ Die(r)
      PROVE  IInv'
  <2>1. CASE Ask(r)
    BY <2>1, AskStep
  <2>2. CASE Read(r)
    BY <2>2, FirstReadStep, GetAllStep DEF Read
  <2>3. CASE Write(r)
    BY <2>3, OpeningStep, PlainStep, MendingStep, AnswerStep DEF Write
  <2>4. CASE Answer(r)
    BY <2>4, AnswerStep
  <2>5. CASE Die(r)
    BY <2>5, DieStep
  <2>6. QED
    BY <1>1, <2>1, <2>2, <2>3, <2>4, <2>5
<1>2. CASE UNCHANGED vars
  BY <1>2 DEF IInv, TypeOK, Lists, Started, IssuedDone, DeletedInactive, Mended,
     vars, user
<1>3. QED
  BY <1>1, <1>2, ExpiryStep DEF Next

LEMMA InitialInvariant == Init => IInv
<1> SUFFICES ASSUME Init PROVE IInv
  OBVIOUS
<1>1. TypeOK
  <2>1. NoArguments \in Arguments
    BY DEF NoArguments, Arguments, Role, Status
  <2>2. <<>> \in Seq(Call)
    OBVIOUS
  <2>3. QED
    BY <2>1, <2>2 DEF Init, TypeOK
<1>2. Lists
  BY EmptyProper DEF Init, Lists
<1>3. QED
  BY <1>1, <1>2 DEF IInv, Init, Started, IssuedDone, DeletedInactive, Mended,
     Status

LEMMA Invariance == Spec => []IInv
  BY InitialInvariant, InvariantStep, PTL DEF Spec

-----------------------------------------------------------------------------
(* Theorems *)

\* Every variable keeps its type, and tokens go to requests that were made.
THEOREM TypeCorrect == Spec => []TypeOK
<1>1. IInv => TypeOK
  BY DEF IInv
<1>2. QED
  BY <1>1, Invariance, PTL

\* Login, refresh, logout and the administrator's requests leave an active device
\* with a session, in whatever order their calls ran.
THEOREM ActiveHasSessionCorrect == Spec => []ActiveHasSession
<1>1. IInv => ActiveHasSession
  <2>1. ~Mending(<<>>)
    BY DEF Mending
  <2>2. QED
    BY <2>1 DEF IInv, Mended, ActiveHasSession, Quiet
<1>2. QED
  BY <1>1, Invariance, PTL

\* Only createSession of a request itself writes its session id, and a request
\* whose token was handed out makes no more calls.
THEOREM DeadSessionCorrect == Spec => DeadSessionStaysDead
<1>1. IInv /\ [Next]_vars => [\A r \in issued : Live(r)' => Live(r)]_vars
  <2> SUFFICES ASSUME IInv, Next PROVE \A r \in issued : Live(r)' => Live(r)
    BY DEF vars
  <2>0. CASE LinkExpires
    BY <2>0 DEF LinkExpires, Live
  <2> SUFFICES ASSUME NEW q \in Request,
                      Ask(q) \/ Read(q) \/ Write(q) \/ Answer(q) \/ Die(q)
               PROVE  \A r \in issued : Live(r)' => Live(r)
    BY <2>0 DEF Next
  <2>2. CASE CreateSession(q)
    <3>1. q \notin issued
      BY <2>2 DEF IInv, IssuedDone, CreateSession, At
    <3>2. \A s \in sessions' : s \in sessions \/ s.sid = q
      BY <2>2 DEF CreateSession, Document
    <3>3. QED
      BY <3>1, <3>2 DEF Live
  <2>3. CASE ~CreateSession(q)
    <3>1. sessions' \subseteq sessions
      <4>1. CASE Ask(q)
        BY <4>1 DEF Ask, Login, Refresh, Logout, Recover, Administer, Begin
      <4>2. CASE Read(q)
        BY <4>2 DEF Read, CheckCredentials, FindSession, ValidateToken,
           PassApprovedGuard, LogoutUser, CheckActiveDevice, FindUser,
           FindPending, FindByEmail, FindLinks, GetAllSessions
      <4>3. CASE Write(q)
        BY <2>3, <4>3 DEF Write, SetFields, ClearAllSessions, DeleteSession,
           ClearSession, SetStatus, SetRole, SetPassword, DeleteById,
           SetLink, SendMail, ApplyLink
      <4>4. CASE Answer(q) \/ Die(q)
        BY <4>4 DEF Answer, Die
      <4>5. QED
        BY <4>1, <4>2, <4>3, <4>4
    <3>2. QED
      BY <3>1 DEF Live
  <2>4. QED
    BY <2>2, <2>3
<1>2. QED
  BY <1>1, Invariance, PTL DEF Spec, DeadSessionStaysDead

\* A mailed link that is gone from the user's document is never stored again
\* (requestPasswordReset): only setLink of a request itself writes its link, and a
\* request whose link was mailed makes no more calls.
THEOREM DeadLinkCorrect == Spec => DeadLinkStaysDead
<1>1. IInv /\ [Next]_vars => [\A r \in mailed : link' = r => link = r]_vars
  <2> SUFFICES ASSUME IInv, Next PROVE \A r \in mailed : link' = r => link = r
    BY DEF vars
  <2>0. \A r \in mailed : r # NoRequest
    BY NoRequestAssumption DEF IInv, TypeOK
  <2>1. CASE LinkExpires
    BY <2>0, <2>1 DEF LinkExpires
  <2> SUFFICES ASSUME NEW q \in Request,
                      Ask(q) \/ Read(q) \/ Write(q) \/ Answer(q) \/ Die(q)
               PROVE  \A r \in mailed : link' = r => link = r
    BY <2>1 DEF Next
  <2>2. CASE SetLink(q)
    <3>1. q \notin mailed
      BY <2>2 DEF IInv, IssuedDone, SetLink, At
    <3>2. QED
      BY <2>2, <3>1 DEF SetLink
  <2>3. CASE ~SetLink(q)
    <3>1. link' \in {link, NoRequest}
      <4>1. CASE Ask(q)
        BY <4>1 DEF Ask, Login, Refresh, Logout, Recover, Administer, Begin, user
      <4>2. CASE Read(q)
        BY <4>2 DEF Read, CheckCredentials, FindSession, ValidateToken,
           PassApprovedGuard, LogoutUser, CheckActiveDevice, FindUser,
           FindPending, FindByEmail, FindLinks, GetAllSessions, user
      <4>3. CASE Write(q)
        BY <2>3, <4>3 DEF Write, CreateSession, SetFields, ClearAllSessions,
           DeleteSession, ClearSession, SetStatus, SetRole, SetPassword,
           DeleteById, SendMail, ApplyLink, user
      <4>4. CASE Answer(q) \/ Die(q)
        BY <4>4 DEF Answer, Die, user
      <4>5. QED
        BY <4>1, <4>2, <4>3, <4>4
    <3>2. QED
      BY <2>0, <3>1
  <2>4. QED
    BY <2>2, <2>3
<1>2. QED
  BY <1>1, Invariance, PTL DEF Spec, DeadLinkStaysDead
=============================================================================
