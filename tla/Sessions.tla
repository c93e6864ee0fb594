------------------------------ MODULE Sessions ------------------------------
(***************************************************************************)
(* The sessions of one user: AuthService.login, refresh and logout, and    *)
(* the reset of a password by e-mail (src/backend/src/auth), what          *)
(* AdminService does to a user's sessions (src/backend/src/admin) and the  *)
(* collections they go through, UsersService (src/backend/src/users).      *)
(*                                                                         *)
(* A request is the list todo[r] of the database calls it still has to     *)
(* make; each call is one action, and a request that meets a check adds to *)
(* the list or drops it.  Any two requests interleave between calls.       *)
(*                                                                         *)
(* A request draws at most one session id (randomUUID) or one token of a   *)
(* reset link (randomBytes), so the id is the request itself, and so is    *)
(* the token that carries it.                                              *)
(***************************************************************************)
EXTENDS Naturals, Sequences

CONSTANTS
    Request,            \* HTTP requests, each used once
    Device,             \* the deviceIds of the user's browsers
    NoDevice,           \* activeDeviceId is not set
    NoRequest,          \* no token
    Operation           \* what the environment may ask for

ASSUME NoDeviceAssumption == NoDevice \notin Device
ASSUME NoRequestAssumption == NoRequest \notin Request
ASSUME OperationAssumption ==
    Operation \subseteq {"login", "refresh", "logout", "setStatus", "setRole",
                         "resetPassword", "resetDevice", "delete",
                         "approveAll", "forgotPassword", "resetByLink"}

VARIABLES
    status,             \* of the user document; "deleted": there is none
    role,
    active,             \* activeDeviceId of the user document
    link,               \* resetPasswordTokenHash of it, while it has not expired
    sessions,           \* the documents of the sessions collection
    req,                \* the arguments of each request and what it has read
    todo,               \* the database calls it still has to make
    issued,             \* requests whose tokens reached a client
    mailed,             \* requests whose reset links were sent
    failed              \* whether a request died halfway (history)

user == <<status, role, active, link>>
vars == <<user, sessions, req, todo, issued, mailed, failed>>

Status == {"pending", "approved", "rejected", "archived"}
Role == {"user", "admin"}

\* kind: what was asked for; device: the device it comes from or is about;
\* token: the token presented; role: the user's role as the request read it;
\* to: the new status.
Arguments == [kind : Operation \cup {"none"}, device : Device \cup {NoDevice},
              token : Request \cup {NoRequest}, role : Role, to : Status]
NoArguments == [kind |-> "none", device |-> NoDevice, token |-> NoRequest,
                role |-> "user", to |-> "approved"]

\* The session document of a token.
Document(r) == [device |-> req[r].device, sid |-> r]

\* getSessionBySessionId finds the session of r.
Live(r) == \E s \in sessions : s.sid = r

-----------------------------------------------------------------------------
(* Requests as lists of calls. *)

At(r, call) == todo[r] # <<>> /\ Head(todo[r]) = call

\* The call is done; `calls' are what the request has found out it must do.
Then(r, calls) == todo' = [todo EXCEPT ![r] = calls \o Tail(@)]

\* The request ends: an exception, or nothing left to do.
Stop(r) == todo' = [todo EXCEPT ![r] = <<>>]

\* A new request, which starts with the call that reads the user or session.
Begin(r, args, call) ==
    /\ req[r].kind = "none"
    /\ args.kind \in Operation
    /\ req' = [req EXCEPT ![r] = args]
    /\ todo' = [todo EXCEPT ![r] = <<call>>]
    /\ UNCHANGED <<user, sessions, issued, mailed, failed>>

\* Mutant of WriteSession: the client has its token before the last write.
AnswerEarly == <<"createSession", "answer", "setFields", "createSession">>

\* login and refresh write the session, the user's fields and the session.
WriteSession == <<"createSession", "setFields", "createSession", "answer">>

-----------------------------------------------------------------------------
(* The requests a client or an administrator may send. *)

Login(r) ==
    \E d \in Device :
        Begin(r, [NoArguments EXCEPT !.kind = "login", !.device = d],
              "credentials")

\* A client keeps using the last token it was given, or an older one.
Refresh(r) ==
    \E t \in issued :
        Begin(r, [NoArguments EXCEPT !.kind = "refresh", !.token = t,
                                     !.device = req[t].device], "findSession")

Logout(r) ==
    \E t \in issued :
        Begin(r, [NoArguments EXCEPT !.kind = "logout", !.token = t,
                                     !.device = req[t].device], "validate")

\* forgot-password and reset-password, with a link that came by mail.
Recover(r) ==
    \/ Begin(r, [NoArguments EXCEPT !.kind = "forgotPassword"], "findByEmail")
    \/ \E t \in mailed :
           Begin(r, [NoArguments EXCEPT !.kind = "resetByLink", !.token = t],
                 "findLinks")

Administer(r) ==
    \/ \E k \in {"setRole", "resetPassword", "delete"} :
           Begin(r, [NoArguments EXCEPT !.kind = k], "findUser")
    \/ \E to \in Status :
           Begin(r, [NoArguments EXCEPT !.kind = "setStatus", !.to = to],
                 "findUser")
    \/ \E d \in Device \cup {NoDevice} :
           Begin(r, [NoArguments EXCEPT !.kind = "resetDevice", !.device = d],
                 "findUser")
    \/ Begin(r, [NoArguments EXCEPT !.kind = "approveAll"], "findPending")

-----------------------------------------------------------------------------
(* Their first reads. *)

\* login: the user is read once, before the password is compared.
CheckCredentials(r) ==
    /\ At(r, "credentials")
    /\ IF status = "approved"
          /\ (role = "admin" \/ active \in {NoDevice, req[r].device})
       THEN /\ Then(r, IF role = "admin" THEN WriteSession
                       ELSE <<"clearAllSessions">> \o WriteSession)
            /\ req' = [req EXCEPT ![r].role = role]
       ELSE Stop(r) /\ UNCHANGED req
    /\ UNCHANGED <<user, sessions, issued, mailed, failed>>

\* refresh: getSessionBySessionId.  The user's status is not looked at.
FindSession(r) ==
    /\ At(r, "findSession")
    /\ IF Document(req[r].token) \in sessions
       THEN Then(r, WriteSession)
       ELSE Stop(r)
    /\ UNCHANGED <<user, sessions, req, issued, mailed, failed>>

\* The JWT strategy: an administrator's token needs no session.
ValidateToken(r) ==
    /\ At(r, "validate")
    /\ IF status # "deleted"
          /\ (req[req[r].token].role = "admin"
                \/ Document(req[r].token) \in sessions)
       THEN Then(r, <<"approvedGuard">>)
       ELSE Stop(r)
    /\ UNCHANGED <<user, sessions, req, issued, mailed, failed>>

\* The guard of the routes that need an approved user.
PassApprovedGuard(r) ==
    /\ At(r, "approvedGuard")
    /\ IF status # "deleted"
          /\ \/ "admin" \in {req[req[r].token].role, role}
             \/ status = "approved" /\ active = req[r].device
       THEN Then(r, <<"logoutUser">>)
       ELSE Stop(r)
    /\ UNCHANGED <<user, sessions, req, issued, mailed, failed>>

\* logout reads the user, and for a regular user the active device.
LogoutUser(r) ==
    /\ At(r, "logoutUser")
    /\ IF status # "deleted"
       THEN /\ Then(r, IF role = "admin"
                       THEN <<"deleteSession", "getAllSessions">>
                       ELSE <<"getSessionData">>)
            /\ req' = [req EXCEPT ![r].role = role]
       ELSE Stop(r) /\ UNCHANGED req
    /\ UNCHANGED <<user, sessions, issued, mailed, failed>>

CheckActiveDevice(r) ==
    /\ At(r, "getSessionData")
    /\ IF active = req[r].device
       THEN Then(r, <<"deleteSession", "getAllSessions">>)
       ELSE Stop(r)
    /\ UNCHANGED <<user, sessions, req, issued, mailed, failed>>

\* What each request of an administrator does once it has found the user.
AdminCalls(args) ==
    CASE args.kind = "setRole" -> <<"setRole">>
      [] args.kind = "resetPassword" ->
             <<"setPassword", "clearAllSessions", "clearSession">>
      [] args.kind = "delete" -> <<"clearAllSessions", "deleteById">>
      [] args.kind = "resetDevice" ->
             IF args.device = NoDevice
             THEN <<"clearAllSessions", "clearSession", "clearActiveDevice",
                    "getAllSessions">>
             ELSE <<"deleteSession", "getAllSessions">>
      [] OTHER ->       \* setStatus
             IF args.to = "approved" THEN <<"setStatus">>
             ELSE <<"clearSession", "setStatus">>

\* A rejection without a reason is refused, but only after clearSession.
FindUser(r) ==
    /\ At(r, "findUser")
    /\ IF status # "deleted"
       THEN \/ Then(r, AdminCalls(req[r]))
            \/ req[r].to = "rejected" /\ Then(r, <<"clearSession">>)
       ELSE Stop(r)
    /\ UNCHANGED <<user, sessions, req, issued, mailed, failed>>

\* approveAllPendingUsers, for this user.
FindPending(r) ==
    /\ At(r, "findPending")
    /\ IF status = "pending"
       THEN Then(r, <<"setStatus", "clearSession", "clearActiveDevice">>)
       ELSE Stop(r)
    /\ UNCHANGED <<user, sessions, req, issued, mailed, failed>>

\* Mutant of FindByEmail: the mail goes out before its link is stored.
MailFirst(r) ==
    /\ At(r, "findByEmail")
    /\ IF status # "deleted" THEN Then(r, <<"sendMail", "setLink">>) ELSE Stop(r)
    /\ UNCHANGED <<user, sessions, req, issued, mailed, failed>>

\* requestPasswordReset: nobody is told whether there is such a user.
FindByEmail(r) ==
    /\ At(r, "findByEmail")
    /\ IF status # "deleted" THEN Then(r, <<"setLink", "sendMail">>) ELSE Stop(r)
    /\ UNCHANGED <<user, sessions, req, issued, mailed, failed>>

\* resetPassword: findWithValidResetToken and the compares.
FindLinks(r) ==
    /\ At(r, "findLinks")
    /\ IF status # "deleted" /\ link = req[r].token
       THEN Then(r, <<"applyLink">>) ELSE Stop(r)
    /\ UNCHANGED <<user, sessions, req, issued, mailed, failed>>

-----------------------------------------------------------------------------
(* The calls of UsersService that write. *)

\* Another request that is writing a session of the same device.
Rival(r) ==
    \E q \in Request \ {r} :
        /\ req[q].kind \in {"login", "refresh"}
        /\ req[q].device = req[r].device
        /\ todo[q] # <<>>

\* An upsert by {userId, deviceId}: it updates one document of the device, and
\* inserts when it sees none.  No unique index covers the pair, so of two
\* upserts that see none both insert; sessionId is unique.
CreateSession(r) ==
    /\ At(r, "createSession")
    /\ LET same == {s \in sessions : s.device = req[r].device} IN
       \/ \E s \in same :
              /\ Document(r) \in same => s = Document(r)
              /\ sessions' = (sessions \ {s}) \cup {Document(r)}
       \/ /\ same = {} \/ Rival(r)
          /\ Document(r) \notin same
          /\ sessions' = sessions \cup {Document(r)}
    /\ Then(r, <<>>)
    /\ UNCHANGED <<user, req, issued, mailed, failed>>

\* Mutant of SetFields: setSession called with deviceId and sid swapped.
SetFieldsSwapped(r) ==
    /\ At(r, "setFields")
    /\ active' = IF status = "deleted" THEN active ELSE r
    /\ Then(r, <<>>)
    /\ UNCHANGED <<status, role, link, sessions, req, issued, mailed, failed>>

\* setSession: findByIdAndUpdate of the user's fields.
SetFields(r) ==
    /\ At(r, "setFields")
    /\ active' = IF status = "deleted" THEN active ELSE req[r].device
    /\ Then(r, <<>>)
    /\ UNCHANGED <<status, role, link, sessions, req, issued, mailed, failed>>

\* login answers with the user it read; refresh reads the user again.
Answer(r) ==
    /\ At(r, "answer")
    /\ IF req[r].kind = "login"
       THEN issued' = issued \cup {r} /\ UNCHANGED req
       ELSE IF status # "deleted"
       THEN /\ issued' = issued \cup {r}
            /\ req' = [req EXCEPT ![r].role = role]
       ELSE UNCHANGED <<issued, req>>
    /\ Then(r, <<>>)
    /\ UNCHANGED <<user, sessions, mailed, failed>>

ClearAllSessions(r) ==
    /\ At(r, "clearAllSessions")
    /\ sessions' = {}
    /\ Then(r, <<>>)
    /\ UNCHANGED <<user, req, issued, mailed, failed>>

DeleteSession(r) ==
    /\ At(r, "deleteSession")
    /\ sessions' = {s \in sessions : s.device # req[r].device}
    /\ Then(r, <<>>)
    /\ UNCHANGED <<user, req, issued, mailed, failed>>

\* Mutant of GetAllSessions: resetUserDevice leaves the user's fields alone.
KeepFieldsOnReset(r) ==
    /\ At(r, "getAllSessions")
    /\ IF /\ req[r].kind = "logout"
          /\ sessions = {} \/ req[r].role # "admin"
       THEN Then(r, <<"clearSession">>)
       ELSE Stop(r)
    /\ UNCHANGED <<user, sessions, req, issued, mailed, failed>>

\* What is left decides whether the user's fields are cleared as well.
GetAllSessions(r) ==
    /\ At(r, "getAllSessions")
    /\ IF req[r].kind = "logout"
       THEN IF sessions = {} \/ req[r].role # "admin"
            THEN Then(r, <<"clearSession">>)
            ELSE Stop(r)
       ELSE IF sessions = {}
            THEN Then(r, <<"clearSession", "clearActiveDevice">>)
            ELSE Stop(r)
    /\ UNCHANGED <<user, sessions, req, issued, mailed, failed>>

\* $unset of activeDeviceId (clearSession unsets two more fields).
ClearSession(r) ==
    /\ At(r, "clearSession") \/ At(r, "clearActiveDevice")
    /\ active' = NoDevice
    /\ Then(r, <<>>)
    /\ UNCHANGED <<status, role, link, sessions, req, issued, mailed, failed>>

\* updateUser with a status, and with activeDeviceId null if it locks out.
SetStatus(r) ==
    /\ At(r, "setStatus")
    /\ IF status = "deleted"
       THEN UNCHANGED <<status, active>>
       ELSE /\ status' = req[r].to
            /\ active' = IF req[r].to = "approved" THEN active ELSE NoDevice
    /\ Then(r, <<>>)
    /\ UNCHANGED <<role, link, sessions, req, issued, mailed, failed>>

SetRole(r) ==
    /\ At(r, "setRole")
    /\ \E new \in Role : role' = IF status = "deleted" THEN role ELSE new
    /\ Then(r, <<>>)
    /\ UNCHANGED <<status, active, link, sessions, req, issued, mailed, failed>>

\* The new hash changes nothing here, but a missing user ends the request.
SetPassword(r) ==
    /\ At(r, "setPassword")
    /\ IF status = "deleted" THEN Stop(r) ELSE Then(r, <<>>)
    /\ UNCHANGED <<user, sessions, req, issued, mailed, failed>>

DeleteById(r) ==
    /\ At(r, "deleteById")
    /\ status' = "deleted"
    /\ active' = NoDevice
    /\ link' = NoRequest
    /\ Then(r, <<>>)
    /\ UNCHANGED <<role, sessions, req, issued, mailed, failed>>

\* updateUser: the last link asked for replaces the one before.
SetLink(r) ==
    /\ At(r, "setLink")
    /\ link' = IF status = "deleted" THEN link ELSE r
    /\ Then(r, <<>>)
    /\ UNCHANGED <<status, role, active, sessions, req, issued, mailed, failed>>

\* An e-mail that cannot be sent is only logged.
SendMail(r) ==
    /\ At(r, "sendMail")
    /\ mailed' \in {mailed, mailed \cup {r}}
    /\ Then(r, <<>>)
    /\ UNCHANGED <<user, sessions, req, issued, failed>>

\* clearPasswordResetAndSetPassword: whatever link there is now is cleared, and
\* the sessions stay.
ApplyLink(r) ==
    /\ At(r, "applyLink")
    /\ link' = NoRequest
    /\ Then(r, <<>>)
    /\ UNCHANGED <<status, role, active, sessions, req, issued, mailed, failed>>

\* resetPasswordExpiresAt passes.
LinkExpires ==
    /\ link # NoRequest /\ link' = NoRequest
    /\ UNCHANGED <<status, role, active, sessions, req, todo, issued, mailed, failed>>

\* A call fails, or the process dies, between two calls of the request.
Die(r) ==
    /\ todo[r] # <<>>
    /\ Stop(r)
    /\ failed' = TRUE
    /\ UNCHANGED <<user, sessions, req, issued, mailed>>

-----------------------------------------------------------------------------
Init ==
    /\ status \in Status
    /\ role \in Role
    /\ active = NoDevice
    /\ sessions = {}
    /\ req = [r \in Request |-> NoArguments]
    /\ todo = [r \in Request |-> <<>>]
    /\ link = NoRequest
    /\ issued = {} /\ mailed = {}
    /\ failed = FALSE

Ask(r) == Login(r) \/ Refresh(r) \/ Logout(r) \/ Recover(r) \/ Administer(r)

Read(r) ==
    \/ CheckCredentials(r)
    \/ FindSession(r)
    \/ ValidateToken(r)
    \/ PassApprovedGuard(r)
    \/ LogoutUser(r)
    \/ CheckActiveDevice(r)
    \/ FindUser(r)
    \/ FindPending(r)
    \/ FindByEmail(r)
    \/ FindLinks(r)
    \/ GetAllSessions(r)

Write(r) ==
    \/ CreateSession(r)
    \/ SetFields(r)
    \/ ClearAllSessions(r)
    \/ DeleteSession(r)
    \/ ClearSession(r)
    \/ SetStatus(r)
    \/ SetRole(r)
    \/ SetPassword(r)
    \/ DeleteById(r)
    \/ SetLink(r)
    \/ SendMail(r)
    \/ ApplyLink(r)

Next ==
    \/ \E r \in Request : Ask(r) \/ Read(r) \/ Write(r) \/ Answer(r) \/ Die(r)
    \/ LinkExpires

Spec == Init /\ [][Next]_vars

-----------------------------------------------------------------------------
Call == {"credentials", "findSession", "validate", "approvedGuard",
         "logoutUser", "getSessionData", "findUser", "findPending",
         "getAllSessions", "createSession", "setFields", "answer",
         "clearAllSessions", "deleteSession", "clearSession",
         "clearActiveDevice", "setStatus", "setRole", "setPassword",
         "deleteById", "findByEmail", "findLinks", "setLink", "sendMail",
         "applyLink"}

\* Types of the variables; tokens and links go to requests that were made.
TypeOK ==
    /\ status \in Status \cup {"deleted"}
    /\ role \in Role
    /\ active \in Device \cup {NoDevice}
    /\ sessions \subseteq [device : Device \cup {NoDevice}, sid : Request]
    /\ req \in [Request -> Arguments]
    /\ todo \in [Request -> Seq(Call)]
    /\ link \in Request \cup {NoRequest}
    /\ issued \cup mailed \subseteq {r \in Request : req[r].kind # "none"}
    /\ failed \in BOOLEAN

\* A token that was handed out and whose session is gone (logged out, replaced
\* by a refresh, cleared by an administrator) never works again: no request
\* still in flight writes that session back.
DeadSessionStaysDead ==
    [][\A r \in issued : Live(r)' => Live(r)]_vars

\* A mailed reset link that was cleared by a use, replaced by a newer one, or has
\* expired, is never stored again, although requests for links and uses of them
\* overlap (requestPasswordReset): a use that starts after that does not find it.
\* It does not make a link work once only: of two uses that both found it before
\* the first cleared it (FindLinks, ApplyLink), both set the password.
DeadLinkStaysDead ==
    [][\A r \in mailed : link' = r => link = r]_vars

Quiet == \A r \in Request : todo[r] = <<>>

\* The user's fields and the sessions collection are written one after the
\* other, by requests that know nothing of each other.  Once all of them have
\* ended, an activeDeviceId, which keeps every other device from logging in,
\* comes with a session that can still be used or ended.  Only a request that
\* died halfway can leave it without one.
ActiveHasSession ==
    Quiet /\ ~failed /\ active # NoDevice => sessions # {}

\* auth.service.ts:183 "For regular users, clear all existing sessions
\* (enforce single device)": once every request has ended, the sessions of a
\* regular user are those of one device.
SingleDevice ==
    Quiet /\ role = "user" =>
        \A s1, s2 \in sessions : s1.device = s2.device
=============================================================================
