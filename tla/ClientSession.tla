---------------------------- MODULE ClientSession ----------------------------
(***************************************************************************)
(* The session as the browser sees it (src/frontend/src: lib/api.ts,       *)
(* context/AuthContext.tsx, components/NavigationGuard.tsx, app/page.tsx). *)
(* Each tab keeps an access token, a user and perhaps a refresh under way  *)
(* in memory; all tabs share the refresh cookie.  The cookie changes when  *)
(* an answer arrives, the session before that, in the backend: a refresh   *)
(* reads the session in one step and writes the next one in another, a     *)
(* logout is let in by the JWT guard in one step and deletes the session   *)
(* in another, a login writes it in one.  What the backend does beside     *)
(* that is in Sessions; the other calls are answered in one step.          *)
(*                                                                         *)
(* One approved user on one device.  A refresh token and the access token  *)
(* issued with it have one version number; 0 is no token or no session.    *)
(* Registration, the pending page (no answer of the backend leads to it),  *)
(* and what the pages look like are left out.                              *)
(***************************************************************************)
EXTENDS Naturals, FiniteSets

CONSTANTS
    Tab,                \* tabs of one browser
    Refresh,            \* requests for /auth/refresh, used again when over
    None,               \* no request, no tab
    MaxVersion,         \* bound: sessions ever written (2 * MaxEvents never binds)
    MaxEvents           \* bound: loads, logins, presses of a button, polls, failures

ASSUME ClientAssumption ==
    /\ None \notin Tab \cup Refresh
    /\ MaxVersion \in Nat /\ MaxEvents \in Nat

VARIABLES
    session,            \* the session document: the version it was written with
    expired,            \* its access token has expired
    versions,           \* versions drawn
    cookie,             \* the refresh_token cookie of the browser
    request,            \* the refresh requests
    access,             \* accessToken of api.ts
    promise,            \* refreshPromise of api.ts
    call,               \* calls of apiRequest: by the user's script, by the poll
    user,               \* user # null in AuthContext
    ready,              \* isReady of AuthContext
    page,               \* the path
    relogin,            \* handleOpenGate is about to send the user to /login
    (* history *)
    mishap,             \* an answer was lost, or two writers of the session overlapped
    events

serverVars == <<session, expired, versions>>
vars == <<serverVars, cookie, request, access, promise, call, user, ready, page,
          relogin, mishap, events>>

Version == 0 .. MaxVersion
Slot == {"script", "poll"}
Kind == {"none", "login", "me", "info", "open", "logout", "poll"}
CallPhase == {"none", "sent", "waiting", "resent", "accepted", "served",
              "ok", "unauthorized", "failed"}
RequestPhase == {"idle", "sent", "checked", "granted", "refused"}

Over == {"ok", "unauthorized", "failed"}

NoCall == [kind |-> "none", phase |-> "none", token |-> 0]
NoRequest == [phase |-> "idle", tab |-> None, kind |-> "shared", old |-> 0, new |-> 0]

Init ==
    /\ session = 0 /\ expired = FALSE /\ versions = 0 /\ cookie = 0
    /\ request = [q \in Refresh |-> NoRequest]
    /\ access = [t \in Tab |-> 0] /\ promise = [t \in Tab |-> None]
    /\ call = [t \in Tab |-> [s \in Slot |-> NoCall]]
    /\ user = [t \in Tab |-> FALSE] /\ ready = [t \in Tab |-> TRUE]
    /\ page = [t \in Tab |-> "login"] /\ relogin = [t \in Tab |-> FALSE]
    /\ mishap = FALSE /\ events = 0

Idle == {q \in Refresh : request[q].phase = "idle"}

\* The request object of a new refresh; which one it is does not matter.
Fresh == CHOOSE q \in Idle : TRUE

\* The fetch of a refresh: it carries the cookie of the moment.
Sent(q, t, kind) ==
    [request EXCEPT ![q] = [phase |-> "sent", tab |-> t, kind |-> kind,
                            old |-> cookie, new |-> 0]]

Call(t, s, kind) ==
    call' = [call EXCEPT ![t][s] = [kind |-> kind, phase |-> "sent",
                                    token |-> access[t]]]

Event == events < MaxEvents /\ events' = events + 1

\* apiRequest returns or throws.  The poll ignores what comes of it.
Ended(c, phase) == IF c.kind = "poll" THEN NoCall ELSE [c EXCEPT !.phase = phase]

Works(v) == v # 0 /\ v = session /\ ~expired

-----------------------------------------------------------------------------
(* AuthService.refresh *)

\* Refreshes, logins and logouts that are about to replace the session or the
\* cookie.
Underway == {q \in Refresh : request[q].phase \in {"checked", "granted"}}
Served == {t \in Tab : call[t]["script"].phase = "served"}
Writing == Underway # {} \/ Served # {}

\* getSessionBySessionId and the compare of the hash.
CheckRefresh(q) ==
    LET r == request[q]
        passes == r.old # 0 /\ r.old = session IN
    /\ r.phase = "sent"
    /\ request' = [request EXCEPT ![q].phase = IF passes THEN "checked" ELSE "refused"]
    /\ mishap' = (mishap \/ (passes /\ Writing))
    /\ UNCHANGED <<serverVars, cookie, access, promise, call, user, ready, page,
                   relogin, events>>

\* createSession: an upsert, also of a session that has ended since.
WriteRefresh(q) ==
    /\ request[q].phase = "checked" /\ versions < MaxVersion
    /\ versions' = versions + 1 /\ session' = versions' /\ expired' = FALSE
    /\ request' = [request EXCEPT ![q].phase = "granted", ![q].new = versions']
    /\ UNCHANGED <<cookie, access, promise, call, user, ready, page, relogin,
                   mishap, events>>

\* A login on another device, an administrator: the session is deleted.
SessionEnds ==
    /\ session # 0 /\ session' = 0 /\ expired' = FALSE
    /\ Event
    /\ UNCHANGED <<versions, cookie, request, access, promise, call,
                   user, ready, page, relogin, mishap>>

TokenExpires ==
    /\ session # 0 /\ ~expired /\ expired' = TRUE
    /\ Event
    /\ UNCHANGED <<session, versions, cookie, request, access, promise, call,
                   user, ready, page, relogin, mishap>>

-----------------------------------------------------------------------------
(* api.ts: refreshAccessToken *)

\* The calls of t that wait for refreshPromise go on with version v, or end.
Woken(t, v) ==
    [call EXCEPT ![t] = [s \in Slot |->
        IF call[t][s].phase # "waiting" THEN call[t][s]
        ELSE IF v # 0 THEN [call[t][s] EXCEPT !.phase = "resent", !.token = v]
        ELSE Ended(call[t][s], "unauthorized")]]

\* refreshPromise settles with version v, or null.
Settle(t, v) ==
    /\ access' = [access EXCEPT ![t] = v]
    /\ promise' = [promise EXCEPT ![t] = None]
    /\ call' = Woken(t, v)
    /\ UNCHANGED <<user, ready>>

\* Mutant of GoOn: a visitor without a session never gets past the spinner.
GoOnUnready(t, v) ==
    /\ access' = [access EXCEPT ![t] = v]
    /\ IF v # 0
       THEN /\ call' = [call EXCEPT ![t]["script"] =
                            [kind |-> "me", phase |-> "sent", token |-> v]]
            /\ UNCHANGED user
       ELSE user' = [user EXCEPT ![t] = FALSE] /\ UNCHANGED call
    /\ UNCHANGED <<promise, ready>>

\* AuthContext.refresh: after refreshToken() comes /auth/me, or nobody is logged in.
GoOn(t, v) ==
    /\ access' = [access EXCEPT ![t] = v]
    /\ IF v # 0
       THEN /\ call' = [call EXCEPT ![t]["script"] =
                            [kind |-> "me", phase |-> "sent", token |-> v]]
            /\ UNCHANGED <<user, ready>>
       ELSE /\ user' = [user EXCEPT ![t] = FALSE] /\ ready' = [ready EXCEPT ![t] = TRUE]
            /\ UNCHANGED call
    /\ UNCHANGED promise

Return(q, v) ==
    IF request[q].kind = "shared" THEN Settle(request[q].tab, v)
    ELSE GoOn(request[q].tab, v)

\* Mutant of AnswerRefresh: the answer carries no cookie.
AnswerWithoutCookie(q) ==
    /\ request[q].tab # None /\ request[q].phase \in {"granted", "refused"}
    /\ Return(q, request[q].new)
    /\ request' = [request EXCEPT ![q] = NoRequest]
    /\ UNCHANGED <<serverVars, cookie, page, relogin, mishap, events>>

\* The answer arrives: the cookie is set, the promise settles.
AnswerRefresh(q) ==
    LET r == request[q]
        granted == r.phase = "granted" IN
    /\ r.tab # None /\ (granted \/ r.phase = "refused")
    /\ cookie' = IF granted THEN r.new ELSE cookie
    /\ Return(q, IF granted THEN r.new ELSE 0)
    /\ request' = [request EXCEPT ![q] = NoRequest]
    /\ UNCHANGED <<serverVars, page, relogin, mishap, events>>

\* The browser gives up (network error); the backend may still work on it.
LoseRefresh(q) ==
    /\ request[q].tab # None
    /\ Return(q, 0)
    /\ request' = [request EXCEPT ![q].tab = None]
    /\ mishap' = TRUE /\ Event
    /\ UNCHANGED <<serverVars, cookie, page, relogin>>

\* The request never arrives, or its answer meets nobody.
DropRefresh(q) ==
    /\ request[q].tab = None /\ request[q].phase \in {"sent", "granted", "refused"}
    /\ request' = [request EXCEPT ![q] = NoRequest]
    /\ UNCHANGED <<serverVars, cookie, access, promise, call, user, ready, page,
                   relogin, mishap, events>>

-----------------------------------------------------------------------------
(* api.ts: apiRequest *)

\* The backend accepts the token.  That is all for a logout as yet (LogoutWorks);
\* every other call is answered.
CallWorks(t, s) ==
    LET c == call[t][s] IN
    /\ c.phase \in {"sent", "resent"} /\ Works(c.token)
    /\ call' = [call EXCEPT ![t][s] = IF c.kind = "logout"
                                      THEN [@ EXCEPT !.phase = "accepted"]
                                      ELSE Ended(@, "ok")]
    /\ UNCHANGED <<serverVars, cookie, request, access, promise, user, ready, page,
                   relogin, mishap, events>>

\* deleteSession: of whatever session the user has on this device by now.
LogoutWorks(t) ==
    /\ call[t]["script"].phase = "accepted"
    /\ session' = 0 /\ expired' = FALSE
    /\ call' = [call EXCEPT ![t]["script"].phase = "served"]
    /\ mishap' = (mishap \/ Writing)
    /\ UNCHANGED <<versions, cookie, request, access, promise, user, ready, page,
                   relogin, events>>

\* The answer of the logout arrives, and clears the cookie.
AnswerLogout(t) ==
    LET c == call[t]["script"] IN
    /\ c.kind = "logout" /\ c.phase = "served"
    /\ cookie' = 0
    /\ call' = [call EXCEPT ![t]["script"] = Ended(@, "ok")]
    /\ UNCHANGED <<serverVars, request, access, promise, user, ready, page, relogin,
                   mishap, events>>

\* Mutant of CallRefused: every call starts a refresh of its own.
CallRefusedAlone(t, s) ==
    /\ call[t][s].kind # "login"
    /\ call[t][s].phase = "sent" /\ ~Works(call[t][s].token)
    /\ call' = [call EXCEPT ![t][s].phase = "waiting"]
    /\ Idle # {}
    /\ promise' = [promise EXCEPT ![t] = Fresh] /\ request' = Sent(Fresh, t, "shared")
    /\ UNCHANGED <<serverVars, cookie, access, user, ready, page, relogin, mishap,
                   events>>

\* 401 on the first try: wait for the refresh of this tab, which is started if
\* there is none.
CallRefused(t, s) ==
    LET c == call[t][s] IN
    /\ c.kind # "login" /\ c.phase = "sent" /\ ~Works(c.token)
    /\ call' = [call EXCEPT ![t][s].phase = "waiting"]
    /\ IF promise[t] # None THEN UNCHANGED <<promise, request>>
       ELSE /\ Idle # {}
            /\ promise' = [promise EXCEPT ![t] = Fresh]
            /\ request' = Sent(Fresh, t, "shared")
    /\ UNCHANGED <<serverVars, cookie, access, user, ready, page, relogin, mishap,
                   events>>

\* 401 again: AUTH_UNAUTHORIZED.
RetryRefused(t, s) ==
    /\ call[t][s].phase = "resent" /\ ~Works(call[t][s].token)
    /\ call' = [call EXCEPT ![t][s] = Ended(@, "unauthorized")]
    /\ UNCHANGED <<serverVars, cookie, request, access, promise, user, ready, page,
                   relogin, mishap, events>>

\* A network error, or an answer that is neither 2xx nor a 401 that leads to a
\* refresh; to the poll it is as good as an answer.  What the backend still does of
\* a logout nobody waits for is SessionEnds.
CallFails(t) ==
    LET c == call[t]["script"] IN
    /\ c.phase \in {"sent", "resent", "accepted", "served"}
    /\ call' = [call EXCEPT ![t]["script"].phase = "failed"]
    /\ mishap' = (mishap \/ (c.kind = "login" /\ c.phase = "served"))
    /\ Event
    /\ UNCHANGED <<serverVars, cookie, request, access, promise, user, ready, page,
                   relogin>>

-----------------------------------------------------------------------------
(* AuthContext and the pages *)

Free(t) == ready[t] /\ call[t]["script"] = NoCall

\* AuthProvider is mounted: refresh().  What the tab was doing is forgotten.
Load(t) ==
    /\ Event /\ Idle # {}
    /\ LET mine == {q \in Refresh : request[q].tab = t} IN
       /\ request' = [q \in Refresh |->
                         IF q \in mine THEN [request[q] EXCEPT !.tab = None]
                         ELSE Sent(Fresh, t, "direct")[q]]
       /\ mishap' = (mishap \/ mine # {} \/ call[t]["script"].kind = "login")
    /\ access' = [access EXCEPT ![t] = 0] /\ promise' = [promise EXCEPT ![t] = None]
    /\ call' = [call EXCEPT ![t] = [s \in Slot |-> NoCall]]
    /\ user' = [user EXCEPT ![t] = FALSE] /\ ready' = [ready EXCEPT ![t] = FALSE]
    /\ relogin' = [relogin EXCEPT ![t] = FALSE]
    /\ UNCHANGED <<serverVars, cookie, page>>

\* login(): the form is submitted.
Login(t) ==
    /\ page[t] = "login" /\ Free(t)
    /\ Event
    /\ call' = [call EXCEPT ![t]["script"] =
                    [kind |-> "login", phase |-> "sent", token |-> 0]]
    /\ UNCHANGED <<serverVars, cookie, request, access, promise, user, ready, page,
                   relogin, mishap>>

\* AuthService.login: the session is replaced.
LoginWorks(t) ==
    LET c == call[t]["script"] IN
    /\ c.kind = "login" /\ c.phase = "sent" /\ versions < MaxVersion
    /\ versions' = versions + 1 /\ session' = versions' /\ expired' = FALSE
    /\ call' = [call EXCEPT ![t]["script"] =
                    [kind |-> "login", phase |-> "served", token |-> versions']]
    /\ mishap' = (mishap \/ Writing)
    /\ UNCHANGED <<cookie, request, access, promise, user, ready, page, relogin,
                   events>>

\* The answer sets cookie, token and user; then comes /auth/me.
AnswerLogin(t) ==
    LET c == call[t]["script"] IN
    /\ c.kind = "login" /\ c.phase = "served"
    /\ cookie' = c.token /\ access' = [access EXCEPT ![t] = c.token]
    /\ user' = [user EXCEPT ![t] = TRUE]
    /\ call' = [call EXCEPT ![t]["script"] =
                    [kind |-> "info", phase |-> "sent", token |-> c.token]]
    /\ UNCHANGED <<serverVars, request, promise, ready, page, relogin, mishap, events>>

\* handleOpenGate, logout: a button is pressed.
Press(t, kind) ==
    /\ kind \in {"open", "logout"}
    /\ page[t] = "home" /\ user[t] /\ Free(t) /\ ~relogin[t]
    /\ Event
    /\ Call(t, "script", kind)
    /\ UNCHANGED <<serverVars, cookie, request, access, promise, user, ready, page,
                   relogin, mishap>>

\* checkDeviceStatus, every five seconds on the home page.
Poll(t) ==
    /\ page[t] = "home" /\ user[t] /\ ready[t] /\ call[t]["poll"] = NoCall
    /\ Event
    /\ Call(t, "poll", "poll")
    /\ UNCHANGED <<serverVars, cookie, request, access, promise, user, ready, page,
                   relogin, mishap>>

\* What follows the await in refresh(), login(), handleOpenGate and logout().
ScriptGoesOn(t) ==
    LET c == call[t]["script"]
        ended == c.kind = "logout" \/ (c.kind = "me" /\ c.phase # "ok") IN
    /\ c.phase \in Over
    /\ call' = [call EXCEPT ![t]["script"] = NoCall]
    /\ access' = IF ended THEN [access EXCEPT ![t] = 0] ELSE access
    /\ user' = [user EXCEPT ![t] = (c.kind = "me" /\ c.phase = "ok") \/ (@ /\ ~ended)]
    /\ ready' = [ready EXCEPT ![t] = TRUE]
    /\ page' = CASE c.kind = "logout" -> [page EXCEPT ![t] = "login"]
                 [] c.kind = "info" -> [page EXCEPT ![t] = "home"]
                 [] OTHER -> page
    /\ relogin' = IF c.kind = "open" /\ c.phase = "unauthorized"
                  THEN [relogin EXCEPT ![t] = TRUE] ELSE relogin
    /\ UNCHANGED <<serverVars, cookie, request, promise, mishap, events>>

\* setTimeout(() => router.push("/login"), 1500).
PushLogin(t) ==
    /\ relogin[t]
    /\ relogin' = [relogin EXCEPT ![t] = FALSE]
    /\ page' = [page EXCEPT ![t] = "login"]
    /\ UNCHANGED <<serverVars, cookie, request, access, promise, call, user, ready,
                   mishap, events>>

\* Mutant of Guard: every user is sent to the pending page.
GuardPending(t) ==
    /\ ready[t] /\ page[t] = (IF user[t] THEN "login" ELSE "home")
    /\ page' = [page EXCEPT ![t] = IF user[t] THEN "pending" ELSE "login"]
    /\ UNCHANGED <<serverVars, cookie, request, access, promise, call, user, ready,
                   relogin, mishap, events>>

\* The effect of NavigationGuard.
Guard(t) ==
    /\ ready[t] /\ page[t] = (IF user[t] THEN "login" ELSE "home")
    /\ page' = [page EXCEPT ![t] = IF user[t] THEN "home" ELSE "login"]
    /\ UNCHANGED <<serverVars, cookie, request, access, promise, call, user, ready,
                   relogin, mishap, events>>

Answers(q) == CheckRefresh(q) \/ WriteRefresh(q) \/ AnswerRefresh(q) \/ DropRefresh(q)
Replies(t, s) == CallWorks(t, s) \/ CallRefused(t, s) \/ RetryRefused(t, s)
LogsInOrOut(t) ==
    LoginWorks(t) \/ AnswerLogin(t) \/ LogoutWorks(t) \/ AnswerLogout(t)

\* The backend answers and the browser runs what is ready.
Goes ==
    \/ \E q \in Refresh : Answers(q)
    \/ \E t \in Tab : \/ LogsInOrOut(t)
                      \/ ScriptGoesOn(t) \/ PushLogin(t) \/ Guard(t)
                      \/ \E s \in Slot : Replies(t, s)

\* The user, the network, other devices.
Happens ==
    \/ \E q \in Refresh : LoseRefresh(q)
    \/ \E t \in Tab : \/ CallFails(t) \/ Load(t) \/ Login(t) \/ Poll(t)
                      \/ \E kind \in {"open", "logout"} : Press(t, kind)
    \/ SessionEnds \/ TokenExpires

Next == Goes \/ Happens

Spec == Init /\ [][Next]_vars

\* Neither the backend nor the browser stops while one has something to do;
\* nobody has to press a button, and nothing has to fail.
FairSpec == Spec /\ WF_vars(Goes)

-----------------------------------------------------------------------------
(* Properties *)

TypeOK ==
    /\ session \in Version /\ cookie \in Version /\ versions \in Version
    /\ expired \in BOOLEAN
    /\ request \in [Refresh -> [phase : RequestPhase, tab : Tab \cup {None},
                                kind : {"shared", "direct"}, old : Version,
                                new : Version]]
    /\ access \in [Tab -> Version] /\ promise \in [Tab -> Refresh \cup {None}]
    /\ call \in [Tab -> [Slot -> [kind : Kind, phase : CallPhase, token : Version]]]
    /\ user \in [Tab -> BOOLEAN] /\ ready \in [Tab -> BOOLEAN]
    /\ page \in [Tab -> {"login", "home"}]
    /\ relogin \in [Tab -> BOOLEAN]
    /\ mishap \in BOOLEAN /\ events \in 0 .. MaxEvents

\* The browser holds the refresh token of the session, or the answer of a refresh
\* or a login brings it, as long as no such answer is lost and no two refreshes,
\* logins and logouts overlap.  They do from two tabs, which share the cookie but
\* not the single flight of refreshAccessToken, and leave a cookie that logs the
\* user out at the next refresh; also a logout whose answer clears the cookie that
\* another tab's refresh or login has set since (mishap).
CookieFollowsSession ==
    session # 0 /\ ~mishap =>
        \/ cookie = session
        \/ \E q \in Refresh : /\ request[q].phase = "granted"
                              /\ request[q].new = session /\ request[q].tab # None
        \/ \E t \in Served : call[t]["script"].token = session

\* A call that waits for refreshPromise waits for a request of its own tab that
\* will settle it; no tab has two such requests (refreshAccessToken).
WaitersAreWoken ==
    \A t \in Tab :
        LET mine == {q \in Refresh : request[q].phase # "idle" /\ request[q].tab = t
                                     /\ request[q].kind = "shared"} IN
        /\ mine = {promise[t]} \ {None}
        /\ \A s \in Slot : call[t][s].phase = "waiting" => promise[t] # None

\* The spinner of the first load goes away and every button comes back to life,
\* in all tabs, once nothing new happens (events): no call and no refresh waits
\* for another one for ever (refreshPromise, the two tries of apiRequest).
LoadingEnds == []<>(\A t \in Tab : Free(t))
=============================================================================
