# Parking gate remote: specifications and proofs

This directory holds TLA+ models of the parking gate remote (the repository it
is kept beside), TLC configurations that check them on small instances, and
proofs that TLAPS checks for every value of the constants. `PROJECT.json` lists
the components, runs, theorems, findings and hazards, and maps every definition
that models code to the lines it models. Paths below are relative to `src/`.

## 1. The system

| Component | State it keeps | Operations | Talks to |
|---|---|---|---|
| Gate service (`backend/src/gate/gate.service.ts`, `gate.controller.ts`) | `GateRequest` collection (unique `requestId`, TTL), `GateLog` collection | `openByUser`, `openByAdminBackdoor`, `checkAndRegisterRequestId` | the device service |
| Device service (`mqtt-gate-device.service.ts`) | `pendingRequests`, their timeouts, `isConnected` | `openGate`, `publishCommandAndWaitForAck`, `handleAckMessage`, `connect`, `disconnect` | the broker |
| MQTT broker (external) | messages of the command and ACK topics | deliver, lose, redeliver | both sides |
| Gate controller (`firmware/src/main.ino`, `gate_control`, `relay`) | `lastOpenAtMs`, `dedupeCache` with its index and count, the relay pin | `handleMqttCommand` | the broker |
| Device recovery (`main.ino` loop, `modem`, `ppp`, `mqtt`, `Backoff`) | the connection state, retries, fail streaks, back-off, flags between iterations | one iteration of `loop()`, out-of-band commands, reset | modem, broker, HTTP |
| Diagnostic log (`util/DiagnosticLog.cpp`, the upload in `main.ino`, `handleDiagnosticsMessage`) | a ring in RAM, its copy in flash, documents per batch | `append`, `removeFirst`, `load`, `save`, upload, intake | the broker |
| Pending device commands (`device-commands.service.ts`, `pollOobCommandViaModem`) | command documents | `setPending`, `consumePending`, the poll | the controller |
| Sessions (`auth.service.ts`, `users.service.ts`, `jwt.strategy.ts`, `approved.guard.ts`) | session documents, `activeSessionId`/`activeDeviceId`, tokens and cookies of clients | login, refresh, logout, password reset by e-mail, the guard of the gate | administration |
| User administration (`admin.service.ts`) | user status, role, sessions | update, delete, reset device, reset password, approve | sessions |
| Frontend session (`frontend/src/lib/api.ts`, `AuthContext.tsx`, `NavigationGuard.tsx`, `app/page.tsx`) | access token, refresh in flight, user, page, per tab; the cookie of the browser | `apiRequest`, refresh, login, logout, navigation | sessions |
| Admin pages (`frontend/src/app/admin/AdminPageContent.tsx`) | the view (filter, page, search, sort, limit), the list shown, loading and error, open modals, selected user and edit form, diagnostics | load and reload, filter, page, row handlers, modals | user administration, the terminal |
| Admin terminal (`admin/terminal`, `components/Terminal.tsx`) | socket to pty map | connect, create, disconnect, exit | the shell |

What is hard in it: an opening crosses three processes and an unreliable
network, with a retry, a timeout and redelivery between them; the controller is
reset at will and forgets what it did; request ids are the only thing that keeps
an opening from happening twice; the millisecond clock wraps; the backend
interleaves requests at every await; the firmware's state machine talks to
itself through flags and two clocks with one limit; every change of the log is
two writes to flash; the admin page keeps one answer, one selected user and one
form for requests that answer in any order. `PROJECT.json` lists each hazard at its line with the
properties that would catch it.

What makes the parts correct:

- *gate service and device service*: no two calls share a pending entry; every
  waiting call can be woken; nothing is left behind; every call ends; but for what a
  late publish error does;
- *controller*: the cooldown holds over clock wrap-arounds; the request id cache
  holds the last opens, whatever has been evicted; an ok ACK means an opening;
- *end to end*: a success is never reported for a gate that stayed closed, and the
  gate opens only for what somebody asked for;
- *device recovery*: no manager uses a modem object that another has deleted, no
  state waits for an attempt nobody runs, and the device gets back to hearing
  commands, but for one state of the session;
- *diagnostic log*: it is a queue, and stays in order through saves and loads; no
  entry is stored twice within a boot, but for a publish that failed in doubt;
- *pending commands*: carried out once at most, lost only with an answer;
- *sessions*: a session that has ended stays ended, and a reset link that was
  cleared is not stored again; a user's active device comes with a session;
- *frontend*: the cookie is the session's, and every call that waits for a refresh
  is woken;
- *admin pages*: a list answers the view above it, a spinner ends, and a form is
  saved for the user it was opened for;
- *terminal*: a closed socket leaves no shell behind.

## 2. The modules

| Module | Models |
|---|---|
| `CommandChannel` | the broker, external: the command and ACK topics as sets of messages in flight, with redelivery, loss and, because they are sets, reordering |
| `GateControl` | the controller's command path |
| `GateBackend` | the gate service and the device service |
| `GateSpec` | the abstract promise of the whole path |
| `GateSystem` | `GateBackend`, `CommandChannel` and `GateControl` composed, with the refinement mapping to `GateSpec` |
| `DuplicateAcks` | `GateSystem` with the history one of the findings needs |
| `Sessions` | login, refresh, logout, the reset of a password by e-mail, and what an administrator does to the sessions of one user |
| `DeviceRecovery` | the loop of the firmware over its three managers |
| `PendingCommands` | the out-of-band commands, from the administrator to the device |
| `DiagnosticLog` | the log, its flash, its upload and the backend's intake |
| `ClientSession` | tabs of a browser, the shared refresh cookie, and the backend's refresh |
| `Terminals` | terminal components, sockets, and shells |
| `AdminPage` | the page of the administrator, its handlers and what `AdminService` answers; composed with `Terminals`, which is one of its tabs |
| `MC*` | constants, symmetry and constraints for TLC |
| `*Proofs` | the proofs |

### GateControl

The firmware is one `loop()`, so `handleMqttCommand` is one action per outcome:
`DropOffline`, `RejectBadPayload`, `RejectUnknown`, `AckDuplicate`, `RejectCooldown`, in
the order of the code's early returns (each guard repeats the negation of the
previous ones), and the opening, which `delay(3000)` in `Relay::activatePulse` cuts
in two: `BeginPulse` (pin high) and `EndPulse` (pin low, `recordOpen`, `markProcessed`,
ACK). Between them time passes, the session may drop and the board may be
reset; that is why an opening may go without an ACK, and without a record after
a reset. The branch that answers `RELAY_FAIL` is not modelled: `activatePulse`
returns `true` on its only path.

`lastOpenAtMs`, `dedupeCache`, `dedupeCacheIndex` and `dedupeCacheCount` are the statics of
`gate_control.cpp`; request ids are model values. `clock` is the true time since
boot; the code sees `Millis`, the clock modulo `Wrap` (2^32 in the code), and its
subtraction is modulo `Wrap` too. `openedAt`, `history` and `bootMark` are history
variables, only there for the properties; so is the field `answers` of an ACK.

### GateBackend

Node runs one callback at a time, so an action is what runs between two awaits,
and a call's `pc` names the await it is in. `Register` is the insert into
`GateRequest` (unique index; also a failing insert, applied or not), `FirstAttempt`
and `NextAttempt` are `publishCommandAndWaitForAck` from the loop of `openGate`,
`HandleAck`, `FireTimer` and `PublishError` are the three callbacks that settle a
promise, `Disconnect` the loop of `disconnect`, `WriteLog` the `finally` block.
`pending` is the map `pendingRequests`: it maps a request id to the attempt whose
promise it holds; `timers` holds the attempts whose timeout is armed, `publishing`
those whose publish callback may still report an error. The callbacks of the
timer and of the publish find their entry by request id as the code does, so that
they may hit another attempt's. `Resolve`, `Reject` and `RejectTimeout` act on a promise
only while it is undecided.

Nothing in the code relates the publish callback to the attempt's end, so the model
lets it report an error at any time. An error of the first attempt that comes when
the retry waits deletes the retry's entry (`mqtt-gate-device.service.ts:536`), the
retry's timer finds nothing (`:507-515`), and the call hangs. `robbed` holds the request
ids this has happened to, and the properties except those and nothing else. With
the `mqtt` library, which is not part of the repository, it takes a first command
that was handed to the connection, a refusal or a lost connection that ended the
attempt, and an error for that command afterwards, which in practice is one that the
client reports for what it has not delivered when it is closed.

The user and the administrator differ in their start only: `openByAdminBackdoor`
has no replay check and draws a new id (`FreshRid`). `Expire` is the TTL index; its
guard states the one timing fact used, that the TTL (30 s) outlives the longest
call (two waits of 5 s and a delay of 250 ms with the defaults). A crash empties
the memory and keeps the collections.

### GateSystem and GateSpec

`GateSystem` shares the channel between the two parts and interleaves their
steps. `GateSpec` says what the path promises: `Open` only for an id somebody asked
for and not among the last `Memory` ids opened since the controller was started,
`Tell(c, "ok")` only after `Open`. The refinement mapping takes `opened` from the
controller's `history` and `started` from `bootMark`.

### DeviceRecovery

One call of `loop()` is one action, split by `deviceState`; `main`, `modem`, `ppp` and
`mqtt` are the globals of `main.ino` and the members of the three managers, and what
a manager's function may return and leave behind is a set of records (`InitCalls`,
`PppWaits`, `PppComesUp`, `Handled`, `StatusPublished`). Timestamps are ages; an
iteration lasts up to `Slow` while something is in trouble (an AT command that
times out) and 1 otherwise, so that `stateEntryTime` and `pppStartTime` drift apart as
they do in the code. `trouble` is the highest layer that may fail (broker, network,
modem, power): a call that needs it then succeeds or fails, and otherwise
succeeds. `session` is the modem's MQTT session, which outlives a reset of the
ESP32: `half` is one the broker has dropped without the modem knowing it, `deaf`
one that is connected without a subscription. The `link` of `mqtt` is the pointer to
the TinyGsm object, which `PppManager::stop` deletes. The out-of-band poll cuts an
iteration in two (`OobAsk`, then `OobReboot`, `OobRebuild` or the rest).

### PendingCommands

`commands` is the collection of one device in the order of `createdAt`; `SetPending`,
`ClearPending` and `Expire` change it. `consumePending` is `Find` and `Save`, two calls
to the database in a handler of its own; `asked` is the handler the device still
waits for. `GiveUp` is a poll that fails on the device's side or a reset: its
handler runs on and may overlap the next one. `Save` marks the document whatever
has become of it, as Mongoose does, and fails if it is gone.

### DiagnosticLog

`entries`, `head` and `count` are the ring, entries the numbers of their appends;
`nvsCount` and `nvsData` the two keys in flash. Every change is followed by `SaveCount`
in the same step and `SaveData` in the next; a reset (`Boot`) fits in between, and so
it does between the publication of a batch and the save of the shorter log.
`head_` may be `MAX_ENTRIES` after `load()` of a full log, and the next append goes
behind the array (`WriteBehind`): what head_ is after that is undefined, so it is
any slot. The properties say nothing after such an append (`overrun`).

`load()` is only called by the constructor of a global (`main.ino:55`). On the ESP32
that runs before the flash is initialised, `prefs.begin()` fails, and the log starts
empty: nothing survives the reboot that `DiagnosticLog.h:29` says the entries survive,
and `WriteBehind` is out of reach. The model has that outcome and the other, in which
`load()` finds the flash, and no property claims that entries survive.

A batch is `PublishBatch`, or `PublishFails`: the client may return false for a message
that got out all the same, and the entries, which stay, are sent again in the same
session (`unsure`). `sent` is what the broker or a handler of the backend holds; two
handlers end in either order. The controller names no QoS when it publishes
(`MqttManager.cpp:185`), which its modem's library, external, takes for 0: the broker
repeats no batch and no ACK, although `mqtt-protocol.md` asks for QoS 1.

### Sessions

`AuthService` and `AdminService` are sequences of `UsersService` calls, each of which is
one MongoDB operation, and any two requests interleave between them. So a
request is the list `todo[r]` of the calls it still has to make, there is one
action per call, and a check adds to the list (`Then`) or drops it (`Stop`). `user` is
the user document (`"deleted"`: none), `sessions` the collection. A request draws at
most one session id, so the id is the request: `issued` holds the ids whose tokens
reached a client, and a client may present any of them. `CreateSession` is an upsert
on a pair that no unique index covers, so it may insert beside a document that a
concurrent upsert has just inserted (`Rival`). `link` is the reset token whose hash the
document holds, until `LinkExpires`, and `mailed` the tokens that were sent; again the
request is the token. Passwords are not modelled: a link is good or not. `Die` is a database error or a crash
at any call, and `failed` remembers it.

### ClientSession

Each tab has the variables of `api.ts` and `AuthContext.tsx`: `access`, `promise`, `user`,
`ready`; `call` holds the call of the user's script and the poll of the home page.
`CallRefused` is the 401 branch of `apiRequest`: it starts `refreshPromise` or waits for
the one there is; `Return` settles it. `Load` is the mount of the provider, whose
`refreshToken` is another function without the single flight. `CheckRefresh` and
`WriteRefresh` are the two database calls of `AuthService.refresh`, `AnswerRefresh` the
arrival of cookie and token. A logout is let in by the guard (`CallWorks`), deletes
the session (`LogoutWorks`) and clears the cookie when its answer arrives
(`AnswerLogout`); a login likewise (`Login`, `LoginWorks`, `AnswerLogin`). Between these
steps anything of the other tabs may happen. A token is the number of its session's
version. `mishap` notes the two things that may part cookie and session: a lost
answer of a refresh or a login, and a refresh, login or logout that reaches the
session while the answer of another is still to come. The second needs two tabs:
they share the cookie, but not the single flight.

### Terminals

`terminal` is the component, `open` the sockets the backend takes for connected,
`finding` those whose `handleConnection` awaits the database, `sessions` the map of
the service and `shell` the ptys. Either side learns of a lost connection at its own
time. `late` notes the sockets that closed during the await.

### AdminPage

A behaviour is one mount of the component: a tab is a route, so `activeTab` never
changes, and the tab `terminal` runs `Terminals`. `view` holds the states a load is made
from, the debounced search included; `shown` is the list with the view it answers;
`fetches` are the loads under way. A change of the view sends what the two effects
send (`Loads`: the users twice); a handler that reloads has the view of its render
(`Reload`, and `ReloadFirstPage` for the approvals, which set the page first).
`ListAnswers` and `ListFails` end a load, in any order, with its `finally`.

`handlers` are the handlers that await a request, with the row they were called for
and, for the edit, whose form they carry; `Serve` and `ServeAll` are `AdminService`,
`HandlerFails` an error at any point before or after, and the `...Answers` actions what
runs after the await. `modal`, `selected`, `toDelete` and `form` are the modals with
their separate states, every way in and out of each (buttons, backdrop, Escape) an
action. Of a user the model has the status and whose name and address the document
holds, so that a form saved for somebody else shows in `resident`.

Three history variables note the crossings the code lets happen: `stray` (the load
sent or answered last is of another view), `crossed` (a rejection was answered under
an open edit modal, whose user it deselects) and `overlapped` (diagnostics of another
device came into the open modal). Without each of them TLC finds the property that
excepts it violated.

Older loads of one view, and handlers that agree in everything, are one element:
they would do the same. Left out are the password form, the reason of a rejection,
the commands for a device (`PendingCommands` has them; the spinner of the devices
waits for their states too), the parameters in the URL, the window with a log entry,
and the keyboard but for Escape.

## 3. The runs

| Run | Shows |
|---|---|
| `gate` | cooldown over two wrap-arounds, cache beyond its size, the meaning of an ok ACK |
| `backend` | pending entries, timers and calls match, and every call ends, unless a late publish error takes an entry |
| `gate_system` | the composed system implements `GateSpec` and reports no false success |
| `duplicate_ack` (violation) | a duplicate of a refusal settles the retry it caused |
| `sessions` | any three requests: ended sessions and cleared reset links are not stored again, the active device has a session |
| `sessions_race` (violation) | two logins leave a regular user with sessions on two devices |
| `recovery` | no dangling modem object, no attempt nobody runs; after any trouble commands are heard again, unless a session is left without its subscription |
| `ppp_reset` (violation) | PPP attempts time out without the modem reset the docs promise |
| `pending` | a command is carried out once at most, lost only with an answer, fetched in the end |
| `diag` | the log is a queue in the order of the appends; no entry is stored twice within a boot, but for a publish in doubt |
| `client` | single flight, waiting calls, cookie and session of two tabs whose refreshes, logins and logouts overlap |
| `admin` | lists, spinners and edit forms stay with what they are for; shells end with their sockets, but for one race |

Bounds.

- `gate`: `Wrap = 3` with `Cooldown = 2` and `MaxClock = 7` lets the clock wrap twice with
  openings on both sides of each wrap, one at reading 0 included. Three request
  ids for two slots and four pulses evict an entry and reuse a slot: the wrap of
  the index and the full count are both reached. One reset, after which the
  constraint `ShortAfterReset` cuts long behaviours: what a reset changes shows in
  the next pulses.
- `backend`: two calls, because entries and timers are shared only through one
  request id; `RetryCount = 1`, the default of the code, has a first and a last
  attempt. Any ACK may arrive, and any publish fail, at any time. `CrashOrRetry`
  leaves out retries and shutdowns in a behaviour with a crash: a crash empties
  the memory, so there is nothing of the retry that could meet it again but a late
  ACK, which `EnvAck` has anyway. `OneOnItsWay` keeps one command and one ACK in the
  channel: the backend reads no command, and an ACK may be published just before
  it is taken.
- `gate_system`: `Trouble` counts retries, crashes and resets; two calls without any
  of them, or one call with two, as the state space of all together is too large.
  Messages are lost and redelivered in every behaviour. The theorems have no
  such bound.
- `sessions`: three requests on two devices: a login, a request that uses its
  session and one that interferes with both; or two requests for a link and a use of
  the first. The theorems have no such bound.
- `recovery`: times are in iterations of `loop()`. Each limit is long enough for a
  healthy attempt (the eight stages of the init, the five of PPP) and short enough
  to run out in trouble; `MqttLimit` and `PppLimit` are those of `config.h`, and every
  escalation takes repeated failures. Trouble comes and goes without a bound, and
  so do resets and out-of-band commands.
- `pending`: three commands (one behind another behind a third), two handlers that
  overlap, two polls given up.
- `diag`: a ring of three, four appends (it overflows), batches of two (one is the
  rest), two resets, and no more than three batches on their way.
- `client`: two tabs, two refreshes, four events: a login, and three more, which is
  what a lost refresh in one tab, a session ended elsewhere and a use of it in
  the other take, or a logout beside a refresh. `MaxVersion` never binds.
- `admin`: two users, a filter that both pass and one that only pending users pass,
  two searches (one finds both users, one only the second), two pages, and two changes of
  the view or requests (`MaxClicks`): modals open and close without counting, so two
  requests under any modal are enough for every crossing above. Two terminals on two
  sockets, so that a socket lives on the backend while its component has the next;
  one reconnection attempt. The theorems have no such bound.

`CHECK_DEADLOCK FALSE` is said where the system may stop because a bound is used
up: `sessions` and `sessions_race` (requests), `client` (events), `diag` (appends and
resets), `admin` (clicks).

Fairness, and what justifies it.

- `backend`: the database answers, timers fire, the event loop runs what is ready:
  `Register`, `FirstAttempt`, `NextAttempt`, `WriteLog` and `FireTimer` are weakly fair.
  Nothing is assumed of the broker, the connection or the controller.
- `recovery`: Arduino calls `loop()` for ever: `WF(Loop)`. `Recovers` has the end of
  trouble as its premise; `NeverStuck` has none. `Recovers` demands a session that is
  subscribed, or that the device stays in the one exception, the `deaf` session of
  section 6, for ever; without that exception TLC finds the behaviour that ends in it.
- `pending`: a handler runs to its end, and the device asks again whenever it does
  not wait, which `OOB_POLL_INTERVAL_MS` makes true while it is connected.
- `admin`: `findById` returns or throws; the ping timeout of socket.io ends a
  connection whose other end is gone. Nothing is assumed of the shell, the browser or
  the loads of a list.
- `client`: `WF(Goes)`: the backend and the browser do not both stop while one of
  them has something to do. No event of the user or the network is fair.

Findings. Each violation is a disagreement between a document or comment and the
code, quoted in `PROJECT.json`: `mqtt-protocol.md` says that ACKs after the first are
ignored; a comment in `login` says that a regular user has a single device; the
firmware's README says that PPP failures add up to a modem reset, but the timeout
of `loop()` stops PPP before `PppManager` counts the failure. None makes the abstract
promise false, and `recovery` shows that the third one does not keep the device
offline once the network is back.

## 4. The proofs

Every theorem holds for all values of the constants under the named `ASSUME`s of
its module: types of the constants, the extra values (`None`, `NoRid`, `Idle`) outside
the sets they are added to, and `BootMs > 0`. TLC evaluates all of them.

`GateControlProofs`: type correctness, `LastOpenIsTruncated`, `CooldownBetweenPulses`,
`CacheHoldsLastOpens` (the two are `OpensAreRecorded`), `NoRepeatInWindow`,
`OkAckMeansOpened`.

- Cooldown: `LastOpenIsTruncated` is inductive. `WrappedDifference` says
  that the wrapped difference of two readings never exceeds the true difference,
  so a pulse that `canExecuteNow` allows is late enough.
- Cache: `CacheHoldsLastOpens` needs to know that a pulse in progress is the last
  element of `history` (`CacheInv`). `markProcessed` then writes the slot after the
  newest entry, and `NextIndex` renumbers the others.
- `NoRepeatInWindow`: a pulse starts only for an id that the scan does not find, and
  by the cache invariant the scan covers the last `CacheSize` pulses.

`GateBackendProofs`: type correctness, `OneCallPerRequestId`,
`PendingMatchesCalls`. The strengthening is that a user's call inside `openGate` has its id
in `requests` (so that the unique index keeps others out) and that an
administrator's id is its own; then an id identifies a call, and every action
that removes an entry settles the promise of the call that waits on it. A publish
error of an earlier attempt is the one that does not, and adds the id to `robbed`.

`GateSystemProofs`: `SuccessMeansOpened`, and `Spec => ImplementsGateSpec`. The
invariants of the components are taken over: a step of the system is a step of
the controller's specification, in which anybody may publish commands, and one
of the backend's own steps or none, with the ACKs of the channel for `EnvAck`. New
are `CallInv` (a call that has an ok, or a row of the log, has its id in `history`)
and `Asked` (a command in the channel carries an id somebody asked for); from these
each step maps to a step of `GateSpec` or to none.

`DiagnosticLogProofs`: type correctness, `LogIsAQueue`, `OldestFirst`,
`StoredOncePerSession`. The lemmas about `Contents` say what an append, a removal and
a load make of the ring read from its oldest entry, wherever it starts; with
`WrapOnce` the index arithmetic is linear. Over them: `LogIsAQueue`, step by step;
`OrderInv`, for which a reload needs that the flash holds entries in order; and
`SessionInv` (what was published in this session is older than what is in the log,
unless the write behind the array has happened).

`PendingCommandsProofs`: type correctness, `CarriedOutOnce`, `LostOnlyWithPoll`.
`Progress`: a handler that is about to answer holds a document that is no longer
pending, and the handler the device waits for holds none that was carried out.
`Budget`: the commands nobody will carry out, and the handlers nobody waits for
that may still take one, are together no more than the polls given up; this needs
the cardinality theorems of the library.

`SessionsProofs`: type correctness, `DeadSessionStaysDead`, `DeadLinkStaysDead`,
`ActiveHasSession`. Every `todo` list is `Proper`: a call that may leave the fields
without a session is followed by one that mends this, and a call that may end the
request comes last.
From that follow `Mended` (an active device without a session means that somebody
still has a mending call to make) and `IssuedDone` (a request whose token was
handed out, or whose link was mailed, makes no more calls, so it cannot write its
session or link again).

`BrowserProofs` holds the proofs of three modules.

- `ClientSession`: type correctness, `WaitersAreWoken`, `CookieFollowsSession`.
  `FlightInv`: a tab has a promise exactly when one request of its own is under way,
  and free requests belong to nobody, so an answer finds every call it has to wake.
  `CookieInv`, as long as there was no mishap: no request has lost its tab, one
  refresh, login or logout at most has reached the session without its answer, and
  what it was granted is the session or the session has ended since.
- `Terminals`: type correctness, `SessionsAreShells`, `OrphansAreLate`, from
  `WaitingIsKnown`: a socket whose `handleConnection` still waits is open or late.
- `AdminPage`: type correctness, `ShownIsAsked`, `SpinnerIsLoading`,
  `EditsReachTheirUser`, and that it implements `Terminals` (every step of the page is
  a step of the terminals or leaves them alone), so that the theorems of `Terminals`
  hold in it. `ListInv`: while nothing strayed, a load that is the newest is of the
  page's view, and if none is, the list shown is of that view or the page shows an
  error. `ListCases` reduces every step to what it does to the list; `ShowGood`,
  `ReloadGood`, `SilentGood`, `AnswerGood` and `FailGood` are about those. `EditInv`, while
  nothing crossed: documents and rows are their users' own (`RowsOwn`), an open edit
  modal has a selected user and his form (`FormOwn`), and an edit on its way carries
  the form of the user it is for (`HandlersOwn`). Each is kept with the help of another,
  so none is inductive by itself.

`DeviceRecoveryProofs`: type correctness, `NoDanglingModem`, `AttemptIsRunning`. Every
call of `loop()` ends in `After`, so `AfterKeeps` reduces each action to the records the
managers leave behind. `Attempts` relates main.ino and PppManager: an attempt is
started once, and its clock is never ahead of `stateEntryTime`'s, which is why PppManager
never ends one in an iteration that goes on waiting. `Links` relates main.ino
and MqttManager: the modem object while it is in use, and a fail streak that
`MQTT_CONNECTED` raised to its limit, which only a lost connection does.

Only model-checked: liveness (`EveryCallEnds`, `Recovers`, `NeverStuck`,
`EveryCommandFetched`, `ShellEnds`, `LoadingEnds`), as liveness under fairness is out of
the prover's reach, and so are ENABLED and induction over data.

What the properties allow. Some hazards of the code are in the models and no property
forbids them, because no document promises the opposite or because the property
would be false: a failure answer for a gate that opened (the log's insert fails, the
ACK is lost), a request id that stays registered though its insert was reported as
failed, the write behind the array and what it overwrites, a count in flash that does
not fit its entries, two uses of one reset link, a load that answers for another
view. `PROJECT.json` lists them with the reason.

## 5. Order of the work, and what is left

The command path came first (`GateControl`, `GateBackend`, their composition and the
promise), then `Sessions`, then the controller's recovery, log and pending
commands, then the browser, the terminal and the
admin page. Left:

- `PendingCommands` and `DeviceRecovery` composed: the recovery model takes any
   answer to the poll at any time, which is safe but loses who asked for it.

## 6. Not modelled

- Registration and the profile (`auth.service.ts`): they touch no session, no link and
  no status of an existing user.
- The intake of device status: one upsert of the latest message, last writer wins.
- Throttling (the counting is in a library), e-mail, presentation, logging: no state that others depend on.
- The stub device and the MQTT simulator (test doubles), the firmware's proof of
  concept (replaced), deployment scripts and server configuration.

Modelled, but with no property because no document says what should be:

- after a refused refresh `page.tsx:85` pushes `/login` without clearing the user, and
  `NavigationGuard.tsx:44` sends the tab back until it is loaded again;
- `MqttManager.cpp:134` disconnects when the subscription failed. If the answer of that
  is lost, `connected` stays TRUE and the next `connect()` returns at line 85: the device
  stays connected and hears nothing until the session ends (`Recovers` names it);
- two uses of a password reset link that overlap both find it and both set the
  password (`auth.service.ts:452-475`): `DeadLinkStaysDead` is about the stored link;
- the role is read when a terminal connects, and not after; a reconnection uses
  the token of the component's mount;
- a refresh does not read the user's status; the guard of the gate does;
- the edit form saves the status its row had when it was opened, over a newer one;
- a silent refresh of the devices that fails hides the list behind its error, and one
  that succeeds does not show it again: only the button clears the error;
- the out-of-band poll runs in `MQTT_CONNECTED` only, while the comment above it
  (`main.ino:522`) speaks of a device whose MQTT does not work.

Abstracted: the texts of AT responses and log entries; the JSON buffer of a batch,
which ten long entries may fill; `bootSessionId`, taken to differ from boot to boot.
`components` in `PROJECT.json` lists each part with its status and reason.
