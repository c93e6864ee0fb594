--------------------------- MODULE DeviceRecovery ---------------------------
(***************************************************************************)
(* How the gate controller gets online and stays there (src/firmware):     *)
(* loop() in main.ino over ModemManager, PppManager and MqttManager, each  *)
(* a record here, and their operations functions from records to records.  *)
(* One call of loop() is one action.  Timestamps are kept as ages (now -   *)
(* stateEntryTime and so on) that grow by the duration of the iteration    *)
(* and stop at a cap above every limit they are compared with.             *)
(*                                                                         *)
(* The modem, the mobile network and the broker are external: trouble says *)
(* how far up the stack calls may fail, and session is the modem's MQTT    *)
(* session.  What does not steer the machine is left out: logging, AT      *)
(* response texts, the counters retryCount and ipRetry (waitForPppUp       *)
(* returns FALSE with or without them), ready, the commands (GateControl)  *)
(* and the diagnostic log (DiagnosticLog).                                 *)
(***************************************************************************)
EXTENDS Integers

CONSTANTS
    InitTimeout,        \* AT_INIT_TIMEOUT_MS
    InitRetries,        \* MODEM_INIT_MAX_RETRIES
    InitBackoff,        \* MODEM_INIT_BACKOFF_MS
    PowerOnTime,        \* the delays of INIT_POWER_ON
    BootWait,           \* the wait of INIT_WAIT_POWER
    PppTimeout,         \* PPP_TIMEOUT_MS
    PppLimit,           \* PPP_FAILS_BEFORE_MODEM_RESET
    Settle,             \* the pauses of STATE_PPP_UP
    ConnectMax,         \* MQTT_CONNECTING_MAX_MS
    MqttLimit,          \* MQTT_FAILS_BEFORE_PPP_REBUILD
    BackoffBase,        \* BACKOFF_BASE_MS
    BackoffMax,         \* BACKOFF_MAX_MS
    StatusInterval,     \* STATUS_INTERVAL_MS
    OobInterval,        \* OOB_POLL_INTERVAL_MS
    Slow                \* bound: the longest iteration, without the two delays above

ASSUME TimesAssumption ==
    /\ {InitTimeout, InitRetries, InitBackoff, PowerOnTime, BootWait, PppTimeout,
        ConnectMax, StatusInterval, OobInterval, BackoffMax} \subseteq Nat
    /\ {PppLimit, Settle, MqttLimit, BackoffBase, Slow} \subseteq Nat \ {0}
    /\ BackoffBase =< BackoffMax

VARIABLES
    main,               \* the globals and statics of main.ino
    modem,              \* ModemManager
    ppp,                \* PppManager
    mqtt,               \* MqttManager
    session,            \* external: the modem's MQTT session
    trouble,            \* external: 0 healthy, else the highest layer in trouble
    pppFails            \* history: PPP attempts timed out in a row

vars == <<main, modem, ppp, mqtt, session, trouble, pppFails>>

State == {"MODEM_INIT", "PPP_CONNECTING", "PPP_UP", "MQTT_CONNECTING",
          "MQTT_CONNECTED"}
InitStage == {"power_on", "wait_power", "handshake", "echo", "sim", "network",
              "rssi", "complete"}
PppStage == {"init", "registration", "apn", "activate", "get_ip", "connected"}

\* up: connected and subscribed; deaf: connected, not subscribed; half: the
\* broker has dropped it, and the modem does not know yet.
Session == {"none", "half", "deaf", "up"}

\* Layers, each of which needs the ones above it.
Broker == 1
Network == 2
Modem == 3
Power == 4

Larger(S) == CHOOSE x \in S : \A y \in S : y =< x

AgeCap == Larger({InitTimeout, PppTimeout, ConnectMax}) + Slow + PowerOnTime
UpCap == 3 * Settle + 1
Unset == -1             \* pppUpTime = 0

Aged(age, d, cap) == IF age + d > cap THEN cap ELSE age + d

Mains == [state : State, age : 0 .. AgeCap, retries : 0 .. InitRetries,
          force : BOOLEAN, started : BOOLEAN, upAge : Unset .. UpCap,
          setup : BOOLEAN, inited : BOOLEAN, oobAge : 0 .. OobInterval + 1,
          polling : BOOLEAN]
Modems == [stage : InitStage, age : 0 .. AgeCap]
Ppps == [up : BOOLEAN, starting : BOOLEAN, age : 0 .. AgeCap,
         streak : 0 .. PppLimit, stage : PppStage, gsm : BOOLEAN]
Mqtts == [connected : BOOLEAN, streak : 0 .. MqttLimit,
          tried : 0 .. BackoffMax, backoff : BackoffBase .. BackoffMax,
          statusAge : 0 .. StatusInterval, link : {"null", "live", "dangling"}]

-----------------------------------------------------------------------------
(* The outside: what calls return, and how long an iteration takes *)

\* The outcomes S, if they are possible.
When(condition, S) == IF condition THEN S ELSE {}

\* A call that needs this layer may fail; otherwise it succeeds.
Fails(layer) == trouble >= layer

\* modem->mqtt_connected() asks the modem: what it may return.
Reports == {session # "none"} \cup When(Fails(Modem), {FALSE})

\* modem->mqtt_publish() on an open session.
Sent == When(session # "half" \/ Fails(Broker), {TRUE})
        \cup When(session = "half" \/ Fails(Broker), {FALSE})

\* Healthy parts answer within a tick; otherwise calls run into their timeouts.
Duration == IF trouble = 0 THEN {1} ELSE 1 .. Slow

\* The iteration leaves the managers in mn, md, p and q, as of its now; d later
\* the next one starts.  A pointer to a deleted modem object dangles.
\* lastConnectAttempt = 0 (never) is a tried age at its cap: no backoff either.
After(d, mn, md, p, q) ==
    /\ main' = [mn EXCEPT !.age = Aged(@, d, AgeCap),
                          !.upAge = IF @ = Unset THEN @ ELSE Aged(@, d, UpCap),
                          !.oobAge = Aged(@, d, OobInterval + 1)]
    /\ modem' = [md EXCEPT !.age = Aged(@, d, AgeCap)]
    /\ ppp' = [p EXCEPT !.age = Aged(@, d, AgeCap)]
    /\ mqtt' = [q EXCEPT !.tried = Aged(@, d, BackoffMax),
                         !.statusAge = Aged(@, d, StatusInterval),
                         !.link = IF @ = "live" /\ ~p.gsm THEN "dangling" ELSE @]

\* deviceState = s and stateEntryTime = now.
Enter(s) == [main EXCEPT !.state = s, !.age = 0]

-----------------------------------------------------------------------------
(* ModemManager *)

\* powerCycle and hardReset; initStartTime is set again before it is read.
ModemOff == [stage |-> "power_on", age |-> 0]

NextQuery == [sim |-> "network", network |-> "rssi", rssi |-> "complete"]

\* init() returns FALSE: what it may leave the manager in.
InitCalls ==
    When(modem.stage = "power_on", {[stage |-> "wait_power", age |-> 0]})
    \cup When(modem.stage = "wait_power",
              {IF modem.age > BootWait THEN [stage |-> "handshake", age |-> 0]
               ELSE modem})
    \cup When(modem.stage = "handshake", {[modem EXCEPT !.stage = "echo"]})
    \cup When(modem.stage = "handshake" /\ Fails(Modem),
              {IF modem.age > InitTimeout THEN [modem EXCEPT !.stage = "power_on"]
               ELSE modem})
    \cup When(modem.stage = "echo", {[modem EXCEPT !.stage = "sim"]})
    \cup When(modem.stage = "echo" /\ Fails(Modem),
              {[modem EXCEPT !.stage = "power_on"]})
    \cup When(modem.stage \in DOMAIN NextQuery,   \* not critical: continue anyway
              {[modem EXCEPT !.stage = NextQuery[@]]})

-----------------------------------------------------------------------------
(* STATE_MODEM_INIT *)

ModemReady(d) ==
    /\ modem.stage = "complete"
    /\ After(d, [Enter("PPP_CONNECTING") EXCEPT !.retries = 0], modem, ppp, mqtt)
    /\ UNCHANGED <<session, pppFails>>

\* One call of init(), whose first stage resets the modem, and the escalation.
ModemInit(d) ==
    \E md \in InitCalls :
        LET took == d + (IF modem.stage = "power_on" THEN PowerOnTime ELSE 0) IN
        /\ session' = IF modem.stage = "power_on" THEN "none" ELSE session
        /\ UNCHANGED pppFails
        /\ \/ /\ main.age =< InitTimeout
              /\ After(took, main, md, ppp, mqtt)
           \/ /\ main.age > InitTimeout /\ main.retries < InitRetries
              /\ After(took, [main EXCEPT !.retries = @ + 1, !.age = 0],
                       ModemOff, ppp, mqtt)
           \/ /\ main.age > InitTimeout /\ main.retries >= InitRetries
              /\ After(took + InitBackoff,    \* stateEntryTime: after the delay
                       [main EXCEPT !.retries = 0, !.age = -InitBackoff - took + d],
                       md, ppp, mqtt)

-----------------------------------------------------------------------------
(* PppManager and STATE_PPP_CONNECTING *)

ShouldHardReset(p) == p.streak >= PppLimit
IncrementFailStreak(p) == [p EXCEPT !.streak = @ + 1]

\* Neither new nor getSerial() returns a null pointer: it cannot fail.
InitializeTinyGsm(p) == [p EXCEPT !.gsm = TRUE]

PppStart(p) ==
    IF p.starting \/ p.up THEN p
    ELSE [InitializeTinyGsm(p) EXCEPT !.stage = "init", !.starting = TRUE, !.age = 0]

\* stop() deletes the TinyGsm object.
PppStop(p) ==
    IF p.starting \/ p.up
    THEN [p EXCEPT !.up = FALSE, !.starting = FALSE, !.gsm = FALSE, !.stage = "init"]
    ELSE p

NextPppStage == [init |-> "registration", registration |-> "apn",
                 apn |-> "activate", activate |-> "get_ip"]
PppNeeds == [init |-> Power, registration |-> Network, apn |-> Modem,
             activate |-> Network, get_ip |-> Network, connected |-> Power]

\* waitForPppUp returns FALSE: what it may leave the manager in.
PppWaits(p) ==
    LET waits == ~p.up /\ p.starting /\ p.gsm
        late == p.age > PppTimeout IN
    When(~p.up /\ ~(p.starting /\ p.gsm), {p})
    \cup When(waits /\ late, {IncrementFailStreak(PppStop(p))})
    \cup When(waits /\ ~late /\ p.stage \in DOMAIN NextPppStage,
              {[p EXCEPT !.stage = NextPppStage[@]]})
    \cup When(waits /\ ~late /\ Fails(PppNeeds[p.stage]), {p})

\* waitForPppUp returns TRUE.
PppComesUp(p) ==
    When(p.up, {p})
    \cup When(~p.up /\ p.starting /\ p.gsm /\ p.age =< PppTimeout /\ p.stage = "get_ip",
              {[p EXCEPT !.stage = "connected", !.up = TRUE, !.starting = FALSE]})

MustStart == main.force \/ ~main.started

PppStarted == IF MustStart THEN PppStart(ppp) ELSE ppp

\* start() returns pppUp when it has nothing to do.
StartedFlag == ~MustStart \/ ~ppp.starting

PppUp(d) ==
    \E p \in PppComesUp(PppStarted) :
        /\ After(d, [main EXCEPT !.state = "PPP_UP", !.force = FALSE,
                                 !.started = FALSE],
                 modem, [p EXCEPT !.streak = 0], mqtt)
        /\ pppFails' = 0
        /\ UNCHANGED session

PppWait(d) ==
    \E p \in PppWaits(PppStarted) :
        /\ main.age =< PppTimeout
        /\ After(d, [main EXCEPT !.force = FALSE, !.started = StartedFlag],
                 modem, p, mqtt)
        /\ UNCHANGED <<session, pppFails>>

\* Mutant of PppTimesOut: pppStarted is not reset.
PppTimesOutKeepsFlag(d) ==
    \E p \in PppWaits(PppStarted) :
        LET reset == ShouldHardReset(p) IN
        /\ main.age > PppTimeout
        /\ After(d, [Enter(IF reset THEN "MODEM_INIT" ELSE "PPP_CONNECTING")
                        EXCEPT !.force = FALSE, !.started = StartedFlag],
                 IF reset THEN ModemOff ELSE modem,
                 [PppStop(p) EXCEPT !.streak = IF reset THEN 0 ELSE @], mqtt)
        /\ pppFails' = IF reset THEN 0 ELSE Aged(pppFails, 1, PppLimit)
        /\ session' = IF reset THEN "none" ELSE session

PppTimesOut(d) ==
    \E p \in PppWaits(PppStarted) :
        LET reset == ShouldHardReset(p) IN
        /\ main.age > PppTimeout
        /\ After(d, [Enter(IF reset THEN "MODEM_INIT" ELSE "PPP_CONNECTING")
                        EXCEPT !.force = FALSE, !.started = FALSE],
                 IF reset THEN ModemOff ELSE modem,
                 [PppStop(p) EXCEPT !.streak = IF reset THEN 0 ELSE @], mqtt)
        /\ pppFails' = IF reset THEN 0 ELSE Aged(pppFails, 1, PppLimit)
        /\ session' = IF reset THEN "none" ELSE session

-----------------------------------------------------------------------------
(* STATE_PPP_UP *)

\* Mutant of PppSettles: mqttSetup is not reset on the way out.
PppSettlesOnce(d) ==
    LET up == IF main.upAge = Unset THEN 0 ELSE main.upAge
        link == IF ~main.setup /\ up > Settle
                THEN IF ppp.gsm THEN "live" ELSE "null"
                ELSE mqtt.link
        setup == main.setup \/ up > Settle
        inited == main.inited \/ (setup /\ up > 2 * Settle /\ link # "null")
        next == IF inited /\ up > 3 * Settle
                THEN [Enter("MQTT_CONNECTING") EXCEPT !.upAge = Unset,
                                                      !.setup = TRUE, !.inited = FALSE]
                ELSE [main EXCEPT !.upAge = up, !.setup = setup, !.inited = inited]
    IN /\ After(d, next, modem, ppp, [mqtt EXCEPT !.link = link])
       /\ UNCHANGED <<session, pppFails>>

\* Mutant of PppSettles: setPppManager is not called.
PppSettlesUnlinked(d) ==
    LET up == IF main.upAge = Unset THEN 0 ELSE main.upAge
        setup == main.setup \/ up > Settle
        inited == main.inited \/ (setup /\ up > 2 * Settle /\ mqtt.link # "null")
        next == IF inited /\ up > 3 * Settle
                THEN [Enter("MQTT_CONNECTING") EXCEPT !.upAge = Unset,
                                                      !.setup = FALSE, !.inited = FALSE]
                ELSE [main EXCEPT !.upAge = up, !.setup = setup, !.inited = inited]
    IN /\ After(d, next, modem, ppp, mqtt)
       /\ UNCHANGED <<session, pppFails>>

\* Three pauses: link to the new modem object, start its MQTT client, go on.
PppSettles(d) ==
    LET up == IF main.upAge = Unset THEN 0 ELSE main.upAge
        link == IF ~main.setup /\ up > Settle
                THEN IF ppp.gsm THEN "live" ELSE "null"
                ELSE mqtt.link
        setup == main.setup \/ up > Settle
        inited == main.inited \/ (setup /\ up > 2 * Settle /\ link # "null")
        next == IF inited /\ up > 3 * Settle
                THEN [Enter("MQTT_CONNECTING") EXCEPT !.upAge = Unset,
                                                      !.setup = FALSE, !.inited = FALSE]
                ELSE [main EXCEPT !.upAge = up, !.setup = setup, !.inited = inited]
    IN /\ After(d, next, modem, ppp, [mqtt EXCEPT !.link = link])
       /\ UNCHANGED <<session, pppFails>>

-----------------------------------------------------------------------------
(* MqttManager and STATE_MQTT_CONNECTING *)

Disconnected(q) ==
    IF q.connected /\ q.link # "null" THEN [q EXCEPT !.connected = FALSE] ELSE q

\* incrementFailStreak and Backoff::increment.
Failed(q) ==
    [q EXCEPT !.streak = @ + 1,
              !.backoff = IF 2 * @ > BackoffMax THEN BackoffMax ELSE 2 * @,
              !.tried = 0]

\* The escalation from MQTT to PPP, also an out-of-band command: disconnect,
\* stop PPP, which ends the session if the modem answers, and start it afresh.
Rebuild(d, mn, q) ==
    /\ After(d, [mn EXCEPT !.state = "PPP_CONNECTING", !.age = 0, !.force = TRUE],
             modem, PppStop(ppp), [Disconnected(q) EXCEPT !.streak = 0])
    /\ session' \in {"none"} \cup When(Fails(Modem), {session})
    /\ UNCHANGED pppFails

ShouldRebuildPpp == mqtt.streak >= MqttLimit

\* Mutant of GiveUpMqtt: the limit of the streak is not looked at.
GiveUpMqttByTime == main.age > ConnectMax

\* MQTT_CONNECTING_MAX_MS is over, or shouldRebuildPpp().
GiveUpMqtt == main.age > ConnectMax \/ ShouldRebuildPpp

MqttConnected(d, q) ==
    /\ After(d, Enter("MQTT_CONNECTED"), modem, ppp, q) /\ UNCHANGED pppFails

\* connect() returns TRUE at once: the session never went away.
AlreadyConnected(d) ==
    /\ mqtt.connected /\ mqtt.link # "null" /\ TRUE \in Reports
    /\ MqttConnected(d, mqtt) /\ UNCHANGED session

MayConnect == ~mqtt.connected \/ mqtt.link = "null" \/ FALSE \in Reports

WaitBackoff(d) ==
    /\ MayConnect /\ mqtt.tried < mqtt.backoff
    /\ After(d, main, modem, ppp, mqtt) /\ UNCHANGED <<session, pppFails>>

Attempt == MayConnect /\ mqtt.tried >= mqtt.backoff

ConnectSucceeds(d) ==
    /\ Attempt /\ mqtt.link # "null"
    /\ session' = "up"
    /\ MqttConnected(d, [mqtt EXCEPT !.connected = TRUE, !.streak = 0,
                                     !.backoff = BackoffBase, !.tried = 0])

\* The broker does not accept the connection, or its answer is lost.
ConnectFails(d) ==
    /\ Attempt /\ (mqtt.link = "null" \/ Fails(Broker))
    /\ After(d, main, modem, ppp, [Failed(mqtt) EXCEPT !.connected =
                                       IF mqtt.link = "null" THEN @ ELSE FALSE])
    /\ session' \in {"none"} \cup When(Fails(Modem), {session, "deaf"})
    /\ UNCHANGED pppFails

\* connected keeps its value; the answer of mqtt_disconnect() is not looked at.
SubscribeFails(d) ==
    /\ Attempt /\ mqtt.link # "null" /\ Fails(Broker)
    /\ After(d, main, modem, ppp, Failed(mqtt))
    /\ session' \in {"none"} \cup When(Fails(Modem), {"deaf"})
    /\ UNCHANGED pppFails

MqttConnecting(d) ==
    IF GiveUpMqtt THEN Rebuild(d, main, mqtt)
    ELSE \/ AlreadyConnected(d) \/ WaitBackoff(d)
         \/ ConnectSucceeds(d) \/ ConnectFails(d) \/ SubscribeFails(d)

-----------------------------------------------------------------------------
(* STATE_MQTT_CONNECTED *)

\* mqttManager->loop(): what it may leave the manager in.  It has run before a
\* poll was sent.
Handled ==
    LET asks == mqtt.connected /\ mqtt.link # "null" /\ ~main.polling IN
    When(asks => TRUE \in Reports, {mqtt})
    \cup When(asks /\ FALSE \in Reports,
              {[mqtt EXCEPT !.connected = FALSE, !.streak = @ + 1]})

\* What isConnected() may return.
IsConnected(q) ==
    IF q.connected /\ q.link # "null" THEN Reports ELSE {q.connected}

\* publishStatus(): what it may leave the manager in.  publish() asks again.
StatusPublished(q) ==
    When(FALSE \in IsConnected(q) \/ q.statusAge < StatusInterval, {q})
    \cup When(TRUE \in IsConnected(q) /\ q.statusAge >= StatusInterval,
              {[q EXCEPT !.statusAge = 0, !.connected = ok] :
                   ok \in Sent \cup (IsConnected(q) \ {TRUE})})

OobDue == main.oobAge > OobInterval

\* The poll is sent; loop() waits for the answer.
OobAsk ==
    /\ main.state = "MQTT_CONNECTED" /\ ~main.polling /\ OobDue /\ ppp.gsm
    /\ mqtt' \in Handled
    /\ main' = [main EXCEPT !.oobAge = 0, !.polling = TRUE]
    /\ UNCHANGED <<modem, ppp, session, trouble, pppFails>>

\* Mutant of MqttWorks: a lost session is not noticed.
MqttWorksBlindly(d) ==
    LET mn == [main EXCEPT !.polling = FALSE, !.oobAge = IF OobDue THEN 0 ELSE @] IN
    /\ main.polling \/ ~OobDue \/ ~ppp.gsm \/ Fails(Modem)
    /\ \E q0 \in Handled : \E q \in StatusPublished(q0) : After(d, mn, modem, ppp, q)
    /\ UNCHANGED <<session, pppFails>>

\* No poll is due, none can be sent (https_set_url), or the answer is no command:
\* publish the status, look at the session.
MqttWorks(d) ==
    LET mn == [main EXCEPT !.polling = FALSE, !.oobAge = IF OobDue THEN 0 ELSE @] IN
    /\ main.polling \/ ~OobDue \/ ~ppp.gsm \/ Fails(Modem)
    /\ \E q0 \in Handled : \E q \in StatusPublished(q0) : \E up \in IsConnected(q) :
           After(d, IF up THEN mn
                    ELSE [mn EXCEPT !.state = "MQTT_CONNECTING", !.age = 0],
                 modem, ppp, q)
    /\ UNCHANGED <<session, pppFails>>

\* Status 206.
OobRebuild(d) == main.polling /\ Rebuild(d, [main EXCEPT !.polling = FALSE], mqtt)

Booted ==
    [main |-> [state |-> "MODEM_INIT", age |-> 0, retries |-> 0, force |-> FALSE,
               started |-> FALSE, upAge |-> Unset, setup |-> FALSE,
               inited |-> FALSE, oobAge |-> 0, polling |-> FALSE],
     ppp |-> [up |-> FALSE, starting |-> FALSE, age |-> 0, streak |-> 0,
              stage |-> "init", gsm |-> FALSE],
     mqtt |-> [connected |-> FALSE, streak |-> 0, tried |-> BackoffMax,
               backoff |-> BackoffBase, statusAge |-> 0, link |-> "null"]]

\* The constructors and setup(); the modem goes on with what it was doing.
Boot ==
    /\ main' = Booted.main /\ modem' = ModemOff
    /\ ppp' = Booted.ppp /\ mqtt' = Booted.mqtt
    /\ pppFails' = 0
    /\ UNCHANGED <<session, trouble>>

\* Status 205: esp_restart().
OobReboot == main.polling /\ Boot

-----------------------------------------------------------------------------
(* loop(), and what happens around it *)

Iteration(d) ==
    \/ main.state = "MODEM_INIT" /\ (ModemReady(d) \/ ModemInit(d))
    \/ main.state = "PPP_CONNECTING" /\ (PppUp(d) \/ PppWait(d) \/ PppTimesOut(d))
    \/ main.state = "PPP_UP" /\ PppSettles(d)
    \/ main.state = "MQTT_CONNECTING" /\ MqttConnecting(d)
    \/ main.state = "MQTT_CONNECTED" /\ (MqttWorks(d) \/ OobRebuild(d))

Loop ==
    \/ (\E d \in Duration : Iteration(d)) /\ UNCHANGED trouble
    \/ OobAsk \/ OobReboot

PowerCut == Fails(Power) /\ Boot

TroubleChanges ==
    /\ trouble' \in 0 .. Power /\ trouble' # trouble
    /\ UNCHANGED <<main, modem, ppp, mqtt, session, pppFails>>

\* The broker drops the session, which the modem notices at once or later.
SessionDrops ==
    /\ \/ session \in {"up", "deaf"} /\ Fails(Broker) /\ session' \in {"half", "none"}
       \/ session = "half" /\ session' = "none"
    /\ UNCHANGED <<main, modem, ppp, mqtt, trouble, pppFails>>

Init ==
    /\ main = Booted.main /\ modem = ModemOff
    /\ ppp = Booted.ppp /\ mqtt = Booted.mqtt
    /\ session = "none" /\ trouble \in 0 .. Power /\ pppFails = 0

Next == Loop \/ PowerCut \/ TroubleChanges \/ SessionDrops

Spec == Init /\ [][Next]_vars

\* loop() is called again and again.
FairSpec == Spec /\ WF_vars(Loop)

-----------------------------------------------------------------------------
(* Properties *)

TypeOK ==
    /\ main \in Mains /\ modem \in Modems /\ ppp \in Ppps /\ mqtt \in Mqtts
    /\ session \in Session /\ trouble \in 0 .. Power /\ pppFails \in 0 .. PppLimit

\* stop() deletes the TinyGsm object that MqttManager points to until the next
\* setPppManager(): no state in which MqttManager is used has a stale pointer,
\* and PPP_UP, which nothing but a working modem object leaves, has an object.
NoDanglingModem ==
    /\ (main.setup \/ main.state \in {"MQTT_CONNECTING", "MQTT_CONNECTED"})
           => mqtt.link = "live"
    /\ mqtt.connected => mqtt.link = "live"
    /\ main.state = "PPP_UP" => ppp.gsm

\* forcePppRestart and the static pppStarted tell one iteration what another
\* one did.  While PPP_CONNECTING waits for an attempt there is one, although
\* PppManager may end it on a clock of its own, and no failure count that
\* reached its limit waits unseen.
AttemptIsRunning ==
    main.state = "PPP_CONNECTING" =>
        /\ main.started /\ ~main.force => ppp.starting /\ ppp.gsm
        /\ ppp.streak < PppLimit

\* When nothing is in trouble any more the device gets back to MQTT_CONNECTED and
\* hears commands, from whatever state of its managers and of the modem the trouble
\* left behind but one: if the subscription failed while connected was still TRUE
\* and the answer of mqtt_disconnect() is lost, connect() takes the session that is
\* left for a working one (SubscribeFails, AlreadyConnected), and the device may
\* stay in MQTT_CONNECTED without hearing a command.
Recovers ==
    <>[](trouble = 0) =>
        \/ []<>(main.state = "MQTT_CONNECTED" /\ session = "up")
        \/ <>[](main.state = "MQTT_CONNECTED" /\ session = "deaf")

\* "if we sit in MQTT_CONNECTING too long, force PPP rebuild" (config.h): no
\* trouble keeps the device in a state that has no way back to PPP.
NeverStuck ==
    /\ []<>(main.state # "MQTT_CONNECTING")
    /\ []<>(main.state # "PPP_UP")

\* "On PPP failure, increment failure streak; after PPP_FAILS_BEFORE_MODEM_RESET
\* failures, hard reset modem" (firmware/README.md).
HardResetAfterFailures == pppFails < PppLimit
=============================================================================
