------------------------ MODULE DeviceRecoveryProofs ------------------------
(***************************************************************************)
(* Type correctness and the two invariants of DeviceRecovery, for every    *)
(* value of the timeouts, limits and intervals.                            *)
(*                                                                         *)
(* Every call of loop() ends in After, so the proof looks at the records   *)
(* the managers leave behind: they have their types and agree with each    *)
(* other (LEMMA AfterKeeps), action by action.                             *)
(***************************************************************************)
EXTENDS DeviceRecovery, TLAPS

Online == {"MQTT_CONNECTING", "MQTT_CONNECTED"}

\* What main.ino and PppManager know of an attempt: it is started once, and its
\* clock (pppStartTime) is never ahead of stateEntryTime's.
Attempts(mn, p) ==
    /\ mn.started \/ mn.force => mn.state = "PPP_CONNECTING"
    /\ mn.force \/ ~mn.started => ~p.starting
    /\ mn.started /\ ~mn.force => p.starting /\ p.age =< mn.age
    /\ p.up \/ p.starting => p.gsm
    /\ ~(p.up /\ p.starting)
    /\ mn.state \in {"PPP_UP"} \cup Online => p.gsm
    /\ p.streak < PppLimit

\* What main.ino and MqttManager know of the modem object, and how a fail streak
\* at its limit is on its way to be seen.
Links(mn, q) ==
    /\ mn.setup => mn.state = "PPP_UP" /\ q.link = "live"
    /\ mn.inited => mn.setup
    /\ mn.state \in Online => q.link = "live"
    /\ q.connected => mn.state \in Online
    /\ mn.polling => mn.state = "MQTT_CONNECTED"
    /\ mn.state = "MQTT_CONNECTED" /\ (~mn.polling \/ q.connected)
           => q.streak < MqttLimit

IInv == TypeOK /\ Attempts(main, ppp) /\ Links(main, mqtt)

\* Before After adds the duration of the iteration, an age may be any number.
MainsNow == [state : State, age : Int, retries : 0 .. InitRetries,
             force : BOOLEAN, started : BOOLEAN, upAge : Unset .. UpCap,
             setup : BOOLEAN, inited : BOOLEAN, oobAge : 0 .. OobInterval + 1,
             polling : BOOLEAN]

-----------------------------------------------------------------------------
(* After *)

\* The caps of the ages are numbers.
LEMMA Caps == AgeCap \in Nat /\ UpCap \in Nat
<1> DEFINE S == {InitTimeout, PppTimeout, ConnectMax}
<1>1. \E x \in S : \A y \in S : y =< x
  BY TimesAssumption
<1>2. Larger(S) \in S
  BY <1>1 DEF Larger
<1>3. QED
  BY <1>2, TimesAssumption DEF AgeCap, UpCap

\* Records that have their types and agree still do when the iteration is over.
LEMMA AfterKeeps ==
    ASSUME NEW d \in Nat, NEW mn \in MainsNow, NEW md \in Modems,
           NEW p \in Ppps, NEW q \in Mqtts,
           mn.age + d >= 0, Attempts(mn, p), Links(mn, q), After(d, mn, md, p, q),
           session' \in Session, trouble' \in 0 .. Power, pppFails' \in 0 .. PppLimit
    PROVE  IInv'
<1> DEFINE ma == Aged(mn.age, d, AgeCap)
           ua == IF mn.upAge = Unset THEN Unset ELSE Aged(mn.upAge, d, UpCap)
           oa == Aged(mn.oobAge, d, OobInterval + 1)
           pa == Aged(p.age, d, AgeCap)
           qt == Aged(q.tried, d, BackoffMax)
           qs == Aged(q.statusAge, d, StatusInterval)
           ql == IF q.link = "live" /\ ~p.gsm THEN "dangling" ELSE q.link
<1>1. /\ main' = [mn EXCEPT !.age = ma, !.upAge = ua, !.oobAge = oa]
      /\ modem' = [md EXCEPT !.age = Aged(md.age, d, AgeCap)]
      /\ ppp' = [p EXCEPT !.age = pa]
      /\ mqtt' = [q EXCEPT !.tried = qt, !.statusAge = qs, !.link = ql]
  BY DEF After
<1>2. ma \in 0 .. AgeCap /\ pa \in 0 .. AgeCap /\ Aged(md.age, d, AgeCap) \in 0 .. AgeCap
  BY Caps DEF Aged, MainsNow, Ppps, Modems
<1>3. ua \in Unset .. UpCap
  BY Caps DEF Aged, MainsNow, Unset
<1>4. oa \in 0 .. OobInterval + 1
  BY TimesAssumption DEF Aged, MainsNow
<1>5. qt \in 0 .. BackoffMax /\ qs \in 0 .. StatusInterval
  BY TimesAssumption DEF Aged, Mqtts
<1>6. ql \in {"null", "live", "dangling"}
  BY DEF Mqtts
<1>7. p.age =< mn.age => pa =< ma
  BY Caps DEF Aged, MainsNow, Ppps
<1> HIDE DEF ma, ua, oa, pa, qt, qs
<1>8. main' \in Mains
  BY <1>1, <1>2, <1>3, <1>4 DEF MainsNow, Mains
<1>9. modem' \in Modems /\ ppp' \in Ppps /\ mqtt' \in Mqtts
  BY <1>1, <1>2, <1>5, <1>6 DEF Modems, Ppps, Mqtts
<1>10. Attempts(main', ppp')
  <2>1. /\ main'.state = mn.state /\ main'.started = mn.started
        /\ main'.force = mn.force /\ main'.age = ma
    BY <1>1 DEF MainsNow
  <2>2. /\ ppp'.up = p.up /\ ppp'.starting = p.starting /\ ppp'.gsm = p.gsm
        /\ ppp'.streak = p.streak /\ ppp'.age = pa
    BY <1>1 DEF Ppps
  <2>3. QED
    BY <2>1, <2>2, <1>7 DEF Attempts
<1>11. Links(main', mqtt')
  <2>1. /\ main'.state = mn.state /\ main'.setup = mn.setup
        /\ main'.inited = mn.inited /\ main'.polling = mn.polling
    BY <1>1 DEF MainsNow
  <2>2. mqtt'.connected = q.connected /\ mqtt'.streak = q.streak /\ mqtt'.link = ql
    BY <1>1 DEF Mqtts
  <2>3. mn.state \in {"PPP_UP"} \cup Online => ql = q.link
    BY DEF Attempts
  <2>4. QED
    BY <2>1, <2>2, <2>3 DEF Links
<1>12. QED
  BY <1>8, <1>9, <1>10, <1>11 DEF IInv, TypeOK

\* After leaves the next iteration a Duration that is a number.
LEMMA Durations == ASSUME NEW d \in Duration PROVE d \in Nat
  BY TimesAssumption DEF Duration

\* stateEntryTime starts with the state.
LEMMA EnterIs ==
    ASSUME IInv, NEW s \in State
    PROVE  /\ Enter(s) \in Mains /\ Enter(s).state = s /\ Enter(s).age = 0
           /\ Enter(s).started = main.started /\ Enter(s).force = main.force
           /\ Enter(s).setup = main.setup /\ Enter(s).inited = main.inited
           /\ Enter(s).polling = main.polling /\ Enter(s).upAge = main.upAge
<1>1. main \in Mains /\ 0 \in 0 .. AgeCap
  BY Caps DEF IInv, TypeOK
<1>2. Enter(s) = [main EXCEPT !.state = s, !.age = 0]
  BY DEF Enter
<1>3. QED
  BY <1>1, <1>2 DEF Mains

LEMMA MainsAreNow == ASSUME NEW mn \in Mains PROVE mn \in MainsNow /\ mn.age >= 0
  BY Caps DEF Mains, MainsNow

-----------------------------------------------------------------------------
(* STATE_MODEM_INIT *)

LEMMA ModemOffType == ModemOff \in Modems
  BY Caps DEF ModemOff, Modems, InitStage

LEMMA InitCallsType == ASSUME IInv, NEW md \in InitCalls PROVE md \in Modems
<1>1. modem \in Modems
  BY DEF IInv, TypeOK
<1>2. \A s \in {"wait_power", "handshake"} : [stage |-> s, age |-> 0] \in Modems
  BY Caps DEF Modems, InitStage
<1>3. \A s \in InitStage : [modem EXCEPT !.stage = s] \in Modems
  BY <1>1 DEF Modems
<1>4. modem.stage \in DOMAIN NextQuery => NextQuery[modem.stage] \in InitStage
  BY DEF NextQuery, InitStage
<1>5. \/ md = modem
      \/ \E s \in {"wait_power", "handshake"} : md = [stage |-> s, age |-> 0]
      \/ \E s \in InitStage : md = [modem EXCEPT !.stage = s]
  BY <1>4 DEF InitCalls, When, InitStage
<1>6. QED
  BY <1>1, <1>2, <1>3, <1>5

LEMMA ModemReadyStep ==
    ASSUME IInv, NEW d \in Nat, main.state = "MODEM_INIT", ModemReady(d),
           trouble' = trouble
    PROVE  IInv'
<1> DEFINE mn == [Enter("PPP_CONNECTING") EXCEPT !.retries = 0]
<1>1. After(d, mn, modem, ppp, mqtt) /\ session' = session /\ pppFails' = pppFails
  BY DEF ModemReady
<1>2. /\ mn \in Mains /\ mn.state = "PPP_CONNECTING" /\ mn.age = 0
      /\ mn.started = main.started /\ mn.force = main.force
      /\ mn.setup = main.setup /\ mn.inited = main.inited /\ mn.polling = main.polling
  <2> DEFINE e == Enter("PPP_CONNECTING")
  <2>1. /\ e \in Mains /\ e.state = "PPP_CONNECTING" /\ e.age = 0
        /\ e.started = main.started /\ e.force = main.force
        /\ e.setup = main.setup /\ e.inited = main.inited /\ e.polling = main.polling
    BY EnterIs DEF State
  <2>2. mn = [e EXCEPT !.retries = 0]
    OBVIOUS
  <2>3. 0 \in 0 .. InitRetries
    BY TimesAssumption
  <2> HIDE DEF e, mn
  <2>4. QED
    BY <2>1, <2>2, <2>3 DEF Mains
<1> HIDE DEF mn
<1>3. Attempts(mn, ppp) /\ Links(mn, mqtt)
  BY <1>2 DEF IInv, Attempts, Links, Online
<1>4. QED
  BY <1>1, <1>2, <1>3, AfterKeeps, MainsAreNow DEF IInv, TypeOK

LEMMA ModemInitStep ==
    ASSUME IInv, NEW d \in Nat, main.state = "MODEM_INIT", ModemInit(d),
           trouble' = trouble
    PROVE  IInv'
<1>1. PICK md \in InitCalls : ModemInit(d)!(md)
  BY DEF ModemInit
<1> DEFINE took == d + (IF modem.stage = "power_on" THEN PowerOnTime ELSE 0)
<1>2. took \in Nat /\ took - d >= 0 /\ InitBackoff \in Nat
  BY TimesAssumption
<1>3. session' \in Session /\ pppFails' \in 0 .. PppLimit /\ trouble' \in 0 .. Power
  BY <1>1 DEF IInv, TypeOK, Session
<1>4. \/ After(took, main, md, ppp, mqtt)
      \/ main.retries < InitRetries
         /\ After(took, [main EXCEPT !.retries = @ + 1, !.age = 0], ModemOff, ppp, mqtt)
      \/ After(took + InitBackoff,
               [main EXCEPT !.retries = 0, !.age = -InitBackoff - took + d],
               md, ppp, mqtt)
  BY <1>1
<1>5. md \in Modems /\ ModemOff \in Modems /\ ppp \in Ppps /\ mqtt \in Mqtts
  BY InitCallsType, ModemOffType DEF IInv, TypeOK
<1>6. ASSUME NEW mn \in MainsNow, mn.state = main.state, mn.started = main.started,
             mn.force = main.force, mn.setup = main.setup, mn.inited = main.inited,
             mn.polling = main.polling
      PROVE  Attempts(mn, ppp) /\ Links(mn, mqtt)
  BY <1>6 DEF IInv, Attempts, Links
<1>7. main \in MainsNow /\ main.age >= 0
  BY MainsAreNow DEF IInv, TypeOK
<1> HIDE DEF took
<1>8. CASE After(took, main, md, ppp, mqtt)
  <2>1. Attempts(main, ppp) /\ Links(main, mqtt) /\ main.age + took >= 0
    BY <1>2, <1>7 DEF IInv, MainsNow
  <2>2. QED
    BY <1>2, <1>3, <1>5, <1>7, <1>8, <2>1, AfterKeeps
<1>9. CASE main.retries < InitRetries
           /\ After(took, [main EXCEPT !.retries = @ + 1, !.age = 0], ModemOff, ppp, mqtt)
  <2> DEFINE mn == [main EXCEPT !.retries = @ + 1, !.age = 0]
  <2>1. mn \in MainsNow /\ mn.age = 0
        /\ mn.state = main.state /\ mn.started = main.started /\ mn.force = main.force
        /\ mn.setup = main.setup /\ mn.inited = main.inited /\ mn.polling = main.polling
    <3> DEFINE n == main.retries + 1
    <3>1. n \in 0 .. InitRetries /\ 0 \in Int
      BY <1>7, <1>9, TimesAssumption DEF MainsNow
    <3> HIDE DEF n
    <3>2. [main EXCEPT !.retries = n, !.age = 0] \in MainsNow
      BY <1>7, <3>1 DEF MainsNow
    <3>3. QED
      BY <1>7, <3>1, <3>2 DEF MainsNow, n
  <2> HIDE DEF mn
  <2>2. After(took, mn, ModemOff, ppp, mqtt)
    BY <1>9 DEF mn
  <2>3. QED
    BY <1>2, <1>3, <1>5, <1>6, <2>1, <2>2, AfterKeeps
<1>10. CASE After(took + InitBackoff,
                  [main EXCEPT !.retries = 0, !.age = -InitBackoff - took + d],
                  md, ppp, mqtt)
  <2> DEFINE mn == [main EXCEPT !.retries = 0, !.age = -InitBackoff - took + d]
             wait == took + InitBackoff
  <2>1. mn \in MainsNow /\ mn.age = -InitBackoff - took + d
        /\ mn.state = main.state /\ mn.started = main.started /\ mn.force = main.force
        /\ mn.setup = main.setup /\ mn.inited = main.inited /\ mn.polling = main.polling
    <3>1. 0 \in 0 .. InitRetries /\ -InitBackoff - took + d \in Int
      BY <1>2, TimesAssumption
    <3>2. QED
      BY <1>7, <3>1 DEF MainsNow
  <2>2. wait \in Nat /\ mn.age + wait >= 0
    BY <1>2, <2>1
  <2>3. After(wait, mn, md, ppp, mqtt)
    BY <1>10
  <2> HIDE DEF mn, wait
  <2>4. QED
    BY <1>2, <1>3, <1>5, <1>6, <2>1, <2>2, <2>3, AfterKeeps
<1>11. QED
  BY <1>4, <1>8, <1>9, <1>10

-----------------------------------------------------------------------------
(* STATE_PPP_CONNECTING *)

LEMMA PppStartIs ==
    ASSUME NEW p \in Ppps
    PROVE  /\ PppStart(p) \in Ppps /\ PppStart(p).streak = p.streak
           /\ p.starting \/ p.up => PppStart(p) = p
           /\ ~(p.starting \/ p.up) =>
                  /\ PppStart(p).starting /\ ~PppStart(p).up
                  /\ PppStart(p).gsm /\ PppStart(p).age = 0
<1>1. CASE p.starting \/ p.up
  BY <1>1 DEF PppStart
<1>2. CASE ~(p.starting \/ p.up)
  <2> DEFINE g == InitializeTinyGsm(p)
  <2>1. g \in Ppps /\ g.streak = p.streak /\ g.gsm /\ g.up = p.up
    BY DEF InitializeTinyGsm, Ppps
  <2>2. PppStart(p) = [g EXCEPT !.stage = "init", !.starting = TRUE, !.age = 0]
    BY <1>2 DEF PppStart
  <2>3. "init" \in PppStage /\ 0 \in 0 .. AgeCap /\ TRUE \in BOOLEAN
    BY Caps DEF PppStage
  <2> HIDE DEF g
  <2>4. PppStart(p) \in Ppps
    BY <2>1, <2>2, <2>3 DEF Ppps
  <2>5. QED
    BY <1>2, <2>1, <2>2, <2>4 DEF Ppps
<1>3. QED
  BY <1>1, <1>2

LEMMA PppStopIs ==
    ASSUME NEW p \in Ppps
    PROVE  /\ PppStop(p) \in Ppps /\ PppStop(p).streak = p.streak
           /\ PppStop(p).age = p.age
           /\ ~PppStop(p).up /\ ~PppStop(p).starting
<1>1. CASE p.starting \/ p.up
  <2>1. PppStop(p) = [p EXCEPT !.up = FALSE, !.starting = FALSE, !.gsm = FALSE,
                               !.stage = "init"]
    BY <1>1 DEF PppStop
  <2>2. "init" \in PppStage /\ FALSE \in BOOLEAN
    BY DEF PppStage
  <2>3. PppStop(p) \in Ppps
    BY <2>1, <2>2 DEF Ppps
  <2>4. QED
    BY <2>1, <2>3 DEF Ppps
<1>2. CASE ~(p.starting \/ p.up)
  BY <1>2 DEF PppStop
<1>3. QED
  BY <1>1, <1>2

\* waitForPppUp counts a failure only when its own clock has run out, and leaves
\* the attempt running otherwise.
LEMMA PppWaitsIs ==
    ASSUME NEW s \in Ppps, s.streak < PppLimit, s.starting, s.gsm,
           NEW p \in PppWaits(s)
    PROVE  /\ p \in Ppps /\ ~p.up /\ p.age = s.age
           /\ s.age =< PppTimeout => p.starting /\ p.gsm /\ p.streak = s.streak
<1>1. ~s.up
  BY DEF PppWaits, When
<1>2. \/ p = s
      \/ s.age > PppTimeout /\ p = IncrementFailStreak(PppStop(s))
      \/ s.stage \in DOMAIN NextPppStage /\ p = [s EXCEPT !.stage = NextPppStage[@]]
  BY DEF PppWaits, When
<1>3. CASE p = s
  BY <1>1, <1>3
<1>4. CASE s.age > PppTimeout /\ p = IncrementFailStreak(PppStop(s))
  <2> DEFINE t == PppStop(s)
             n == t.streak + 1
  <2>1. t \in Ppps /\ t.streak = s.streak /\ t.age = s.age /\ ~t.up
    BY PppStopIs
  <2>2. n \in 0 .. PppLimit
    BY <2>1, TimesAssumption DEF Ppps
  <2>3. p = [t EXCEPT !.streak = n]
    BY <1>4 DEF IncrementFailStreak
  <2> HIDE DEF t, n
  <2>4. p \in Ppps /\ ~p.up /\ p.age = s.age
    BY <2>1, <2>2, <2>3 DEF Ppps
  <2>5. s.age \in Int /\ PppTimeout \in Int
    BY TimesAssumption, Caps DEF Ppps
  <2>6. QED
    BY <1>4, <2>4, <2>5
<1>5. CASE s.stage \in DOMAIN NextPppStage /\ p = [s EXCEPT !.stage = NextPppStage[@]]
  <2> DEFINE n == NextPppStage[s.stage]
  <2>1. n \in PppStage
    BY <1>5 DEF NextPppStage, PppStage
  <2>2. p = [s EXCEPT !.stage = n]
    BY <1>5
  <2> HIDE DEF n
  <2>3. QED
    BY <1>1, <2>1, <2>2 DEF Ppps
<1>6. QED
  BY <1>2, <1>3, <1>4, <1>5

\* Whether this iteration starts it or not, PPP is up or an attempt is running,
\* whose clock is not ahead of stateEntryTime's.
LEMMA PppStartedIs ==
    ASSUME IInv, main.state = "PPP_CONNECTING"
    PROVE  /\ PppStarted \in Ppps /\ PppStarted.streak < PppLimit
           /\ PppStarted.gsm /\ StartedFlag
           /\ PppStarted.up = ~PppStarted.starting
           /\ PppStarted.starting => PppStarted.age =< main.age
<1>1. /\ ppp \in Ppps /\ main \in Mains /\ Attempts(main, ppp)
      /\ main.age \in Int /\ main.age >= 0
  BY MainsAreNow DEF IInv, TypeOK, MainsNow
<1>2. CASE MustStart
  <2>1. ~ppp.starting /\ PppStarted = PppStart(ppp) /\ StartedFlag
    BY <1>1, <1>2 DEF Attempts, MustStart, PppStarted, StartedFlag
  <2>2. CASE ppp.up
    <3>1. PppStarted = ppp
      BY <1>1, <2>1, <2>2, PppStartIs
    <3>2. QED
      BY <1>1, <2>1, <2>2, <3>1 DEF Attempts, Ppps
  <2>3. CASE ~ppp.up
    <3>1. /\ PppStarted \in Ppps /\ PppStarted.streak = ppp.streak
          /\ PppStarted.starting /\ ~PppStarted.up /\ PppStarted.gsm
          /\ PppStarted.age = 0
      BY <1>1, <2>1, <2>3, PppStartIs
    <3>2. QED
      BY <1>1, <2>1, <3>1 DEF Attempts, Ppps
  <2>4. QED
    BY <2>2, <2>3
<1>3. CASE ~MustStart
  <2>1. PppStarted = ppp /\ StartedFlag /\ main.started /\ ~main.force
    BY <1>3 DEF MustStart, PppStarted, StartedFlag
  <2>2. QED
    BY <1>1, <2>1 DEF Attempts, Ppps
<1>4. QED
  BY <1>2, <1>3

LEMMA PppUpStep ==
    ASSUME IInv, NEW d \in Nat, main.state = "PPP_CONNECTING", PppUp(d),
           trouble' = trouble
    PROVE  IInv'
<1> DEFINE s == PppStarted
<1>1. /\ s \in Ppps /\ s.streak < PppLimit /\ s.gsm
  BY PppStartedIs
<1> DEFINE mn == [main EXCEPT !.state = "PPP_UP", !.force = FALSE, !.started = FALSE]
<1>2. PICK p \in PppComesUp(s) :
          /\ After(d, mn, modem, [p EXCEPT !.streak = 0], mqtt)
          /\ pppFails' = 0 /\ session' = session
  BY DEF PppUp
<1>3. p \in Ppps /\ p.up /\ ~p.starting /\ p.gsm
  <2>1. \/ p = s /\ s.up
        \/ ~s.up /\ p = [s EXCEPT !.stage = "connected", !.up = TRUE, !.starting = FALSE]
    BY DEF PppComesUp, When
  <2>2. "connected" \in PppStage /\ TRUE \in BOOLEAN /\ FALSE \in BOOLEAN
    BY DEF PppStage
  <2>3. s.up => ~s.starting
    BY <1>1, PppStartedIs DEF Ppps
  <2> HIDE DEF s
  <2>4. CASE p = s /\ s.up
    BY <1>1, <2>3, <2>4
  <2>5. CASE p = [s EXCEPT !.stage = "connected", !.up = TRUE, !.starting = FALSE]
    <3>1. p \in Ppps
      BY <1>1, <2>2, <2>5 DEF Ppps
    <3>2. QED
      BY <1>1, <2>5, <3>1 DEF Ppps
  <2>6. QED
    BY <2>1, <2>4, <2>5
<1> DEFINE q == [p EXCEPT !.streak = 0]
<1>4. q \in Ppps /\ q.up /\ ~q.starting /\ q.gsm /\ q.streak = 0
  BY <1>3, TimesAssumption DEF Ppps
<1>5. /\ main \in Mains /\ Attempts(main, ppp) /\ Links(main, mqtt)
      /\ modem \in Modems /\ mqtt \in Mqtts
  BY DEF IInv, TypeOK
<1>6. /\ mn \in Mains /\ mn.state = "PPP_UP" /\ ~mn.force /\ ~mn.started
      /\ mn.setup = main.setup /\ mn.inited = main.inited /\ mn.polling = main.polling
  <2>1. "PPP_UP" \in State /\ FALSE \in BOOLEAN
    BY DEF State
  <2>2. mn \in Mains
    BY <1>5, <2>1 DEF Mains
  <2>3. QED
    BY <1>5, <2>1, <2>2 DEF Mains
<1>7. After(d, mn, modem, q, mqtt)
  BY <1>2
<1> HIDE DEF mn, q, s
<1>8. Attempts(mn, q) /\ Links(mn, mqtt)
  BY <1>4, <1>5, <1>6, TimesAssumption DEF Attempts, Links, Online
<1>9. 0 \in 0 .. PppLimit
  BY TimesAssumption
<1>10. mn \in MainsNow /\ mn.age >= 0 /\ mn.age \in Int
  BY <1>6, MainsAreNow DEF MainsNow
<1>11. QED
  BY <1>2, <1>4, <1>5, <1>7, <1>8, <1>9, <1>10, AfterKeeps DEF IInv, TypeOK

LEMMA PppWaitStep ==
    ASSUME IInv, NEW d \in Nat, main.state = "PPP_CONNECTING", PppWait(d),
           trouble' = trouble
    PROVE  IInv'
<1> DEFINE s == PppStarted
           mn == [main EXCEPT !.force = FALSE, !.started = TRUE]
<1>1. /\ s \in Ppps /\ s.streak < PppLimit /\ s.gsm /\ StartedFlag
      /\ s.up = ~s.starting /\ (s.starting => s.age =< main.age)
  BY PppStartedIs
<1>2. PICK p \in PppWaits(s) :
          /\ main.age =< PppTimeout /\ After(d, mn, modem, p, mqtt)
          /\ session' = session /\ pppFails' = pppFails
  BY <1>1 DEF PppWait
<1>3. ~s.up /\ s.starting
  BY <1>1, <1>2 DEF PppWaits, When, Ppps
<1>4. /\ main \in Mains /\ Attempts(main, ppp) /\ Links(main, mqtt)
      /\ modem \in Modems /\ mqtt \in Mqtts
  BY DEF IInv, TypeOK
<1>5. s.age =< PppTimeout
  BY <1>1, <1>2, <1>3, <1>4, TimesAssumption, Caps DEF Mains, Ppps
<1> HIDE DEF s
<1>6. p \in Ppps /\ ~p.up /\ p.starting /\ p.gsm /\ p.streak = s.streak /\ p.age = s.age
  BY <1>1, <1>2, <1>3, <1>5, PppWaitsIs
<1>7. /\ mn \in Mains /\ mn.state = "PPP_CONNECTING" /\ ~mn.force /\ mn.started
      /\ mn.setup = main.setup /\ mn.inited = main.inited /\ mn.polling = main.polling
      /\ mn.age = main.age
  <2>1. TRUE \in BOOLEAN /\ FALSE \in BOOLEAN
    OBVIOUS
  <2>2. mn \in Mains
    BY <1>4, <2>1 DEF Mains
  <2>3. QED
    BY <1>4, <2>1, <2>2 DEF Mains
<1> HIDE DEF mn
<1>8. Attempts(mn, p) /\ Links(mn, mqtt)
  BY <1>1, <1>3, <1>4, <1>6, <1>7 DEF Attempts, Links, Online
<1>9. mn \in MainsNow /\ mn.age >= 0 /\ mn.age \in Int
  BY <1>7, MainsAreNow DEF MainsNow
<1>10. QED
  BY <1>2, <1>4, <1>6, <1>8, <1>9, AfterKeeps DEF IInv, TypeOK

LEMMA PppTimesOutStep ==
    ASSUME IInv, NEW d \in Nat, main.state = "PPP_CONNECTING", PppTimesOut(d),
           trouble' = trouble
    PROVE  IInv'
<1> DEFINE s == PppStarted
<1>1. s \in Ppps /\ s.streak < PppLimit /\ s.gsm /\ s.up = ~s.starting
  BY PppStartedIs
<1>2. PICK p \in PppWaits(s) : PppTimesOut(d)!(p)
  BY DEF PppTimesOut
<1>3. ~s.up /\ s.starting
  <2>1. p \in PppWaits(s)
    BY <1>2
  <2>2. ~s.up
    BY <2>1 DEF PppWaits, When
  <2> HIDE DEF s
  <2>3. QED
    BY <1>1, <2>2 DEF Ppps
<1> HIDE DEF s
<1>4. p \in Ppps
  BY <1>1, <1>2, <1>3, PppWaitsIs
<1> DEFINE reset == ShouldHardReset(p)
           e == Enter(IF reset THEN "MODEM_INIT" ELSE "PPP_CONNECTING")
           mn == [e EXCEPT !.force = FALSE, !.started = FALSE]
           md == IF reset THEN ModemOff ELSE modem
           t == PppStop(p)
           q == [t EXCEPT !.streak = IF reset THEN 0 ELSE @]
<1>5. /\ main \in Mains /\ Attempts(main, ppp) /\ Links(main, mqtt)
      /\ modem \in Modems /\ mqtt \in Mqtts /\ session \in Session
      /\ pppFails \in 0 .. PppLimit /\ trouble \in 0 .. Power
  BY DEF IInv, TypeOK
<1>6. /\ After(d, mn, md, q, mqtt)
      /\ pppFails' = (IF reset THEN 0 ELSE Aged(pppFails, 1, PppLimit))
      /\ session' = (IF reset THEN "none" ELSE session)
  BY <1>2
<1>7. t \in Ppps /\ t.streak = p.streak /\ ~t.up /\ ~t.starting
  BY <1>4, PppStopIs
<1>8. q \in Ppps /\ ~q.up /\ ~q.starting /\ q.streak < PppLimit
  <2> DEFINE n == IF reset THEN 0 ELSE t.streak
  <2>1. n \in 0 .. PppLimit /\ n < PppLimit
    BY <1>4, <1>7, TimesAssumption DEF ShouldHardReset, Ppps
  <2>2. q = [t EXCEPT !.streak = n]
    OBVIOUS
  <2> HIDE DEF n, t, q
  <2>3. QED
    BY <1>7, <2>1, <2>2 DEF Ppps
<1>9. /\ mn \in Mains /\ mn.state \in {"MODEM_INIT", "PPP_CONNECTING"}
      /\ ~mn.force /\ ~mn.started
      /\ mn.setup = main.setup /\ mn.inited = main.inited /\ mn.polling = main.polling
  <2>1. /\ e \in Mains /\ e.state \in {"MODEM_INIT", "PPP_CONNECTING"}
        /\ e.setup = main.setup /\ e.inited = main.inited /\ e.polling = main.polling
    BY EnterIs DEF State
  <2> HIDE DEF e
  <2>2. FALSE \in BOOLEAN
    OBVIOUS
  <2>3. mn \in Mains
    BY <2>1, <2>2 DEF Mains
  <2>4. QED
    BY <2>1, <2>2, <2>3 DEF Mains
<1>10. md \in Modems
  BY <1>5, ModemOffType
<1>11. session' \in Session /\ pppFails' \in 0 .. PppLimit
  BY <1>5, <1>6, TimesAssumption DEF Session, Aged
<1> HIDE DEF mn, md, q
<1>12. Attempts(mn, q) /\ Links(mn, mqtt)
  BY <1>5, <1>8, <1>9 DEF Attempts, Links, Online
<1>13. mn \in MainsNow /\ mn.age >= 0 /\ mn.age \in Int
  BY <1>9, MainsAreNow DEF MainsNow
<1>14. QED
  BY <1>5, <1>6, <1>8, <1>10, <1>11, <1>12, <1>13, AfterKeeps

-----------------------------------------------------------------------------
(* STATE_PPP_UP *)

LEMMA PppSettlesStep ==
    ASSUME IInv, NEW d \in Nat, main.state = "PPP_UP", PppSettles(d), trouble' = trouble
    PROVE  IInv'
<1> DEFINE up == IF main.upAge = Unset THEN 0 ELSE main.upAge
           link == IF ~main.setup /\ up > Settle
                   THEN IF ppp.gsm THEN "live" ELSE "null"
                   ELSE mqtt.link
           setup == main.setup \/ up > Settle
           inited == main.inited \/ (setup /\ up > 2 * Settle /\ link # "null")
           e == Enter("MQTT_CONNECTING")
           on == [e EXCEPT !.upAge = Unset, !.setup = FALSE, !.inited = FALSE]
           stay == [main EXCEPT !.upAge = up, !.setup = setup, !.inited = inited]
           mn == IF inited /\ up > 3 * Settle THEN on ELSE stay
           q == [mqtt EXCEPT !.link = link]
<1>1. /\ main \in Mains /\ Attempts(main, ppp) /\ Links(main, mqtt) /\ ppp \in Ppps
      /\ modem \in Modems /\ mqtt \in Mqtts /\ session \in Session
      /\ pppFails \in 0 .. PppLimit /\ trouble \in 0 .. Power
  BY DEF IInv, TypeOK
<1>2. After(d, mn, modem, ppp, q) /\ session' = session /\ pppFails' = pppFails
  BY DEF PppSettles
<1>3. ppp.gsm /\ ~main.started /\ ~main.force /\ ~mqtt.connected /\ ~main.polling
  BY <1>1 DEF Attempts, Links, Online
<1>4. setup \in BOOLEAN /\ inited \in BOOLEAN /\ up \in Unset .. UpCap
  BY <1>1, Caps DEF Mains, Unset
<1>5. /\ link \in {"null", "live", "dangling"}
      /\ setup => link = "live"
      /\ inited => setup
  BY <1>1, <1>3 DEF Links, Mqtts
<1>6. q \in Mqtts /\ q.link = link /\ ~q.connected
  <2> HIDE DEF link
  <2>1. QED
    BY <1>1, <1>3, <1>5 DEF Mqtts
<1>7. /\ on \in Mains /\ on.state = "MQTT_CONNECTING" /\ ~on.started /\ ~on.force
      /\ ~on.setup /\ ~on.inited /\ ~on.polling
  <2>1. e \in Mains /\ e.state = "MQTT_CONNECTING" /\ ~e.started /\ ~e.force /\ ~e.polling
    BY <1>3, EnterIs DEF State
  <2>2. Unset \in Unset .. UpCap /\ FALSE \in BOOLEAN
    BY Caps DEF Unset
  <2> HIDE DEF e
  <2>3. on \in Mains
    BY <2>1, <2>2 DEF Mains
  <2>4. QED
    BY <2>1, <2>2, <2>3 DEF Mains
<1>8. /\ stay \in Mains /\ stay.state = "PPP_UP" /\ ~stay.started /\ ~stay.force
      /\ stay.setup = setup /\ stay.inited = inited /\ ~stay.polling
  <2> HIDE DEF up, setup, inited
  <2>1. stay \in Mains
    BY <1>1, <1>4 DEF Mains
  <2>2. QED
    BY <1>1, <1>3, <1>4, <2>1 DEF Mains
<1> HIDE DEF link, setup, inited, on, stay, q
<1>9. mn \in Mains /\ Attempts(mn, ppp) /\ Links(mn, q)
  <2>1. CASE mn = on /\ inited
    BY <1>1, <1>3, <1>5, <1>6, <1>7, <2>1 DEF Attempts, Links, Online
  <2>2. CASE mn = stay
    BY <1>1, <1>3, <1>5, <1>6, <1>8, <2>2 DEF Attempts, Links, Online
  <2>3. QED
    BY <2>1, <2>2
<1> HIDE DEF mn
<1>10. mn \in MainsNow /\ mn.age >= 0 /\ mn.age \in Int
  BY <1>9, MainsAreNow DEF MainsNow
<1>11. QED
  BY <1>1, <1>2, <1>6, <1>9, <1>10, AfterKeeps

-----------------------------------------------------------------------------
(* The escalation from MQTT to PPP *)

\* While MqttManager is in use, no attempt is under way and it has its modem.
LEMMA OnlineIs ==
    ASSUME IInv, main.state \in Online
    PROVE  /\ main \in Mains /\ modem \in Modems /\ ppp \in Ppps /\ mqtt \in Mqtts
           /\ session \in Session /\ trouble \in 0 .. Power /\ pppFails \in 0 .. PppLimit
           /\ ~main.started /\ ~main.force /\ ~main.setup /\ ~main.inited
           /\ mqtt.link = "live" /\ ppp.gsm /\ ppp.streak < PppLimit
           /\ Attempts(main, ppp) /\ Links(main, mqtt)
  BY DEF IInv, TypeOK, Attempts, Links, Online

LEMMA RebuildStep ==
    ASSUME IInv, NEW d \in Nat, main.state \in Online, trouble' = trouble,
           NEW m \in Mains, ~m.started, ~m.setup, ~m.inited, ~m.polling,
           Rebuild(d, m, mqtt)
    PROVE  IInv'
<1> DEFINE mn == [m EXCEPT !.state = "PPP_CONNECTING", !.age = 0, !.force = TRUE]
           p == PppStop(ppp)
           c == Disconnected(mqtt)
           q == [c EXCEPT !.streak = 0]
<1>1. After(d, mn, modem, p, q) /\ pppFails' = pppFails /\ session' \in Session
  BY OnlineIs DEF Rebuild, When, Session
<1>2. p \in Ppps /\ ~p.up /\ ~p.starting /\ p.streak < PppLimit
  BY OnlineIs, PppStopIs
<1>3. c \in Mqtts /\ ~c.connected
  <2>1. mqtt \in Mqtts /\ mqtt.link = "live"
    BY OnlineIs
  <2>2. CASE mqtt.connected
    <3>1. c = [mqtt EXCEPT !.connected = FALSE] /\ FALSE \in BOOLEAN
      BY <2>1, <2>2 DEF Disconnected
    <3> HIDE DEF c
    <3>2. QED
      BY <2>1, <3>1 DEF Mqtts
  <2>3. CASE ~mqtt.connected
    BY <2>1, <2>3 DEF Disconnected
  <2>4. QED
    BY <2>2, <2>3
<1>4. q \in Mqtts /\ ~q.connected
  <2>1. 0 \in 0 .. MqttLimit
    BY TimesAssumption
  <2> HIDE DEF c
  <2>2. QED
    BY <1>3, <2>1 DEF Mqtts
<1>5. /\ mn \in Mains /\ mn.state = "PPP_CONNECTING" /\ mn.force /\ mn.age = 0
      /\ ~mn.started /\ ~mn.setup /\ ~mn.inited /\ ~mn.polling
  <2>1. "PPP_CONNECTING" \in State /\ 0 \in 0 .. AgeCap /\ TRUE \in BOOLEAN
    BY Caps DEF State
  <2>2. mn \in Mains
    BY <2>1 DEF Mains
  <2>3. QED
    BY <2>1, <2>2 DEF Mains
<1> HIDE DEF mn, p, q
<1>6. Attempts(mn, p) /\ Links(mn, q)
  BY <1>2, <1>4, <1>5 DEF Attempts, Links, Online
<1>7. mn \in MainsNow /\ mn.age >= 0 /\ mn.age \in Int
  BY <1>5, MainsAreNow DEF MainsNow
<1>8. QED
  BY <1>1, <1>2, <1>4, <1>6, <1>7, OnlineIs, AfterKeeps

-----------------------------------------------------------------------------
(* STATE_MQTT_CONNECTING *)

LEMMA FailedIs ==
    ASSUME NEW q \in Mqtts, q.streak < MqttLimit
    PROVE  /\ Failed(q) \in Mqtts
           /\ Failed(q).connected = q.connected /\ Failed(q).link = q.link
<1> DEFINE n == q.streak + 1
           b == IF 2 * q.backoff > BackoffMax THEN BackoffMax ELSE 2 * q.backoff
<1>1. n \in 0 .. MqttLimit /\ b \in BackoffBase .. BackoffMax /\ 0 \in 0 .. BackoffMax
  BY TimesAssumption DEF Mqtts
<1>2. Failed(q) = [q EXCEPT !.streak = n, !.backoff = b, !.tried = 0]
  BY DEF Failed
<1> HIDE DEF n, b
<1>3. Failed(q) \in Mqtts
  BY <1>1, <1>2 DEF Mqtts
<1>4. QED
  BY <1>1, <1>2, <1>3 DEF Mqtts

\* The state stays, whatever became of the session.
LEMMA StillConnecting ==
    ASSUME IInv, NEW d \in Nat, main.state = "MQTT_CONNECTING", trouble' = trouble,
           NEW q \in Mqtts, q.link = "live", After(d, main, modem, ppp, q),
           session' \in Session, pppFails' = pppFails
    PROVE  IInv'
<1>1. /\ main \in Mains /\ modem \in Modems /\ ppp \in Ppps
      /\ trouble \in 0 .. Power /\ pppFails \in 0 .. PppLimit
      /\ ~main.setup /\ ~main.inited /\ Attempts(main, ppp) /\ Links(main, mqtt)
  BY OnlineIs DEF Online
<1>2. Links(main, q)
  BY <1>1 DEF Links, Online
<1>3. main \in MainsNow /\ main.age >= 0 /\ main.age \in Int
  BY <1>1, MainsAreNow DEF MainsNow
<1>4. QED
  BY <1>1, <1>2, <1>3, AfterKeeps

LEMMA MqttConnectedStep ==
    ASSUME IInv, NEW d \in Nat, main.state = "MQTT_CONNECTING", trouble' = trouble,
           NEW q \in Mqtts, q.link = "live", q.streak < MqttLimit,
           MqttConnected(d, q), session' \in Session
    PROVE  IInv'
<1> DEFINE mn == Enter("MQTT_CONNECTED")
<1>1. /\ modem \in Modems /\ ppp \in Ppps /\ main.state \in Online
      /\ trouble \in 0 .. Power /\ pppFails \in 0 .. PppLimit
      /\ ~main.setup /\ ~main.inited /\ Attempts(main, ppp) /\ Links(main, mqtt)
  BY OnlineIs DEF Online
<1>2. /\ mn \in Mains /\ mn.state = "MQTT_CONNECTED" /\ mn.started = main.started
      /\ mn.force = main.force /\ ~mn.setup /\ ~mn.inited /\ mn.polling = main.polling
  BY <1>1, EnterIs DEF State
<1>3. After(d, mn, modem, ppp, q) /\ pppFails' = pppFails
  BY DEF MqttConnected
<1> HIDE DEF mn
<1>4. Attempts(mn, ppp) /\ Links(mn, q)
  <2>1. ~main.started /\ ~main.force /\ ppp.gsm
    BY OnlineIs DEF Online
  <2>2. QED
    BY <1>1, <1>2, <2>1 DEF Attempts, Links, Online
<1>5. mn \in MainsNow /\ mn.age >= 0 /\ mn.age \in Int
  BY <1>2, MainsAreNow DEF MainsNow
<1>6. QED
  BY <1>1, <1>2, <1>3, <1>4, <1>5, AfterKeeps

LEMMA MqttConnectingStep ==
    ASSUME IInv, NEW d \in Nat, main.state = "MQTT_CONNECTING", MqttConnecting(d),
           trouble' = trouble
    PROVE  IInv'
<1>1. /\ main \in Mains /\ mqtt \in Mqtts /\ mqtt.link = "live" /\ session \in Session
      /\ ~main.started /\ ~main.setup /\ ~main.inited /\ Links(main, mqtt)
  BY OnlineIs DEF Online
<1>2. CASE GiveUpMqtt
  <2>1. Rebuild(d, main, mqtt) /\ ~main.polling /\ main.state \in Online
    BY <1>1, <1>2 DEF MqttConnecting, Links, Online
  <2>2. QED
    BY <1>1, <2>1, RebuildStep
<1>3. CASE ~GiveUpMqtt
  <2>1. mqtt.streak < MqttLimit
    BY <1>1, <1>3, TimesAssumption DEF GiveUpMqtt, ShouldRebuildPpp, Mqtts
  <2>2. CASE AlreadyConnected(d)
    BY <1>1, <2>1, <2>2, MqttConnectedStep DEF AlreadyConnected
  <2>3. CASE WaitBackoff(d)
    BY <1>1, <2>3, StillConnecting DEF WaitBackoff
  <2>4. CASE ConnectSucceeds(d)
    <3> DEFINE q == [mqtt EXCEPT !.connected = TRUE, !.streak = 0,
                                 !.backoff = BackoffBase, !.tried = 0]
    <3>1. /\ TRUE \in BOOLEAN /\ 0 \in 0 .. MqttLimit /\ 0 < MqttLimit
          /\ BackoffBase \in BackoffBase .. BackoffMax /\ 0 \in 0 .. BackoffMax
      BY TimesAssumption
    <3>2. q \in Mqtts
      BY <1>1, <3>1 DEF Mqtts
    <3>3. q.link = "live" /\ q.streak = 0
      BY <1>1, <3>2 DEF Mqtts
    <3>4. MqttConnected(d, q) /\ session' = "up"
      BY <2>4 DEF ConnectSucceeds
    <3> HIDE DEF q
    <3>5. session' \in Session
      BY <3>4 DEF Session
    <3>6. QED
      BY <3>1, <3>2, <3>3, <3>4, <3>5, MqttConnectedStep
  <2>5. CASE ConnectFails(d)
    <3> DEFINE f == Failed(mqtt)
               ok == IF mqtt.link = "null" THEN f.connected ELSE FALSE
               q == [f EXCEPT !.connected = ok]
    <3>1. f \in Mqtts /\ f.link = "live" /\ ~ok
      BY <1>1, <2>1, FailedIs
    <3>2. After(d, main, modem, ppp, q) /\ pppFails' = pppFails
      BY <2>5 DEF ConnectFails
    <3>3. session' \in Session
      BY <1>1, <2>5 DEF ConnectFails, When, Session
    <3>4. ok \in BOOLEAN
      BY <1>1
    <3> HIDE DEF f, ok
    <3>5. q \in Mqtts /\ q.link = "live"
      BY <3>1, <3>4 DEF Mqtts
    <3> HIDE DEF q
    <3>6. QED
      BY <3>2, <3>3, <3>5, StillConnecting
  <2>6. CASE SubscribeFails(d)
    <3>1. Failed(mqtt) \in Mqtts /\ Failed(mqtt).link = "live"
      BY <1>1, <2>1, FailedIs
    <3>2. session' \in Session
      BY <2>6 DEF SubscribeFails, When, Session
    <3>3. QED
      BY <2>6, <3>1, <3>2, StillConnecting DEF SubscribeFails
  <2>7. QED
    BY <1>3, <2>2, <2>3, <2>4, <2>5, <2>6 DEF MqttConnecting
<1>4. QED
  BY <1>2, <1>3

-----------------------------------------------------------------------------
(* STATE_MQTT_CONNECTED *)

\* loop() counts a failure only when it takes the connection for lost.
LEMMA HandledIs ==
    ASSUME IInv, main.state = "MQTT_CONNECTED", NEW q \in Handled
    PROVE  /\ q \in Mqtts /\ q.link = "live"
           /\ q.connected => q.streak < MqttLimit
<1>1. /\ mqtt \in Mqtts /\ mqtt.link = "live" /\ Links(main, mqtt)
  BY OnlineIs DEF Online
<1>2. mqtt.connected => mqtt.streak < MqttLimit
  BY <1>1 DEF Links
<1>3. \/ q = mqtt
      \/ /\ mqtt.connected /\ ~main.polling
         /\ q = [mqtt EXCEPT !.connected = FALSE, !.streak = @ + 1]
  BY DEF Handled, When
<1>4. CASE q = mqtt
  BY <1>1, <1>2, <1>4
<1>5. CASE /\ mqtt.connected /\ ~main.polling
           /\ q = [mqtt EXCEPT !.connected = FALSE, !.streak = @ + 1]
  <2> DEFINE n == mqtt.streak + 1
  <2>1. n \in 0 .. MqttLimit /\ FALSE \in BOOLEAN
    BY <1>1, <1>2, <1>5, TimesAssumption DEF Mqtts
  <2>2. q = [mqtt EXCEPT !.connected = FALSE, !.streak = n]
    BY <1>5
  <2> HIDE DEF n
  <2>3. q \in Mqtts
    BY <1>1, <2>1, <2>2 DEF Mqtts
  <2>4. QED
    BY <1>1, <2>1, <2>2, <2>3 DEF Mqtts
<1>6. QED
  BY <1>3, <1>4, <1>5

\* publish() never turns a lost connection into a live one.
LEMMA StatusPublishedIs ==
    ASSUME NEW q0 \in Mqtts, q0.link = "live", NEW q \in StatusPublished(q0)
    PROVE  /\ q \in Mqtts /\ q.link = "live" /\ q.streak = q0.streak
           /\ q.connected => q0.connected
<1>1. \/ q = q0
      \/ /\ TRUE \in IsConnected(q0)
         /\ \E ok \in Sent \cup (IsConnected(q0) \ {TRUE}) :
                q = [q0 EXCEPT !.statusAge = 0, !.connected = ok]
  BY DEF StatusPublished, When
<1>2. CASE q = q0
  BY <1>2
<1>3. CASE /\ TRUE \in IsConnected(q0)
           /\ \E ok \in Sent \cup (IsConnected(q0) \ {TRUE}) :
                  q = [q0 EXCEPT !.statusAge = 0, !.connected = ok]
  <2>1. PICK ok \in Sent \cup (IsConnected(q0) \ {TRUE}) :
            q = [q0 EXCEPT !.statusAge = 0, !.connected = ok]
    BY <1>3
  <2>2. q0.connected
    BY <1>3 DEF IsConnected, Mqtts
  <2>3. ok \in BOOLEAN
    BY <2>2 DEF Sent, When, IsConnected, Reports, Mqtts
  <2>4. 0 \in 0 .. StatusInterval
    BY TimesAssumption
  <2>5. q \in Mqtts
    BY <2>1, <2>3, <2>4 DEF Mqtts
  <2>6. QED
    BY <2>1, <2>2, <2>3, <2>4, <2>5 DEF Mqtts
<1>4. QED
  BY <1>1, <1>2, <1>3

LEMMA MqttWorksStep ==
    ASSUME IInv, NEW d \in Nat, main.state = "MQTT_CONNECTED", MqttWorks(d),
           trouble' = trouble
    PROVE  IInv'
<1> DEFINE o == IF OobDue THEN 0 ELSE main.oobAge
           on == [main EXCEPT !.polling = FALSE, !.oobAge = o]
           off == [on EXCEPT !.state = "MQTT_CONNECTING", !.age = 0]
<1>1. PICK q0 \in Handled : \E q \in StatusPublished(q0) : \E up \in IsConnected(q) :
          After(d, IF up THEN on ELSE off, modem, ppp, q)
  BY DEF MqttWorks
<1>2. PICK q \in StatusPublished(q0) : \E up \in IsConnected(q) :
          After(d, IF up THEN on ELSE off, modem, ppp, q)
  BY <1>1
<1>3. PICK up \in IsConnected(q) : After(d, IF up THEN on ELSE off, modem, ppp, q)
  BY <1>2
<1>4. q0 \in Mqtts /\ q0.link = "live" /\ (q0.connected => q0.streak < MqttLimit)
  BY HandledIs
<1>5. /\ q \in Mqtts /\ q.link = "live" /\ q.streak = q0.streak
      /\ q.connected => q0.connected
  BY <1>4, StatusPublishedIs
<1>6. up => q.connected
  BY <1>5 DEF IsConnected, Mqtts
<1>7. /\ main \in Mains /\ modem \in Modems /\ ppp \in Ppps
      /\ trouble \in 0 .. Power /\ pppFails \in 0 .. PppLimit /\ session \in Session
      /\ ~main.started /\ ~main.force /\ ~main.setup /\ ~main.inited
      /\ ppp.gsm /\ Attempts(main, ppp)
  BY OnlineIs DEF Online
<1>8. session' = session /\ pppFails' = pppFails
  BY DEF MqttWorks
<1>9. /\ on \in Mains /\ on.state = "MQTT_CONNECTED" /\ ~on.started /\ ~on.force
      /\ ~on.setup /\ ~on.inited /\ ~on.polling
  <2>1. o \in 0 .. OobInterval + 1 /\ FALSE \in BOOLEAN
    BY <1>7, TimesAssumption DEF Mains
  <2> HIDE DEF o
  <2>2. on \in Mains
    BY <1>7, <2>1 DEF Mains
  <2>3. QED
    BY <1>7, <2>1, <2>2 DEF Mains
<1> HIDE DEF on
<1>10. /\ off \in Mains /\ off.state = "MQTT_CONNECTING" /\ ~off.started /\ ~off.force
       /\ ~off.setup /\ ~off.inited /\ ~off.polling
  <2>1. "MQTT_CONNECTING" \in State /\ 0 \in 0 .. AgeCap
    BY Caps DEF State
  <2>2. off \in Mains
    BY <1>9, <2>1 DEF Mains
  <2>3. QED
    BY <1>9, <2>1, <2>2 DEF Mains
<1> HIDE DEF off
<1>11. CASE up
  <2>1. After(d, on, modem, ppp, q)
    BY <1>3, <1>11
  <2>2. Attempts(on, ppp) /\ Links(on, q)
    BY <1>4, <1>5, <1>6, <1>7, <1>9, <1>11 DEF Attempts, Links, Online
  <2>3. on \in MainsNow /\ on.age >= 0 /\ on.age \in Int
    BY <1>9, MainsAreNow DEF MainsNow
  <2>4. QED
    BY <1>5, <1>7, <1>8, <2>1, <2>2, <2>3, AfterKeeps
<1>12. CASE ~up
  <2>1. After(d, off, modem, ppp, q)
    BY <1>3, <1>12
  <2>2. Attempts(off, ppp) /\ Links(off, q)
    BY <1>5, <1>7, <1>10 DEF Attempts, Links, Online
  <2>3. off \in MainsNow /\ off.age >= 0 /\ off.age \in Int
    BY <1>10, MainsAreNow DEF MainsNow
  <2>4. QED
    BY <1>5, <1>7, <1>8, <2>1, <2>2, <2>3, AfterKeeps
<1>13. QED
  BY <1>11, <1>12

LEMMA OobRebuildStep ==
    ASSUME IInv, NEW d \in Nat, main.state = "MQTT_CONNECTED", OobRebuild(d),
           trouble' = trouble
    PROVE  IInv'
<1> DEFINE m == [main EXCEPT !.polling = FALSE]
<1>1. Rebuild(d, m, mqtt) /\ main.state \in Online
  BY DEF OobRebuild, Online
<1>2. main \in Mains /\ ~main.started /\ ~main.setup /\ ~main.inited
  BY <1>1, OnlineIs
<1>3. m \in Mains /\ ~m.started /\ ~m.setup /\ ~m.inited /\ ~m.polling
  BY <1>2 DEF Mains
<1> HIDE DEF m
<1>4. QED
  BY <1>1, <1>3, RebuildStep

LEMMA OobAskStep ==
    ASSUME IInv, OobAsk
    PROVE  IInv'
<1> DEFINE mn == [main EXCEPT !.oobAge = 0, !.polling = TRUE]
<1>1. /\ main.state = "MQTT_CONNECTED" /\ mqtt' \in Handled /\ main' = mn
      /\ UNCHANGED <<modem, ppp, session, trouble, pppFails>>
  BY DEF OobAsk
<1>2. /\ mqtt' \in Mqtts /\ mqtt'.link = "live"
      /\ mqtt'.connected => mqtt'.streak < MqttLimit
  BY <1>1, HandledIs
<1>3. /\ main \in Mains /\ modem \in Modems /\ ppp \in Ppps
      /\ trouble \in 0 .. Power /\ pppFails \in 0 .. PppLimit /\ session \in Session
      /\ ~main.setup /\ ~main.inited /\ Attempts(main, ppp)
  BY <1>1, OnlineIs DEF Online
<1>4. /\ mn \in Mains /\ mn.state = main.state /\ mn.started = main.started
      /\ mn.force = main.force /\ mn.age = main.age /\ mn.setup = main.setup
      /\ mn.inited = main.inited /\ mn.polling
  <2>1. 0 \in 0 .. OobInterval + 1 /\ TRUE \in BOOLEAN
    BY TimesAssumption
  <2>2. mn \in Mains
    BY <1>3, <2>1 DEF Mains
  <2>3. QED
    BY <1>3, <2>1, <2>2 DEF Mains
<1> HIDE DEF mn
<1>5. Attempts(mn, ppp) /\ Links(mn, mqtt')
  BY <1>1, <1>2, <1>3, <1>4 DEF Attempts, Links, Online
<1>6. QED
  BY <1>1, <1>2, <1>3, <1>4, <1>5 DEF IInv, TypeOK

-----------------------------------------------------------------------------
(* Restarts and the outside *)

LEMMA BootedIs ==
    /\ Booted.main \in Mains /\ Booted.ppp \in Ppps /\ Booted.mqtt \in Mqtts
    /\ Attempts(Booted.main, Booted.ppp) /\ Links(Booted.main, Booted.mqtt)
<1>1. /\ 0 \in 0 .. AgeCap /\ 0 \in 0 .. InitRetries /\ Unset \in Unset .. UpCap
      /\ 0 \in 0 .. OobInterval + 1 /\ 0 \in 0 .. PppLimit /\ 0 < PppLimit
      /\ 0 \in 0 .. MqttLimit /\ BackoffMax \in 0 .. BackoffMax
      /\ BackoffBase \in BackoffBase .. BackoffMax /\ 0 \in 0 .. StatusInterval
  BY Caps, TimesAssumption DEF Unset
<1>2. Booted.main \in Mains
  BY <1>1 DEF Booted, Mains, State
<1>3. Booted.ppp \in Ppps
  BY <1>1 DEF Booted, Ppps, PppStage
<1>4. Booted.mqtt \in Mqtts
  BY <1>1 DEF Booted, Mqtts
<1>5. Attempts(Booted.main, Booted.ppp) /\ Links(Booted.main, Booted.mqtt)
  BY <1>1 DEF Booted, Attempts, Links, Online
<1>6. QED
  BY <1>2, <1>3, <1>4, <1>5

LEMMA BootStep == ASSUME IInv, Boot PROVE IInv'
<1>1. 0 \in 0 .. PppLimit
  BY TimesAssumption
<1>2. QED
  BY <1>1, BootedIs, ModemOffType DEF Boot, IInv, TypeOK

LEMMA InitIInv == Init => IInv
<1>1. 0 \in 0 .. PppLimit
  BY TimesAssumption
<1>2. QED
  BY <1>1, BootedIs, ModemOffType DEF Init, IInv, TypeOK, Session

LEMMA NextIInv == IInv /\ [Next]_vars => IInv'
<1> SUFFICES ASSUME IInv, [Next]_vars PROVE IInv'
  OBVIOUS
<1>1. ASSUME NEW d \in Duration, Iteration(d), trouble' = trouble
      PROVE  IInv'
  <2>1. d \in Nat
    BY Durations
  <2>2. CASE main.state = "MODEM_INIT"
    BY <1>1, <2>1, <2>2, ModemReadyStep, ModemInitStep DEF Iteration
  <2>3. CASE main.state = "PPP_CONNECTING"
    BY <1>1, <2>1, <2>3, PppUpStep, PppWaitStep, PppTimesOutStep DEF Iteration
  <2>4. CASE main.state = "PPP_UP"
    BY <1>1, <2>1, <2>4, PppSettlesStep DEF Iteration
  <2>5. CASE main.state = "MQTT_CONNECTING"
    BY <1>1, <2>1, <2>5, MqttConnectingStep DEF Iteration
  <2>6. CASE main.state = "MQTT_CONNECTED"
    BY <1>1, <2>1, <2>6, MqttWorksStep, OobRebuildStep DEF Iteration
  <2>7. QED
    BY <1>1, <2>2, <2>3, <2>4, <2>5, <2>6 DEF Iteration
<1>2. CASE OobAsk
  BY <1>2, OobAskStep
<1>3. CASE Boot
  BY <1>3, BootStep
<1>4. CASE TroubleChanges
  BY <1>4 DEF TroubleChanges, IInv, TypeOK
<1>5. CASE SessionDrops
  BY <1>5 DEF SessionDrops, IInv, TypeOK, Session
<1>6. CASE UNCHANGED vars
  BY <1>6 DEF vars, IInv, TypeOK
<1>7. QED
  BY <1>1, <1>2, <1>3, <1>4, <1>5, <1>6 DEF Next, Loop, OobReboot, PowerCut

LEMMA Inductive == Spec => []IInv
  BY InitIInv, NextIInv, PTL DEF Spec

-----------------------------------------------------------------------------
(* The invariants *)

\* The fail streaks and the ages stay in their ranges; the streak of MqttManager
\* never passes its limit, although loop() counts in MQTT_CONNECTED, too.
THEOREM TypeCorrect == Spec => []TypeOK
<1>1. IInv => TypeOK
  BY DEF IInv
<1>2. QED
  BY <1>1, Inductive, PTL

\* MqttManager is never used with a pointer to a modem object that
\* PppManager::stop() has deleted, and PPP_UP always has an object.
THEOREM NoDanglingModemCorrect == Spec => []NoDanglingModem
<1>1. IInv => NoDanglingModem
  BY DEF IInv, Attempts, Links, Online, NoDanglingModem
<1>2. QED
  BY <1>1, Inductive, PTL

\* While loop() waits for PPP an attempt is running, and a count of failures
\* that reached its limit has led to the hard reset.
THEOREM AttemptIsRunningCorrect == Spec => []AttemptIsRunning
<1>1. IInv => AttemptIsRunning
  BY DEF IInv, Attempts, AttemptIsRunning
<1>2. QED
  BY <1>1, Inductive, PTL
=============================================================================
