----------------------------- MODULE NetLink_proofs -----------------------------
(* One command at a time, and a driver in step with the MQTT layer: for        *)
(* queues and delays of any size and any number of disturbances.               *)
EXTENDS NetLink, SequenceTheorems, TLAPS

\* The engine does nothing, has a command queued, or has one with the module.
IdleEngine == [queue |-> <<>>, cur |-> NoCommand]
Waiting(c) == [queue |-> <<c>>, cur |-> NoCommand]
Sent(c) == [queue |-> <<>>, cur |-> c]
EngineOK(a) == a = IdleEngine \/ \E c \in Command : a = Waiting(c) \/ a = Sent(c)

\* One of the commands tags is queued or with the module.
Held(a, tags) == \E c \in InHand(a) : c.tag \in tags

MqttRecord ==
  [state : MqttState, connectReq : BOOLEAN, subscribeReq : BOOLEAN, subscribed : BOOLEAN,
   publishBusy : BOOLEAN, subscribeBusy : BOOLEAN, cfgStep : 0 .. 2]

EspRecord ==
  [state : EspState, wifi : BOOLEAN, delay : 0 .. TickModulus - 1,
   bootStep : 0 .. 3, setupStep : 0 .. 3, lastMqtt : MqttState]

AppRecord == [queue : Seq(1 .. MaxEvents), due : BOOLEAN]
ModuleRecord == [joined : BOOLEAN, conn : BOOLEAN, sub : BOOLEAN, partial : BOOLEAN]

\* A busy flag is set only while its command is in hand.
BusyOK(a, m) ==
  /\ m.publishBusy = TRUE => Held(a, {"PUB"})
  /\ m.subscribeBusy = TRUE => Held(a, {"SUB"})

\* The driver is joined in the MQTT states and in no other, and has no command
\* of its own in hand then.
DriverOK(a, e) ==
  /\ e.wifi = TRUE <=> e.state \in MqttPhases
  /\ Held(a, EspTags) => e.wifi = FALSE
  /\ Held(a, SetupTags) => e.setupStep \in 0 .. 2

TickOK(a, e, m) ==
  /\ EngineOK(a) /\ e \in EspRecord /\ m \in MqttRecord
  /\ BusyOK(a, m) /\ DriverOK(a, e)

AppOK == app \in AppRecord /\ Len(app.queue) <= EventQueueSize

WorldOK ==
  /\ turn \in {"main", "esp"}
  /\ owed \in Seq(Tags \cup {"garbled"})
  /\ module \in ModuleRecord
  /\ faults \in [Disturbances -> 0 .. MaxFaults]
  /\ events \in 0 .. MaxEvents
  /\ messages \in 0 .. MaxMessages

IInv == TickOK(at, esp, mqtt) /\ AppOK /\ WorldOK /\ DriverInStep
---------------------------------------------------------------------------------
LEMMA TagFacts ==
  /\ "none" \notin Tags /\ "garbled" \notin Tags /\ EspTags \cap MqttTags = {}
  /\ EspTags \subseteq Tags /\ MqttTags \subseteq Tags /\ SetupTags \subseteq EspTags
BY DEF Tags, EspTags, SetupTags, MqttTags

LEMMA CommandFacts ==
  /\ NoCommand \notin Command
  /\ \A tag \in Tags : Plain(tag) \in Command /\ Plain(tag).tag = tag /\ Plain(tag).whole = TRUE
BY TagFacts, AtAssumption DEF Command, NoCommand, Plain

\* What the operations of the engine do to its three shapes.
LEMMA EngineFacts ==
  /\ AtIdle(IdleEngine) /\ InHand(IdleEngine) = {} /\ Started(IdleEngine) = IdleEngine
  /\ Finished(IdleEngine) = IdleEngine
  /\ \A c \in Command : Enqueued(IdleEngine, c) = Waiting(c)
<1>1. AtIdle(IdleEngine) /\ Started(IdleEngine) = IdleEngine
  BY DEF AtIdle, IdleEngine, Started
<1>2. InHand(IdleEngine) = {}
  BY DEF InHand, IdleEngine
<1>3. Finished(IdleEngine) = IdleEngine
  BY DEF Finished, IdleEngine
<1>4. ASSUME NEW c \in Command PROVE Enqueued(IdleEngine, c) = Waiting(c)
  <2>1. Len(IdleEngine.queue) < AtQueueLen
    BY AtAssumption DEF IdleEngine
  <2>2. Append(IdleEngine.queue, c) = <<c>>
    BY DEF IdleEngine
  <2>3. Enqueued(IdleEngine, c) = [IdleEngine EXCEPT !.queue = <<c>>]
    BY <2>1, <2>2 DEF Enqueued
  <2> QED BY <2>3 DEF IdleEngine, Waiting
<1> QED BY <1>1, <1>2, <1>3, <1>4

LEMMA WaitingFacts ==
  ASSUME NEW c \in Command
  PROVE  /\ ~AtIdle(Waiting(c)) /\ InHand(Waiting(c)) = {c} /\ Started(Waiting(c)) = Sent(c)
         /\ Finished(Waiting(c)) = Waiting(c) /\ Waiting(c).cur = NoCommand
<1>1. <<c>> # <<>> /\ Head(<<c>>) = c /\ Tail(<<c>>) = <<>> /\ DOMAIN <<c>> = {1}
  OBVIOUS
<1>2. ~AtIdle(Waiting(c)) /\ Started(Waiting(c)) = Sent(c) /\ Waiting(c).cur = NoCommand
  BY <1>1 DEF AtIdle, Waiting, Started, Sent
<1>3. InHand(Waiting(c)) = {c}
  BY <1>1 DEF InHand, Waiting
<1>4. Finished(Waiting(c)) = Waiting(c)
  BY DEF Finished, Waiting
<1> QED BY <1>2, <1>3, <1>4

LEMMA SentFacts ==
  ASSUME NEW c \in Command
  PROVE  /\ ~AtIdle(Sent(c)) /\ InHand(Sent(c)) = {c} /\ Started(Sent(c)) = Sent(c)
         /\ Finished(Sent(c)) = IdleEngine /\ Sent(c).cur = c /\ c # NoCommand
<1>1. c # NoCommand
  BY CommandFacts
<1>2. ~AtIdle(Sent(c)) /\ Started(Sent(c)) = Sent(c) /\ Sent(c).cur = c
  BY <1>1 DEF AtIdle, Sent, Started
<1>3. InHand(Sent(c)) = {c}
  BY <1>1 DEF InHand, Sent
<1>4. Finished(Sent(c)) = IdleEngine
  BY DEF Finished, Sent, IdleEngine
<1> QED BY <1>1, <1>2, <1>3, <1>4

\* Starting a command leaves what is in hand.
LEMMA StartedOK ==
  ASSUME NEW a, NEW e, NEW m, TickOK(a, e, m)
  PROVE  TickOK(Started(a), e, m) /\ InHand(Started(a)) = InHand(a)
<1>1. EngineOK(Started(a)) /\ InHand(Started(a)) = InHand(a)
  BY EngineFacts, WaitingFacts, SentFacts DEF TickOK, EngineOK
<1> QED BY <1>1 DEF TickOK, BusyOK, DriverOK, Held

\* Sending a command from a tick.
LEMMA IssuedIs ==
  ASSUME NEW a, EngineOK(a), NEW tag \in Tags \cup {"none"}
  PROVE  \/ Issued(a, tag) = a /\ (a # IdleEngine \/ tag = "none")
         \/ a = IdleEngine /\ tag \in Tags /\ Issued(a, tag) = Waiting(Plain(tag))
<1>1. CASE tag = "none"
  BY <1>1 DEF Issued
<1>2. CASE tag \in Tags /\ a = IdleEngine
  <2>1. Plain(tag) \in Command
    BY <1>2, CommandFacts
  <2>2. Enqueued(IdleEngine, Plain(tag)) = Waiting(Plain(tag))
    BY <2>1, EngineFacts
  <2> QED BY <1>2, <2>2, EngineFacts, TagFacts DEF Issued
<1>3. CASE tag \in Tags /\ a # IdleEngine
  <2>1. ~AtIdle(a)
    BY <1>3, WaitingFacts, SentFacts DEF EngineOK
  <2> QED BY <1>3, <2>1 DEF Issued
<1> QED BY <1>1, <1>2, <1>3

LEMMA IdleIs == ASSUME NEW a, EngineOK(a) PROVE AtIdle(a) <=> a = IdleEngine
BY EngineFacts, WaitingFacts, SentFacts DEF EngineOK
---------------------------------------------------------------------------------
(* The MQTT layer's and the driver's steps on their records. *)

LEMMA MqttStateSet ==
  ASSUME NEW m \in MqttRecord, NEW s \in MqttState
  PROVE  LET n == [m EXCEPT !.state = s]
         IN  /\ n \in MqttRecord
             /\ n.publishBusy = m.publishBusy /\ n.subscribeBusy = m.subscribeBusy
             /\ n.state = s /\ n.subscribed = m.subscribed
BY DEF MqttRecord

LEMMA MqttStepSet ==
  ASSUME NEW m \in MqttRecord, NEW k \in 0 .. 2
  PROVE  LET n == [m EXCEPT !.cfgStep = k]
         IN  /\ n \in MqttRecord
             /\ n.publishBusy = m.publishBusy /\ n.subscribeBusy = m.subscribeBusy
             /\ n.state = m.state /\ n.subscribed = m.subscribed
BY DEF MqttRecord

LEMMA MqttPublishEnds ==
  ASSUME NEW m \in MqttRecord
  PROVE  LET n == [m EXCEPT !.publishBusy = FALSE]
         IN  /\ n \in MqttRecord
             /\ n.publishBusy = FALSE /\ n.subscribeBusy = m.subscribeBusy
             /\ n.state = m.state /\ n.subscribed = m.subscribed
BY DEF MqttRecord

LEMMA MqttUnsubscribed ==
  ASSUME NEW m \in MqttRecord
  PROVE  LET n == [m EXCEPT !.subscribed = FALSE]
         IN  /\ n \in MqttRecord
             /\ n.publishBusy = m.publishBusy /\ n.subscribeBusy = m.subscribeBusy
             /\ n.state = m.state /\ n.subscribed = FALSE
BY DEF MqttRecord

LEMMA MqttDownIs ==
  ASSUME NEW m \in MqttRecord
  PROVE  /\ MqttDown(m) \in MqttRecord /\ MqttDown(m).state = "DISCONNECTED"
         /\ MqttDown(m).publishBusy = m.publishBusy /\ MqttDown(m).subscribeBusy = m.subscribeBusy
         /\ MqttDown(m).subscribed = FALSE
<1> DEFINE n == [m EXCEPT !.state = "DISCONNECTED"]
<1>1. "DISCONNECTED" \in MqttState
  BY DEF MqttState
<1>2. n \in MqttRecord /\ n.publishBusy = m.publishBusy /\ n.subscribeBusy = m.subscribeBusy
      /\ n.state = "DISCONNECTED"
  BY <1>1, MqttStateSet, Zenon
<1>3. MqttDown(m) = [n EXCEPT !.subscribed = FALSE]
  BY DEF MqttDown
<1> HIDE DEF n
<1> QED BY <1>2, <1>3, MqttUnsubscribed, Zenon

LEMMA MqttResetIs ==
  /\ MqttReset \in MqttRecord /\ MqttReset.publishBusy = FALSE /\ MqttReset.subscribeBusy = FALSE
  /\ MqttReset.state = "DISCONNECTED" /\ MqttReset.subscribed = FALSE
BY DEF MqttReset, MqttRecord, MqttState

\* What the end of a command does to the MQTT layer: of the flags it clears the
\* command's own, and only a subscription that was answered with OK subscribes.
AfterDone(m, tag, ok, n) ==
  /\ n \in MqttRecord
  /\ n.publishBusy = (IF tag = "PUB" THEN FALSE ELSE m.publishBusy)
  /\ n.subscribeBusy = (IF tag = "SUB" THEN FALSE ELSE m.subscribeBusy)
  /\ tag # "SUB" \/ ~ok =>
       /\ n.subscribed = TRUE => m.subscribed = TRUE
       /\ n.state = "SUBSCRIBED" => m.state = "SUBSCRIBED"

LEMMA MqttDoneIs ==
  ASSUME NEW m \in MqttRecord, NEW tag, NEW ok \in BOOLEAN
  PROVE  AfterDone(m, tag, ok, MqttDone(m, tag, ok))
<1> DEFINE n == MqttDone(m, tag, ok)
<1>0. /\ "CONNECTED" \in MqttState /\ "CONNECTING" \in MqttState /\ "SUBSCRIBED" \in MqttState
      /\ 0 \in 0 .. 2 /\ 1 \in 0 .. 2 /\ 2 \in 0 .. 2
  BY DEF MqttState
<1>1. CASE tag \notin MqttTags
  BY <1>1 DEF MqttDone, MqttTags, AfterDone
<1>2. CASE tag = "PUB"
  <2>1. n = [m EXCEPT !.publishBusy = FALSE]
    BY <1>2, Zenon DEF MqttDone, MqttSucceeded, MqttFailed, MqttTags
  <2> HIDE DEF n
  <2>2. n \in MqttRecord /\ n.publishBusy = FALSE /\ n.subscribeBusy = m.subscribeBusy
        /\ n.state = m.state /\ n.subscribed = m.subscribed
    BY <2>1, MqttPublishEnds, Zenon
  <2>3. AfterDone(m, tag, ok, n)
    BY <1>2, <2>2 DEF AfterDone
  <2> QED BY <2>3 DEF n
<1>3. CASE tag = "SUB"
  <2> DEFINE p == [[m EXCEPT !.subscribeBusy = FALSE] EXCEPT !.subscribeReq = FALSE]
             q == [p EXCEPT !.subscribed = TRUE]
  <2>1. p \in MqttRecord /\ p.publishBusy = m.publishBusy /\ p.subscribeBusy = FALSE
        /\ p.subscribed = m.subscribed
    BY Zenon DEF MqttRecord
  <2>2. n = IF ok THEN [q EXCEPT !.state = "SUBSCRIBED"] ELSE [p EXCEPT !.state = "CONNECTED"]
    BY <1>3, Zenon DEF MqttDone, MqttSucceeded, MqttFailed, MqttTags
  <2> HIDE DEF p
  <2>3. q \in MqttRecord /\ q.publishBusy = m.publishBusy /\ q.subscribeBusy = FALSE
    BY <2>1 DEF MqttRecord
  <2> HIDE DEF q, n
  <2>4. n \in MqttRecord /\ n.publishBusy = m.publishBusy /\ n.subscribeBusy = FALSE
        /\ (~ok => n.state = "CONNECTED" /\ n.subscribed = m.subscribed)
    <3>1. CASE ok
      BY <1>0, <2>2, <2>3, <3>1, MqttStateSet, Zenon
    <3>2. CASE ~ok
      BY <1>0, <2>1, <2>2, <3>2, MqttStateSet, Zenon
    <3> QED BY <3>1, <3>2
  <2>5. AfterDone(m, tag, ok, n)
    BY <1>3, <2>4 DEF AfterDone
  <2> QED BY <2>5 DEF n
<1>4. CASE tag \in MqttTags \ {"PUB", "SUB"} /\ ~ok
  <2>1. n = [MqttDown(m) EXCEPT !.cfgStep = 0]
    BY <1>4, Zenon DEF MqttDone, MqttFailed, MqttTags
  <2> HIDE DEF n
  <2>2. n \in MqttRecord /\ n.publishBusy = m.publishBusy /\ n.subscribeBusy = m.subscribeBusy
        /\ n.state = "DISCONNECTED" /\ n.subscribed = FALSE
    BY <1>0, <2>1, MqttDownIs, MqttStepSet, Zenon
  <2>3. AfterDone(m, tag, ok, n)
    BY <1>4, <2>2 DEF AfterDone
  <2> QED BY <2>3 DEF n
<1>5. CASE tag \in {"USERCFG", "CLIENTID", "CONN"} /\ ok
  <2> DEFINE p == [m EXCEPT !.cfgStep = 2]
  <2>1. n = [m EXCEPT !.cfgStep = 1] \/ n = [p EXCEPT !.state = "CONNECTING"]
        \/ n = [m EXCEPT !.state = "CONNECTED"]
    BY <1>5, Zenon DEF MqttDone, MqttSucceeded, MqttTags
  <2>2. p \in MqttRecord /\ p.publishBusy = m.publishBusy /\ p.subscribeBusy = m.subscribeBusy
        /\ p.subscribed = m.subscribed
    BY <1>0, MqttStepSet, Zenon
  <2> HIDE DEF n, p
  <2>3. n \in MqttRecord /\ n.publishBusy = m.publishBusy /\ n.subscribeBusy = m.subscribeBusy
        /\ n.subscribed = m.subscribed
        /\ (n.state = m.state \/ n.state = "CONNECTING" \/ n.state = "CONNECTED")
    <3>1. CASE n = [m EXCEPT !.cfgStep = 1]
      BY <1>0, <3>1, MqttStepSet, Zenon
    <3>2. CASE n = [p EXCEPT !.state = "CONNECTING"]
      BY <1>0, <2>2, <3>2, MqttStateSet, Zenon
    <3>3. CASE n = [m EXCEPT !.state = "CONNECTED"]
      BY <1>0, <3>3, MqttStateSet, Zenon
    <3> QED BY <2>1, <3>1, <3>2, <3>3
  <2>4. AfterDone(m, tag, ok, n)
    BY <1>5, <2>3 DEF AfterDone
  <2> QED BY <2>4 DEF n
<1> QED BY <1>1, <1>2, <1>3, <1>4, <1>5 DEF MqttTags

LEMMA MqttAwakeIs ==
  ASSUME NEW m \in MqttRecord
  PROVE  /\ MqttAwake(m) \in MqttRecord
         /\ MqttAwake(m).publishBusy = m.publishBusy /\ MqttAwake(m).subscribeBusy = m.subscribeBusy
         /\ MqttAwake(m).subscribed = m.subscribed
         /\ MqttAwake(m).state = "SUBSCRIBED" => m.state = "SUBSCRIBED"
<1>0. "CONFIGURING" \in MqttState /\ 0 \in 0 .. 2
  BY DEF MqttState
<1>1. CASE m.state = "DISCONNECTED"
  <2> DEFINE p == [m EXCEPT !.cfgStep = 0]
  <2>1. p \in MqttRecord /\ p.publishBusy = m.publishBusy /\ p.subscribeBusy = m.subscribeBusy
        /\ p.subscribed = m.subscribed
    BY <1>0, MqttStepSet, Zenon
  <2> DEFINE r == [p EXCEPT !.state = "CONFIGURING"]
  <2>2. MqttAwake(m) = r
    BY <1>1, Zenon DEF MqttAwake
  <2> HIDE DEF p
  <2>3. r \in MqttRecord /\ r.publishBusy = p.publishBusy /\ r.subscribeBusy = p.subscribeBusy
        /\ r.subscribed = p.subscribed /\ r.state = "CONFIGURING"
    BY <1>0, <2>1, MqttStateSet, Zenon
  <2> HIDE DEF r
  <2> QED BY <2>1, <2>2, <2>3
<1>2. CASE m.state # "DISCONNECTED"
  BY <1>2 DEF MqttAwake
<1> QED BY <1>1, <1>2

\* The MQTT tick: it sets subscribeBusy only with the command.
LEMMA MqttTickedIs ==
  ASSUME NEW m \in MqttRecord, NEW idle \in BOOLEAN
  PROVE  LET n == MqttTicked(m, idle)
         IN  /\ n \in MqttRecord /\ n.publishBusy = m.publishBusy
             /\ n.subscribeBusy = m.subscribeBusy \/ (idle /\ MqttCommand(m) = "SUB")
             /\ n.subscribed = m.subscribed
             /\ n.state = "SUBSCRIBED" => m.state = "SUBSCRIBED"
             /\ MqttCommand(m) \in MqttTags \cup {"none"}
<1> DEFINE n == MqttTicked(m, idle)
           w == MqttAwake(m)
<1>1. MqttCommand(m) \in MqttTags \cup {"none"}
  BY Zenon DEF MqttCommand, MqttWants, MqttTags
<1>2. w \in MqttRecord /\ w.publishBusy = m.publishBusy /\ w.subscribeBusy = m.subscribeBusy
      /\ w.subscribed = m.subscribed /\ (w.state = "SUBSCRIBED" => m.state = "SUBSCRIBED")
  BY MqttAwakeIs
<1>3. \/ n = m \/ n = w \/ n = [w EXCEPT !.state = "CONNECTING"]
      \/ n = [w EXCEPT !.subscribeBusy = TRUE] /\ idle /\ MqttCommand(m) = "SUB"
  <2>1. CASE ~m.connectReq
    BY <2>1, Zenon DEF MqttTicked
  <2>2. CASE m.connectReq /\ ~idle
    BY <2>2, Zenon DEF MqttTicked
  <2>3. CASE m.connectReq /\ idle
    <3>1. MqttCommand(m) = MqttWants(w)
      BY <2>3, Zenon DEF MqttCommand
    <3>2. n = IF MqttWants(w) = "SUB" THEN [w EXCEPT !.subscribeBusy = TRUE]
              ELSE IF w.state = "CONFIGURING" /\ w.cfgStep = 2
                   THEN [w EXCEPT !.state = "CONNECTING"] ELSE w
      BY <2>3, Zenon DEF MqttTicked
    <3> QED BY <2>3, <3>1, <3>2, Zenon
  <2> QED BY <2>1, <2>2, <2>3
<1>4. [w EXCEPT !.subscribeBusy = TRUE] \in MqttRecord
      /\ [w EXCEPT !.subscribeBusy = TRUE].publishBusy = w.publishBusy
      /\ [w EXCEPT !.subscribeBusy = TRUE].subscribed = w.subscribed
      /\ [w EXCEPT !.subscribeBusy = TRUE].state = w.state
  <2> HIDE DEF w
  <2> QED BY <1>2 DEF MqttRecord
<1>5. "CONNECTING" \in MqttState
  BY DEF MqttState
<1> HIDE DEF n, w
<1>6. CASE n = m
  BY <1>1, <1>6 DEF n
<1>7. CASE n = w
  BY <1>1, <1>2, <1>7 DEF n
<1>8. CASE n = [w EXCEPT !.state = "CONNECTING"]
  <2>1. n \in MqttRecord /\ n.publishBusy = w.publishBusy /\ n.subscribeBusy = w.subscribeBusy
        /\ n.subscribed = w.subscribed /\ n.state = "CONNECTING"
    BY <1>2, <1>5, <1>8, MqttStateSet, Zenon
  <2> QED BY <1>1, <1>2, <2>1 DEF n
<1>9. CASE n = [w EXCEPT !.subscribeBusy = TRUE] /\ idle /\ MqttCommand(m) = "SUB"
  BY <1>1, <1>2, <1>4, <1>9 DEF n
<1> QED BY <1>3, <1>6, <1>7, <1>8, <1>9
---------------------------------------------------------------------------------
LEMMA PhaseFacts ==
  /\ MqttPhases = {"MQTT_DISCONNECTED", "MQTT_CONFIGURING", "MQTT_CONNECTING", "MQTT_CONNECTED",
                   "MQTT_SUBSCRIBED"}
  /\ \A s \in MqttState : Mapped[s] \in MqttPhases
<1>1. \A s \in MqttState : Mapped[s] \in MqttPhases
  BY DEF MqttPhases
<1>2. /\ Mapped["DISCONNECTED"] = "MQTT_DISCONNECTED" /\ Mapped["CONFIGURING"] = "MQTT_CONFIGURING"
      /\ Mapped["CONNECTING"] = "MQTT_CONNECTING" /\ Mapped["CONNECTED"] = "MQTT_CONNECTED"
      /\ Mapped["SUBSCRIBED"] = "MQTT_SUBSCRIBED"
  BY DEF Mapped
<1> HIDE DEF Mapped
<1>3. MqttPhases = {"MQTT_DISCONNECTED", "MQTT_CONFIGURING", "MQTT_CONNECTING", "MQTT_CONNECTED",
                   "MQTT_SUBSCRIBED"}
  BY <1>2 DEF MqttPhases, MqttState
<1> QED BY <1>1, <1>3

LEMMA EspFacts ==
  /\ MqttPhases \subseteq EspState
  /\ "BOOT" \in EspState /\ "BASIC_SETUP" \in EspState /\ "JOIN_AP" \in EspState /\ "ERROR" \in EspState
  /\ "BOOT" \notin MqttPhases /\ "BASIC_SETUP" \notin MqttPhases
  /\ "JOIN_AP" \notin MqttPhases /\ "ERROR" \notin MqttPhases
  /\ "MQTT_CONFIGURING" \in MqttPhases
  /\ 0 \in 0 .. 3 /\ 1 \in 0 .. 3 /\ 2 \in 0 .. 3 /\ 3 \in 0 .. 3
  /\ TRUE \in BOOLEAN /\ FALSE \in BOOLEAN
BY PhaseFacts DEF EspState

LEMMA DelayFacts ==
  /\ RetryTicks \in 0 .. TickModulus - 1 /\ ResetTicks \in 0 .. TickModulus - 1
  /\ PowerTicks \in 0 .. TickModulus - 1 /\ ReadyTicks % TickModulus \in 0 .. TickModulus - 1
  /\ 0 \in 0 .. TickModulus - 1
BY DelayAssumption

LEMMA EspStateSet ==
  ASSUME NEW e \in EspRecord, NEW s \in EspState
  PROVE  LET n == [e EXCEPT !.state = s]
         IN  /\ n \in EspRecord
             /\ n.state = s /\ n.wifi = e.wifi
             /\ n.setupStep = e.setupStep /\ n.delay = e.delay
BY DEF EspRecord

LEMMA EspWifiSet ==
  ASSUME NEW e \in EspRecord, NEW b \in BOOLEAN
  PROVE  LET n == [e EXCEPT !.wifi = b]
         IN  /\ n \in EspRecord
             /\ n.state = e.state /\ n.wifi = b
             /\ n.setupStep = e.setupStep /\ n.delay = e.delay
BY DEF EspRecord

LEMMA EspBootSet ==
  ASSUME NEW e \in EspRecord, NEW k \in 0 .. 3
  PROVE  LET n == [e EXCEPT !.bootStep = k]
         IN  /\ n \in EspRecord
             /\ n.state = e.state /\ n.wifi = e.wifi
             /\ n.setupStep = e.setupStep /\ n.delay = e.delay
BY DEF EspRecord

LEMMA EspSetupSet ==
  ASSUME NEW e \in EspRecord, NEW k \in 0 .. 3
  PROVE  LET n == [e EXCEPT !.setupStep = k]
         IN  /\ n \in EspRecord
             /\ n.state = e.state /\ n.wifi = e.wifi
             /\ n.setupStep = k /\ n.delay = e.delay
BY DEF EspRecord

LEMMA EspDelaySet ==
  ASSUME NEW e \in EspRecord, NEW d \in 0 .. TickModulus - 1
  PROVE  LET n == [e EXCEPT !.delay = d]
         IN  /\ n \in EspRecord
             /\ n.state = e.state /\ n.wifi = e.wifi
             /\ n.setupStep = e.setupStep /\ n.delay = d
BY DEF EspRecord

\* What the end of one of its commands does to the driver, which is not joined then.
LEMMA EspDoneIs ==
  ASSUME NEW e \in EspRecord, NEW tag \in EspTags, NEW ok \in BOOLEAN,
         e.wifi = FALSE, e.state \notin MqttPhases,
         tag \in SetupTags => e.setupStep \in 0 .. 2
  PROVE  LET n == EspDone(e, tag, ok)
         IN  n \in EspRecord /\ (n.wifi = TRUE <=> n.state \in MqttPhases)
<1> DEFINE n == EspDone(e, tag, ok)
<1> SUFFICES n \in EspRecord /\ (n.wifi = TRUE <=> n.state \in MqttPhases)
  OBVIOUS
<1>1. n = IF ok THEN EspSucceeded(e, tag) ELSE EspFailed(e, tag)
  BY Zenon DEF EspDone
<1> HIDE DEF n
<1>2. CASE ok /\ tag = "AT"
  <2> DEFINE p == [e EXCEPT !.delay = ResetTicks]
             q == [p EXCEPT !.bootStep = 2]
  <2>1. p \in EspRecord /\ p.state = e.state /\ p.wifi = e.wifi
    BY DelayFacts, EspDelaySet, Zenon
  <2>2. n = q
    BY <1>1, <1>2, Zenon DEF EspSucceeded, SetupTags
  <2> HIDE DEF p
  <2>3. q \in EspRecord /\ q.state = p.state /\ q.wifi = p.wifi
    BY <2>1, EspFacts, EspBootSet, Zenon
  <2> HIDE DEF q
  <2> QED BY <2>1, <2>2, <2>3
<1>3. CASE ok /\ tag = "RST"
  <2> DEFINE p == [e EXCEPT !.state = "BASIC_SETUP"]
             q == [p EXCEPT !.setupStep = 0]
             r == [q EXCEPT !.delay = ReadyTicks % TickModulus]
             t == [r EXCEPT !.bootStep = 3]
  <2>1. n = t
    BY <1>1, <1>3, Zenon DEF EspSucceeded, SetupTags
  <2>2. p \in EspRecord /\ p.state = "BASIC_SETUP" /\ p.wifi = e.wifi
    BY EspFacts, EspStateSet, Zenon
  <2> HIDE DEF p
  <2>3. q \in EspRecord /\ q.state = p.state /\ q.wifi = p.wifi
    BY <2>2, EspFacts, EspSetupSet, Zenon
  <2> HIDE DEF q
  <2>4. r \in EspRecord /\ r.state = q.state /\ r.wifi = q.wifi
    BY <2>3, DelayFacts, EspDelaySet, Zenon
  <2> HIDE DEF r
  <2>5. t \in EspRecord /\ t.state = r.state /\ t.wifi = r.wifi
    BY <2>4, EspFacts, EspBootSet, Zenon
  <2> HIDE DEF t
  <2> QED BY <2>1, <2>2, <2>3, <2>4, <2>5, EspFacts
<1>4. CASE ok /\ tag \in SetupTags
  <2>1. n = [e EXCEPT !.setupStep = e.setupStep + 1]
    BY <1>1, <1>4, Zenon DEF EspSucceeded, SetupTags
  <2>2. e.setupStep + 1 \in 0 .. 3
    BY <1>4
  <2>3. n \in EspRecord /\ n.state = e.state /\ n.wifi = e.wifi
    BY <2>1, <2>2, EspSetupSet, Zenon
  <2> QED BY <2>3
<1>5. CASE ok /\ tag = "CWJAP"
  <2> DEFINE p == [e EXCEPT !.wifi = TRUE]
             q == [p EXCEPT !.state = "MQTT_CONFIGURING"]
  <2>1. n = q
    BY <1>1, <1>5, Zenon DEF EspSucceeded, SetupTags
  <2>2. p \in EspRecord /\ p.wifi = TRUE
    BY EspFacts, EspWifiSet, Zenon
  <2> HIDE DEF p
  <2>3. "MQTT_CONFIGURING" \in EspState
    BY EspFacts
  <2>4. q \in EspRecord /\ q.state = "MQTT_CONFIGURING" /\ q.wifi = p.wifi
    BY <2>2, <2>3, EspStateSet, Zenon
  <2> HIDE DEF q
  <2> QED BY <2>1, <2>2, <2>4, EspFacts
<1>6. CASE ~ok /\ tag = "AT"
  <2> DEFINE p == [e EXCEPT !.delay = RetryTicks]
             q == [p EXCEPT !.bootStep = 0]
  <2>1. p \in EspRecord /\ p.state = e.state /\ p.wifi = e.wifi
    BY DelayFacts, EspDelaySet, Zenon
  <2>2. n = q
    BY <1>1, <1>6, Zenon DEF EspFailed
  <2> HIDE DEF p
  <2>3. q \in EspRecord /\ q.state = p.state /\ q.wifi = p.wifi
    BY <2>1, EspFacts, EspBootSet, Zenon
  <2> HIDE DEF q
  <2> QED BY <2>1, <2>2, <2>3
<1>7. CASE ~ok /\ tag = "CWJAP"
  <2> DEFINE p == [e EXCEPT !.wifi = FALSE]
             q == [p EXCEPT !.state = "JOIN_AP"]
  <2>1. n = q
    BY <1>1, <1>7, Zenon DEF EspFailed
  <2>2. p \in EspRecord /\ p.wifi = FALSE
    BY EspFacts, EspWifiSet, Zenon
  <2> HIDE DEF p
  <2>3. q \in EspRecord /\ q.state = "JOIN_AP" /\ q.wifi = p.wifi
    BY <2>2, EspFacts, EspStateSet, Zenon
  <2> HIDE DEF q
  <2> QED BY <2>1, <2>2, <2>3, EspFacts
<1>8. CASE ~ok /\ tag \notin {"AT", "CWJAP"}
  <2>1. n = [e EXCEPT !.state = "ERROR"]
    BY <1>1, <1>8, Zenon DEF EspFailed
  <2>2. n \in EspRecord /\ n.state = "ERROR" /\ n.wifi = e.wifi
    BY <2>1, EspFacts, EspStateSet, Zenon
  <2> QED BY <2>2, EspFacts
<1> QED BY <1>2, <1>3, <1>4, <1>5, <1>6, <1>7, <1>8 DEF EspTags

LEMMA WifiLostIs ==
  ASSUME NEW e \in EspRecord
  PROVE  /\ WifiLost(e) \in EspRecord /\ WifiLost(e).wifi = FALSE
         /\ WifiLost(e).state = "JOIN_AP" /\ WifiLost(e).setupStep = e.setupStep
<1> DEFINE p == [e EXCEPT !.wifi = FALSE]
           q == [p EXCEPT !.state = "JOIN_AP"]
<1>1. WifiLost(e) = q
  BY Zenon DEF WifiLost
<1>2. p \in EspRecord /\ p.wifi = FALSE /\ p.setupStep = e.setupStep
  BY EspFacts, EspWifiSet, Zenon
<1> HIDE DEF p
<1>3. q \in EspRecord /\ q.state = "JOIN_AP" /\ q.wifi = p.wifi /\ q.setupStep = p.setupStep
  BY <1>2, EspFacts, EspStateSet, Zenon
<1> HIDE DEF q
<1> QED BY <1>1, <1>2, <1>3
---------------------------------------------------------------------------------
(* The three state machines. *)

\* A driver that is not joined may send a command of its own, and move to
\* another state in which it is not.
LEMMA OwnCommand ==
  ASSUME NEW a, NEW e, NEW m, TickOK(a, e, m), e.wifi = FALSE,
         NEW tag \in EspTags \cup {"none"}, tag \in SetupTags => e.setupStep \in 0 .. 2,
         NEW f \in EspRecord, f.wifi = FALSE, f.state \notin MqttPhases, f.setupStep = e.setupStep
  PROVE  TickOK(Issued(a, tag), f, m)
<1>1. tag \in Tags \cup {"none"}
  BY TagFacts
<1>2. CASE Issued(a, tag) = a
  BY <1>2 DEF TickOK, DriverOK
<1>3. CASE a = IdleEngine /\ tag \in Tags /\ Issued(a, tag) = Waiting(Plain(tag))
  <2>1. Plain(tag) \in Command /\ Plain(tag).tag = tag
    BY <1>3, CommandFacts
  <2>2. InHand(Issued(a, tag)) = {Plain(tag)}
    BY <1>3, <2>1, WaitingFacts
  <2>3. m.publishBusy # TRUE /\ m.subscribeBusy # TRUE
    BY <1>3, EngineFacts DEF TickOK, BusyOK, Held
  <2>4. Held(Issued(a, tag), SetupTags) => tag \in SetupTags
    BY <2>1, <2>2 DEF Held
  <2>5. EngineOK(Issued(a, tag))
    BY <1>3, <2>1 DEF EngineOK
  <2> QED BY <2>3, <2>4, <2>5 DEF TickOK, BusyOK, DriverOK
<1> QED BY <1>1, <1>2, <1>3, IssuedIs DEF TickOK

LEMMA NoCommandIssued == ASSUME NEW a PROVE Issued(a, "none") = a
BY DEF Issued

LEMMA BootTickOK ==
  ASSUME NEW a, NEW e, NEW m, TickOK(a, e, m), BootTick(a, e)
  PROVE  TickOK(at', esp', m) /\ esp'.state \notin MqttPhases
<1>1. e \in EspRecord /\ e.state = "BOOT" /\ e.state \notin MqttPhases /\ e.wifi = FALSE
  BY EspFacts DEF BootTick, TickOK, DriverOK, EspRecord
<1>2. CASE e.delay > 0
  <2>1. at' = a /\ esp' = [e EXCEPT !.delay = e.delay - 1]
    BY <1>2 DEF BootTick
  <2>2. e.delay - 1 \in 0 .. TickModulus - 1
    BY <1>1, <1>2, DelayAssumption DEF EspRecord
  <2>3. esp' \in EspRecord /\ esp'.wifi = FALSE /\ esp'.state = e.state /\ esp'.setupStep = e.setupStep
    BY <1>1, <2>1, <2>2, EspDelaySet, Zenon
  <2>4. TickOK(Issued(a, "none"), esp', m)
    BY <1>1, <2>3, OwnCommand DEF EspTags, SetupTags
  <2> QED BY <1>1, <2>1, <2>3, <2>4, NoCommandIssued
<1>3. CASE ~(e.delay > 0)
  <2>1. at' = Issued(a, BootCommand(e)) /\ (esp' = [e EXCEPT !.bootStep = 1] \/ esp' = e)
    BY <1>3, Zenon DEF BootTick
  <2>2. esp' \in EspRecord /\ esp'.wifi = FALSE /\ esp'.state = e.state /\ esp'.setupStep = e.setupStep
    <3>1. CASE esp' = e
      BY <1>1, <3>1
    <3>2. CASE esp' = [e EXCEPT !.bootStep = 1]
      BY <1>1, <3>2, EspBootSet, EspFacts, Zenon
    <3> QED BY <2>1, <3>1, <3>2
  <2>3. BootCommand(e) \in {"AT", "RST", "none"}
    BY Zenon DEF BootCommand
  <2>4. BootCommand(e) \in EspTags \cup {"none"} /\ BootCommand(e) \notin SetupTags
    BY <2>3 DEF EspTags, SetupTags
  <2>5. TickOK(Issued(a, BootCommand(e)), esp', m)
    BY <1>1, <2>2, <2>4, OwnCommand
  <2> QED BY <1>1, <2>1, <2>2, <2>5
<1> QED BY <1>2, <1>3

LEMMA SetupTickOK ==
  ASSUME NEW a, NEW e, NEW m, TickOK(a, e, m), SetupTick(a, e)
  PROVE  TickOK(at', esp', m) /\ esp'.state \notin MqttPhases
<1>1. e \in EspRecord /\ e.state = "BASIC_SETUP" /\ e.state \notin MqttPhases /\ e.wifi = FALSE
  BY EspFacts DEF SetupTick, TickOK, DriverOK, EspRecord
<1>2. CASE e.delay > 0 /\ at' = a /\ esp' = [e EXCEPT !.delay = e.delay - 1]
  <2>1. e.delay - 1 \in 0 .. TickModulus - 1
    BY <1>1, <1>2, DelayAssumption DEF EspRecord
  <2>2. esp' \in EspRecord /\ esp'.wifi = FALSE /\ esp'.state = e.state /\ esp'.setupStep = e.setupStep
    BY <1>1, <1>2, <2>1, EspDelaySet, Zenon
  <2>3. TickOK(Issued(a, "none"), esp', m)
    BY <1>1, <2>2, OwnCommand DEF EspTags, SetupTags
  <2> QED BY <1>1, <1>2, <2>2, <2>3, NoCommandIssued
<1>3. CASE at' = a /\ esp' = e
  BY <1>1, <1>3
<1>4. CASE e.setupStep < 3 /\ at' = Issued(a, SetupCommand[e.setupStep + 1]) /\ esp' = e
  <2> DEFINE tag == SetupCommand[e.setupStep + 1]
  <2>1. e.setupStep \in 0 .. 2
    BY <1>1, <1>4 DEF EspRecord
  <2>2. tag \in SetupTags
    BY <2>1 DEF SetupCommand, SetupTags
  <2> HIDE DEF tag
  <2>3. TickOK(Issued(a, tag), e, m)
    BY <1>1, <2>1, <2>2, TagFacts, OwnCommand
  <2> QED BY <1>1, <1>4, <2>3 DEF tag
<1>5. CASE at' = a /\ esp' = [e EXCEPT !.state = "JOIN_AP"]
  <2>1. esp' \in EspRecord /\ esp'.wifi = FALSE /\ esp'.state = "JOIN_AP" /\ esp'.setupStep = e.setupStep
    BY <1>1, <1>5, EspFacts, EspStateSet, Zenon
  <2>2. TickOK(Issued(a, "none"), esp', m)
    BY <1>1, <2>1, OwnCommand, EspFacts DEF EspTags, SetupTags
  <2> QED BY <1>5, <2>1, <2>2, EspFacts, NoCommandIssued
<1> QED BY <1>2, <1>3, <1>4, <1>5 DEF SetupTick

\* The branch that finds the access point joined already is never taken.
LEMMA JoinTickOK ==
  ASSUME NEW a, NEW e, NEW m, TickOK(a, e, m), JoinTick(a, e)
  PROVE  TickOK(at', esp', m) /\ esp'.state \notin MqttPhases
<1>1. e \in EspRecord /\ e.state = "JOIN_AP" /\ e.state \notin MqttPhases /\ e.wifi = FALSE
  BY EspFacts DEF JoinTick, TickOK, DriverOK, EspRecord
<1>2. at' = Issued(a, "CWJAP") /\ esp' = e
  BY <1>1 DEF JoinTick
<1>3. TickOK(Issued(a, "CWJAP"), e, m)
  BY <1>1, OwnCommand DEF EspTags, SetupTags
<1> QED BY <1>1, <1>2, <1>3

LEMMA MqttTickOK ==
  ASSUME NEW a, NEW e, NEW m, TickOK(a, e, m), MqttTick(a, e, m)
  PROVE  /\ TickOK(at', esp', mqtt') /\ esp'.state = Mapped[mqtt'.state]
         /\ at' = Issued(a, MqttCommand(m)) /\ mqtt' = MqttTicked(m, AtIdle(a))
<1>1. e \in EspRecord /\ e.state \in MqttPhases /\ e.wifi = TRUE
  BY DEF MqttTick, TickOK, DriverOK
<1>2. at' = Issued(a, MqttCommand(m))
  BY <1>1, Zenon DEF MqttTick
<1>3. mqtt' = MqttTicked(m, AtIdle(a))
  BY <1>1, Zenon DEF MqttTick
<1>4. esp' = Synced(e, mqtt')
  BY <1>1, Zenon DEF MqttTick
<1>5. /\ mqtt' \in MqttRecord /\ mqtt'.publishBusy = m.publishBusy
      /\ mqtt'.subscribeBusy = m.subscribeBusy \/ (AtIdle(a) /\ MqttCommand(m) = "SUB")
      /\ MqttCommand(m) \in MqttTags \cup {"none"}
  <2>1. AtIdle(a) \in BOOLEAN
    BY DEF AtIdle
  <2> QED BY <1>3, <2>1, MqttTickedIs, Zenon DEF TickOK
<1>6. /\ esp' \in EspRecord /\ esp'.state = Mapped[mqtt'.state] /\ esp'.wifi = TRUE
      /\ esp'.setupStep = e.setupStep /\ esp'.state \in MqttPhases
  <2> DEFINE p == [e EXCEPT !.lastMqtt = mqtt'.state]
  <2>1. mqtt'.state \in MqttState
    BY <1>5 DEF MqttRecord
  <2>2. p \in EspRecord /\ p.wifi = e.wifi /\ p.setupStep = e.setupStep
    BY <1>1, <2>1 DEF EspRecord
  <2>3. esp' = [p EXCEPT !.state = Mapped[mqtt'.state]]
    BY <1>4, Zenon DEF Synced
  <2> HIDE DEF p
  <2>4. Mapped[mqtt'.state] \in MqttPhases /\ Mapped[mqtt'.state] \in EspState
    BY <2>1, PhaseFacts, EspFacts
  <2>5. esp' \in EspRecord /\ esp'.state = Mapped[mqtt'.state] /\ esp'.wifi = p.wifi
        /\ esp'.setupStep = p.setupStep
    BY <2>2, <2>3, <2>4, EspStateSet, Zenon
  <2> QED BY <1>1, <2>2, <2>4, <2>5
<1>7. TickOK(at', esp', mqtt')
  <2>1. CASE Issued(a, MqttCommand(m)) = a /\ (a # IdleEngine \/ MqttCommand(m) = "none")
    <3>1. mqtt'.subscribeBusy = m.subscribeBusy
      BY <1>5, <2>1, IdleIs DEF TickOK
    <3> QED BY <1>1, <1>2, <1>5, <1>6, <2>1, <3>1 DEF TickOK, BusyOK, DriverOK
  <2>2. CASE /\ a = IdleEngine /\ MqttCommand(m) \in Tags
             /\ Issued(a, MqttCommand(m)) = Waiting(Plain(MqttCommand(m)))
    <3> DEFINE tag == MqttCommand(m)
    <3>1. tag \in MqttTags
      BY <1>5, <2>2, TagFacts
    <3>2. Plain(tag) \in Command /\ Plain(tag).tag = tag
      BY <2>2, CommandFacts
    <3>3. InHand(at') = {Plain(tag)} /\ EngineOK(at')
      BY <1>2, <2>2, <3>2, WaitingFacts DEF EngineOK
    <3>4. m.publishBusy # TRUE /\ m.subscribeBusy # TRUE
      BY <2>2, EngineFacts DEF TickOK, BusyOK, Held
    <3>5. ~Held(at', EspTags) /\ ~Held(at', SetupTags)
      BY <3>1, <3>2, <3>3, TagFacts DEF Held
    <3>6. mqtt'.publishBusy # TRUE /\ (mqtt'.subscribeBusy = TRUE => tag = "SUB")
      BY <1>5, <3>4
    <3>7. BusyOK(at', mqtt')
      BY <3>2, <3>3, <3>6 DEF BusyOK, Held
    <3> QED BY <1>5, <1>6, <3>3, <3>5, <3>7 DEF TickOK, DriverOK
  <2>3. MqttCommand(m) \in Tags \cup {"none"}
    BY <1>5, TagFacts
  <2> QED BY <2>1, <2>2, <2>3, IssuedIs DEF TickOK
<1> QED BY <1>2, <1>3, <1>6, <1>7
---------------------------------------------------------------------------------
(* The end of a command, and the rest of a tick. *)

\* The engine, the driver and the MQTT layer after the end of the current command.
LEMMA DoneOK ==
  ASSUME TickOK(at, esp, mqtt), NEW ok \in BOOLEAN
  PROVE  TickOK(Finished(at), EspDone(esp, at.cur.tag, ok), MqttDone(mqtt, at.cur.tag, ok))
<1> DEFINE tag == at.cur.tag
<1>1. CASE at = IdleEngine \/ \E c \in Command : at = Waiting(c)
  <2>1. Finished(at) = at /\ at.cur = NoCommand
    BY <1>1, EngineFacts, WaitingFacts DEF IdleEngine
  <2>2. tag = "none" /\ tag \notin EspTags /\ tag \notin MqttTags
    BY <2>1, TagFacts DEF NoCommand
  <2>3. EspDone(esp, tag, ok) = esp /\ MqttDone(mqtt, tag, ok) = mqtt
    BY <2>2, Zenon DEF EspDone, MqttDone
  <2> QED BY <2>1, <2>3
<1>2. ASSUME NEW c \in Command, at = Sent(c)
      PROVE  TickOK(Finished(at), EspDone(esp, tag, ok), MqttDone(mqtt, tag, ok))
  <2>1. Finished(at) = IdleEngine /\ tag = c.tag /\ InHand(at) = {c}
    BY <1>2, SentFacts
  <2>2. tag \in Tags
    BY <2>1 DEF Command
  <2> HIDE DEF tag
  <2>3. AfterDone(mqtt, tag, ok, MqttDone(mqtt, tag, ok))
    BY MqttDoneIs DEF TickOK
  <2>4. MqttDone(mqtt, tag, ok) \in MqttRecord /\ BusyOK(IdleEngine, MqttDone(mqtt, tag, ok))
    BY <2>1, <2>3 DEF TickOK, BusyOK, Held, AfterDone
  <2>5. ~Held(IdleEngine, EspTags) /\ ~Held(IdleEngine, SetupTags)
    BY EngineFacts DEF Held
  <2>6. CASE tag \in EspTags
    <3>1. esp.wifi = FALSE /\ (tag \in SetupTags => esp.setupStep \in 0 .. 2) /\ esp \in EspRecord
      BY <2>1, <2>6 DEF TickOK, DriverOK, Held
    <3>2. esp.state \notin MqttPhases
      BY <3>1 DEF TickOK, DriverOK
    <3>3. EspDone(esp, tag, ok) \in EspRecord
          /\ (EspDone(esp, tag, ok).wifi = TRUE <=> EspDone(esp, tag, ok).state \in MqttPhases)
      BY <2>6, <3>1, <3>2, EspDoneIs
    <3> QED BY <2>1, <2>4, <2>5, <3>3 DEF TickOK, DriverOK, EngineOK
  <2>7. CASE tag \notin EspTags
    <3>1. EspDone(esp, tag, ok) = esp
      BY <2>7, Zenon DEF EspDone
    <3> QED BY <2>1, <2>4, <2>5, <3>1 DEF TickOK, DriverOK, EngineOK
  <2> QED BY <2>6, <2>7
<1> QED BY <1>1, <1>2 DEF TickOK, EngineOK

LEMMA StateMachinesOK ==
  ASSUME NEW a, NEW e, NEW m, TickOK(a, e, m), AppOK, StateMachines(a, e, m)
  PROVE  /\ TickOK(at', esp', mqtt') /\ AppOK'
         /\ esp'.state \in MqttPhases => esp'.state = Mapped[mqtt'.state]
<1>1. CASE BootTick(a, e) /\ mqtt' = m /\ UNCHANGED app
  BY <1>1, BootTickOK DEF AppOK
<1>2. CASE SetupTick(a, e) /\ mqtt' = m /\ UNCHANGED app
  BY <1>2, SetupTickOK DEF AppOK
<1>3. CASE JoinTick(a, e) /\ mqtt' = m /\ UNCHANGED app
  BY <1>3, JoinTickOK DEF AppOK
<1>4. CASE MqttTick(a, e, m)
  <2>1. app' = app \/ app' = [app EXCEPT !.due = TRUE]
    BY <1>4, Zenon DEF MqttTick, AppNotified
  <2>2. AppOK'
    BY <2>1 DEF AppOK, AppRecord
  <2> QED BY <1>4, <2>2, MqttTickOK
<1>5. CASE e.state = "ERROR" /\ at' = a /\ esp' = e /\ mqtt' = m /\ UNCHANGED app
  <2>1. TickOK(at', esp', mqtt')
    BY <1>5
  <2> QED BY <1>5, <2>1, EspFacts DEF AppOK
<1> QED BY <1>1, <1>2, <1>3, <1>4, <1>5 DEF StateMachines

\* What the module receives is a command.
LEMMA ReceivesOK ==
  ASSUME WorldOK, NEW started \in Command \cup {NoCommand}, Receives(started)
  PROVE  owed' \in Seq(Tags \cup {"garbled"}) /\ module' \in ModuleRecord
<1>1. CASE started = NoCommand
  BY <1>1 DEF Receives, WorldOK
<1>2. CASE started # NoCommand
  <2>1. module' = [module EXCEPT !.partial = ~started.whole]
    BY <1>2, Zenon DEF Receives
  <2>2. owed' = owed \/ owed' = Append(owed, "garbled") \/ owed' = Append(owed, started.tag)
    BY <1>2, Zenon DEF Receives
  <2>3. started.tag \in Tags /\ started.whole \in BOOLEAN
    BY <1>2 DEF Command
  <2>4. module' \in ModuleRecord
    BY <2>1, <2>3 DEF WorldOK, ModuleRecord
  <2>5. owed' \in Seq(Tags \cup {"garbled"})
    BY <2>2, <2>3 DEF WorldOK
  <2> QED BY <2>4, <2>5
<1> QED BY <1>1, <1>2

LEMMA RestOK ==
  ASSUME WorldOK, AppOK, NEW a, NEW e, NEW m, TickOK(a, e, m), Rest(a, e, m),
         faults' \in [Disturbances -> 0 .. MaxFaults]
  PROVE  IInv'
<1>1. TickOK(Started(a), e, m)
  BY StartedOK
<1>2. StateMachines(Started(a), e, m)
  BY DEF Rest
<1>3. /\ TickOK(at', esp', mqtt') /\ AppOK'
      /\ esp'.state \in MqttPhases => esp'.state = Mapped[mqtt'.state]
  BY <1>1, <1>2, StateMachinesOK
<1>4. Started(a).cur \in Command \cup {NoCommand}
  BY EngineFacts, WaitingFacts, SentFacts DEF TickOK, EngineOK, IdleEngine
<1>5. \E started \in Command \cup {NoCommand} : Receives(started)
  BY <1>4 DEF Rest
<1>6. owed' \in Seq(Tags \cup {"garbled"}) /\ module' \in ModuleRecord
  BY <1>5, ReceivesOK
<1>7. turn' = "main" /\ events' = events /\ messages' = messages
  BY DEF Rest
<1>8. WorldOK'
  BY <1>6, <1>7 DEF WorldOK
<1>9. DriverInStep'
  BY <1>3 DEF DriverInStep, TickOK, DriverOK
<1> QED BY <1>3, <1>8, <1>9 DEF IInv
---------------------------------------------------------------------------------
(* The other steps. *)

LEMMA DisturbedOK ==
  ASSUME WorldOK, NEW d, Disturbed(d)
  PROVE  /\ faults' \in [Disturbances -> 0 .. MaxFaults]
         /\ d \in Disturbances /\ faults' = [faults EXCEPT ![d] = faults[d] + 1]
<1>1. d \in Disturbances
  BY LinkAssumption DEF Disturbed
<1>2. \A x \in Disturbances : faults[x] \in Nat
  BY DEF WorldOK
<1>3. {"late", "lost", "error", "wifi", "broker"} = Disturbances
  BY DEF Disturbances
<1>4. faults[d] + 1 \in 0 .. MaxFaults
  <2>1. TotalFaults < MaxFaults
    BY DEF Disturbed
  <2>2. faults["late"] \in Nat /\ faults["lost"] \in Nat /\ faults["error"] \in Nat
        /\ faults["wifi"] \in Nat /\ faults["broker"] \in Nat
    BY <1>2, <1>3
  <2>3. d \in {"late", "lost", "error", "wifi", "broker"}
    BY <1>1, <1>3
  <2> QED BY <2>1, <2>2, <2>3, LinkAssumption DEF TotalFaults
<1>5. faults' = [faults EXCEPT ![d] = faults[d] + 1]
  BY DEF Disturbed
<1> QED BY <1>1, <1>4, <1>5 DEF WorldOK

LEMMA ModuleFacts ==
  ASSUME WorldOK
  PROVE  /\ ModuleOff \in ModuleRecord /\ ModuleOn \in ModuleRecord
         /\ \A tag : Executed(tag) \in ModuleRecord
         /\ Dropped \in ModuleRecord /\ Dropped.conn = FALSE /\ Dropped.sub = FALSE
         /\ Left \in ModuleRecord /\ Left.conn = FALSE /\ Left.sub = FALSE
         /\ [module EXCEPT !.conn = TRUE] \in ModuleRecord
         /\ [module EXCEPT !.conn = TRUE].sub = module.sub
<1>1. module \in ModuleRecord
  BY DEF WorldOK
<1>2. ModuleOff \in ModuleRecord /\ ModuleOn \in ModuleRecord
  BY DEF ModuleOff, ModuleOn, ModuleRecord
<1>3. [module EXCEPT !.joined = TRUE] \in ModuleRecord /\ [module EXCEPT !.sub = TRUE] \in ModuleRecord
      /\ [module EXCEPT !.conn = TRUE] \in ModuleRecord
      /\ [module EXCEPT !.conn = TRUE].sub = module.sub
  BY <1>1 DEF ModuleRecord
<1>4. ASSUME NEW tag PROVE Executed(tag) \in ModuleRecord
  BY <1>1, <1>2, <1>3, Zenon DEF Executed
<1>5. Dropped \in ModuleRecord /\ Dropped.conn = FALSE /\ Dropped.sub = FALSE
  <2> DEFINE p == [module EXCEPT !.conn = FALSE]
  <2>1. p \in ModuleRecord /\ p.conn = FALSE
    BY <1>1 DEF ModuleRecord
  <2>2. Dropped = [p EXCEPT !.sub = FALSE]
    BY Zenon DEF Dropped
  <2> HIDE DEF p
  <2> QED BY <2>1, <2>2 DEF ModuleRecord
<1>6. Left \in ModuleRecord /\ Left.conn = FALSE /\ Left.sub = FALSE
  <2>1. Left = [Dropped EXCEPT !.joined = FALSE]
    BY DEF Left
  <2> QED BY <1>5, <2>1 DEF ModuleRecord
<1> QED BY <1>2, <1>3, <1>4, <1>5, <1>6

LEMMA AnswerIInv ==
  ASSUME IInv, NEW ok \in BOOLEAN, Answer(ok)
  PROVE  IInv'
<1>1. TickOK(Finished(at), EspDone(esp, at.cur.tag, ok), MqttDone(mqtt, at.cur.tag, ok))
  BY DoneOK DEF IInv
<1>2. TickOK(at', esp', mqtt')
  BY <1>1 DEF Answer, CommandDone
<1>3. faults' = faults \/ Disturbed("error")
  BY Zenon DEF Answer
<1>4. faults' \in [Disturbances -> 0 .. MaxFaults]
  BY <1>3, DisturbedOK DEF IInv, WorldOK
<1>5. owed' \in Seq(Tags \cup {"garbled"})
  BY DEF Answer, IInv, WorldOK
<1>6. module' = module \/ \E tag : module' = Executed(tag)
  BY Zenon DEF Answer
<1>7. module' \in ModuleRecord
  BY <1>6, ModuleFacts DEF IInv, WorldOK
<1>8. turn' = "esp" /\ app' = app /\ events' = events /\ messages' = messages
  BY DEF Answer
<1>9. WorldOK' /\ AppOK' /\ DriverInStep'
  BY <1>4, <1>5, <1>7, <1>8 DEF IInv, WorldOK, AppOK, DriverInStep
<1> QED BY <1>2, <1>9 DEF IInv

LEMMA LossIInv ==
  ASSUME IInv, Loss
  PROVE  IInv'
<1>1. faults' \in [Disturbances -> 0 .. MaxFaults]
  BY DisturbedOK DEF Loss, IInv
<1>2. owed' \in Seq(Tags \cup {"garbled"})
  BY DEF Loss, IInv, WorldOK
<1>3. module' = module \/ \E tag : module' = Executed(tag)
  <2>1. module' \in {module} \cup IF Executes(Head(owed)) THEN {Executed(Head(owed))} ELSE {}
    BY DEF Loss
  <2> QED BY <2>1
<1>4. module' \in ModuleRecord
  BY <1>3, ModuleFacts DEF IInv, WorldOK
<1>5. UNCHANGED <<turn, at, mqtt, esp, app, events, messages>>
  BY DEF Loss
<1>6. WorldOK' /\ AppOK' /\ DriverInStep'
  BY <1>1, <1>2, <1>4, <1>5 DEF IInv, WorldOK, AppOK, DriverInStep
<1>7. TickOK(at', esp', mqtt')
  BY <1>5 DEF IInv
<1> QED BY <1>6, <1>7 DEF IInv

\* Lines that are no answer: they leave the engine and the queue alone.
LEMMA LineIInv ==
  ASSUME IInv, UNCHANGED <<at, app, owed, events, messages>>, turn' = "esp",
         module' \in ModuleRecord, faults' \in [Disturbances -> 0 .. MaxFaults],
         esp' \in EspRecord, mqtt' \in MqttRecord,
         DriverOK(at, esp'), BusyOK(at, mqtt')
  PROVE  IInv'
<1>1. TickOK(at', esp', mqtt')
  BY DEF IInv, TickOK
<1>2. WorldOK' /\ AppOK' /\ DriverInStep'
  BY DEF IInv, WorldOK, AppOK, DriverInStep
<1> QED BY <1>1, <1>2 DEF IInv

LEMMA ReadyLineIInv ==
  ASSUME IInv, ReadyLine
  PROVE  IInv'
<1>1. esp' = [esp EXCEPT !.delay = 0]
  BY DEF ReadyLine, Ready
<1>2. esp' \in EspRecord /\ esp'.state = esp.state /\ esp'.wifi = esp.wifi /\ esp'.setupStep = esp.setupStep
  BY <1>1, DelayFacts, EspDelaySet, Zenon DEF IInv, TickOK
<1>3. DriverOK(at, esp')
  BY <1>2 DEF IInv, TickOK, DriverOK
<1> QED BY <1>2, <1>3, LineIInv DEF ReadyLine, IInv, TickOK, WorldOK

LEMMA ConnectedLineIInv ==
  ASSUME IInv, ConnectedLine
  PROVE  IInv'
<1>1. module' \in ModuleRecord
  BY ModuleFacts DEF ConnectedLine, IInv
<1>2. /\ mqtt' \in MqttRecord
      /\ mqtt'.publishBusy = mqtt.publishBusy /\ mqtt'.subscribeBusy = mqtt.subscribeBusy
  <2>1. mqtt' = mqtt \/ \E s \in MqttState : mqtt' = [mqtt EXCEPT !.state = s]
    <3>1. "SUBSCRIBED" \in MqttState /\ "CONNECTED" \in MqttState
      BY DEF MqttState
    <3> QED BY <3>1, Zenon DEF ConnectedLine, MqttConnectedLine
  <2>2. CASE mqtt' = mqtt
    BY <2>2 DEF IInv, TickOK
  <2>3. ASSUME NEW s \in MqttState, mqtt' = [mqtt EXCEPT !.state = s]
        PROVE  /\ mqtt' \in MqttRecord
               /\ mqtt'.publishBusy = mqtt.publishBusy /\ mqtt'.subscribeBusy = mqtt.subscribeBusy
    BY <2>3, MqttStateSet, Zenon DEF IInv, TickOK
  <2> QED BY <2>1, <2>2, <2>3
<1>3. BusyOK(at, mqtt')
  BY <1>2 DEF IInv, TickOK, BusyOK
<1> QED BY <1>1, <1>2, <1>3, LineIInv DEF ConnectedLine, IInv, TickOK, WorldOK

LEMMA DisconnectedLineIInv ==
  ASSUME IInv, DisconnectedLine
  PROVE  IInv'
<1>1. module' \in ModuleRecord /\ faults' \in [Disturbances -> 0 .. MaxFaults]
  BY ModuleFacts, DisturbedOK DEF DisconnectedLine, IInv
<1>2. mqtt' = mqtt \/ mqtt' = MqttDown(mqtt)
  BY DEF DisconnectedLine
<1>3. mqtt' \in MqttRecord /\ BusyOK(at, mqtt')
  BY <1>2, MqttDownIs DEF IInv, TickOK, BusyOK
<1> QED BY <1>1, <1>3, LineIInv DEF DisconnectedLine, IInv, TickOK

LEMMA WifiLostLineIInv ==
  ASSUME IInv, WifiLostLine
  PROVE  IInv'
<1>1. module' \in ModuleRecord /\ faults' \in [Disturbances -> 0 .. MaxFaults]
  BY ModuleFacts, DisturbedOK DEF WifiLostLine, IInv
<1>2. mqtt' = mqtt \/ mqtt' = MqttReset
  BY DEF WifiLostLine
<1>3. mqtt' \in MqttRecord /\ BusyOK(at, mqtt')
  BY <1>2, MqttResetIs DEF IInv, TickOK, BusyOK
<1>4. esp' = esp \/ esp' = WifiLost(esp)
  BY DEF WifiLostLine
<1>5. esp' \in EspRecord /\ DriverOK(at, esp')
  BY <1>4, WifiLostIs, EspFacts DEF IInv, TickOK, DriverOK
<1> QED BY <1>1, <1>3, <1>5, LineIInv DEF WifiLostLine, IInv

\* Publishing: accepted only by an idle engine, which then has the command.
Offered(a, m, c) == IF Accepts(m, a) THEN Enqueued(a, c) ELSE a

LEMMA PublishOK ==
  ASSUME NEW a, NEW e, NEW m, TickOK(a, e, m), NEW c \in Command, c.tag = "PUB"
  PROVE  /\ TickOK(Offered(a, m, c), e, MqttPublish(a, m))
         /\ MqttPublish(a, m).state = m.state
         /\ MqttPublish(a, m).subscribed = m.subscribed
         /\ Offered(a, m, c) = a \/ (a = IdleEngine /\ Offered(a, m, c) = Waiting(c))
<1>1. CASE ~Accepts(m, a)
  BY <1>1 DEF Offered, MqttPublish
<1>2. CASE Accepts(m, a)
  <2> DEFINE n == [m EXCEPT !.publishBusy = TRUE]
  <2>1. a = IdleEngine
    BY <1>2, IdleIs DEF Accepts, TickOK
  <2>2. Offered(a, m, c) = Waiting(c)
    BY <1>2, <2>1, EngineFacts DEF Offered
  <2>3. MqttPublish(a, m) = n
    BY <1>2 DEF MqttPublish, Published
  <2>4. n \in MqttRecord /\ n.publishBusy = TRUE /\ n.subscribeBusy = m.subscribeBusy
        /\ n.state = m.state /\ n.subscribed = m.subscribed
    BY DEF TickOK, MqttRecord
  <2>5. m.subscribeBusy # TRUE
    BY <2>1, EngineFacts DEF TickOK, BusyOK, Held
  <2>6. InHand(Waiting(c)) = {c} /\ EngineOK(Waiting(c))
    BY WaitingFacts DEF EngineOK
  <2>7. ~Held(Waiting(c), EspTags) /\ ~Held(Waiting(c), SetupTags) /\ Held(Waiting(c), {"PUB"})
    BY <2>6 DEF Held, EspTags, SetupTags
  <2> HIDE DEF n
  <2>8. TickOK(Waiting(c), e, n)
    BY <2>4, <2>5, <2>6, <2>7 DEF TickOK, BusyOK, DriverOK
  <2> QED BY <2>1, <2>2, <2>3, <2>4, <2>8
<1> QED BY <1>1, <1>2

LEMMA PublishCommandIs ==
  ASSUME NEW event \in 0 .. MaxEvents
  PROVE  /\ \A whole \in BOOLEAN : PublishCommand(event, whole) \in Command
         /\ PublishCommand(event, TRUE) \in Command
         /\ \A whole : PublishCommand(event, whole).tag = "PUB" /\ PublishCommand(event, whole).event = event
BY DEF PublishCommand, Command, Tags, MqttTags

LEMMA AtPublishIs ==
  ASSUME NEW a, NEW m, NEW event, NEW whole
  PROVE  AtPublish(a, m, event, whole) = Offered(a, m, PublishCommand(event, whole))
BY Zenon DEF AtPublish, Offered

LEMMA QueuedOK ==
  ASSUME NEW q \in Seq(1 .. MaxEvents), Len(q) <= EventQueueSize, NEW event \in 1 .. MaxEvents
  PROVE  /\ Queued(q, event) \in Seq(1 .. MaxEvents) /\ Len(Queued(q, event)) <= EventQueueSize
         /\ Len(Queued(q, event)) >= Len(q)
<1>1. CASE Len(q) < EventQueueSize
  <2>1. Queued(q, event) = Append(q, event)
    BY <1>1 DEF Queued
  <2>2. Append(q, event) \in Seq(1 .. MaxEvents) /\ Len(Append(q, event)) = Len(q) + 1 /\ Len(q) \in Nat
    OBVIOUS
  <2> QED BY <1>1, <2>1, <2>2, AppAssumption
<1>2. CASE ~(Len(q) < EventQueueSize)
  BY <1>2 DEF Queued
<1> QED BY <1>1, <1>2

LEMMA MessageLineIInv ==
  ASSUME IInv, MessageLine
  PROVE  IInv'
<1>1. messages' \in 0 .. MaxMessages
  BY LinkAssumption DEF MessageLine, IInv, WorldOK
<1>2. turn' = "esp" /\ UNCHANGED <<esp, owed, module, faults>>
  BY DEF MessageLine
<1>3. CASE /\ events < MaxEvents /\ events' = events + 1
           /\ app' = [app EXCEPT !.queue = Queued(app.queue, events + 1)]
           /\ UNCHANGED <<at, mqtt>>
  <2>1. events + 1 \in 1 .. MaxEvents
    BY <1>3, AtAssumption DEF IInv, WorldOK
  <2>2. Queued(app.queue, events + 1) \in Seq(1 .. MaxEvents)
        /\ Len(Queued(app.queue, events + 1)) <= EventQueueSize
    BY <2>1, QueuedOK DEF IInv, AppOK, AppRecord
  <2>3. AppOK'
    BY <1>3, <2>2 DEF IInv, AppOK, AppRecord
  <2>4. WorldOK' /\ DriverInStep'
    BY <1>1, <1>2, <1>3, <2>1 DEF IInv, WorldOK, DriverInStep
  <2>5. TickOK(at', esp', mqtt')
    BY <1>2, <1>3 DEF IInv
  <2> QED BY <2>3, <2>4, <2>5 DEF IInv
<1>4. ASSUME NEW whole \in BOOLEAN, at' = AtPublish(at, mqtt, 0, whole), mqtt' = MqttPublish(at, mqtt),
             UNCHANGED <<events, app>>
      PROVE  IInv'
  <2>1. 0 \in 0 .. MaxEvents
    BY AtAssumption
  <2> DEFINE c == PublishCommand(0, whole)
  <2>a. c \in Command /\ c.tag = "PUB" /\ at' = Offered(at, mqtt, c)
    BY <1>4, <2>1, PublishCommandIs, AtPublishIs
  <2> HIDE DEF c
  <2>2. TickOK(at', esp', mqtt')
    BY <1>2, <1>4, <2>a, PublishOK DEF IInv
  <2>3. WorldOK' /\ AppOK' /\ DriverInStep'
    BY <1>1, <1>2, <1>4 DEF IInv, WorldOK, AppOK, DriverInStep
  <2> QED BY <2>2, <2>3 DEF IInv
<1>5. CASE UNCHANGED <<events, app, at, mqtt>>
  <2>1. TickOK(at', esp', mqtt')
    BY <1>2, <1>5 DEF IInv
  <2>2. WorldOK' /\ AppOK' /\ DriverInStep'
    BY <1>1, <1>2, <1>5 DEF IInv, WorldOK, AppOK, DriverInStep
  <2> QED BY <2>1, <2>2 DEF IInv
<1>6. \/ /\ events < MaxEvents /\ events' = events + 1
         /\ app' = [app EXCEPT !.queue = Queued(app.queue, events + 1)]
         /\ UNCHANGED <<at, mqtt>>
      \/ \E whole \in BOOLEAN : /\ at' = AtPublish(at, mqtt, 0, whole) /\ mqtt' = MqttPublish(at, mqtt)
                                /\ UNCHANGED <<events, app>>
      \/ UNCHANGED <<events, app, at, mqtt>>
  BY DEF MessageLine
<1> QED BY <1>3, <1>4, <1>5, <1>6

\* The heartbeat and the event that one call of mqtt_app_tick publishes.
LEMMA AppTickIs ==
  ASSUME IInv, AppTick
  PROVE  /\ IInv'
         /\ mqtt'.state = mqtt.state /\ mqtt'.subscribed = mqtt.subscribed
         /\ \/ at' = at
            \/ at = IdleEngine /\ \E c \in Command : c.tag = "PUB" /\ at' = Waiting(c)
<1> DEFINE beats == app.due /\ CanPublish(mqtt)
           takes == app.queue # <<>> /\ CanPublish(mqtt)
           beat == PublishCommand(0, TRUE)
           report == PublishCommand(Head(app.queue), TRUE)
           a == IF beats THEN Offered(at, mqtt, beat) ELSE at
           m == IF beats THEN MqttPublish(at, mqtt) ELSE mqtt
<1>1. /\ app' = [queue |-> IF takes THEN Tail(app.queue) ELSE app.queue, due |-> FALSE]
      /\ at' = (IF takes THEN Offered(a, m, report) ELSE a)
      /\ mqtt' = (IF takes THEN MqttPublish(a, m) ELSE m)
  BY Zenon DEF AppTick, mqtt_app_tick, AppTicked, AtPublish, Offered
<1>2. turn = "main" /\ UNCHANGED <<turn, esp, owed, module, faults, events, messages>>
  BY DEF AppTick
<1>3. beat \in Command /\ beat.tag = "PUB"
  <2>1. 0 \in 0 .. MaxEvents
    BY AtAssumption
  <2> QED BY <2>1, PublishCommandIs
<1>4. TickOK(at, esp, mqtt)
  BY DEF IInv
<1>5. takes => /\ report \in Command /\ report.tag = "PUB"
               /\ Tail(app.queue) \in Seq(1 .. MaxEvents) /\ Len(Tail(app.queue)) <= EventQueueSize
  <2> DEFINE q == app.queue
  <2>1. q \in Seq(1 .. MaxEvents) /\ Len(q) <= EventQueueSize
    BY DEF IInv, AppOK, AppRecord
  <2> SUFFICES ASSUME takes
               PROVE  /\ report \in Command /\ report.tag = "PUB"
                      /\ Tail(q) \in Seq(1 .. MaxEvents) /\ Len(Tail(q)) <= EventQueueSize
    OBVIOUS
  <2>2. q # <<>>
    OBVIOUS
  <2> HIDE DEF q
  <2>3. Head(q) \in 1 .. MaxEvents /\ Tail(q) \in Seq(1 .. MaxEvents) /\ Len(Tail(q)) <= Len(q)
    <3>1. Head(q) \in 1 .. MaxEvents /\ Tail(q) \in Seq(1 .. MaxEvents) /\ Len(Tail(q)) = Len(q) - 1
      BY <2>1, <2>2, HeadTailProperties
    <3>2. Len(q) \in Nat
      BY <2>1
    <3> QED BY <3>1, <3>2
  <2>4. Len(q) \in Nat /\ Len(Tail(q)) \in Nat /\ Head(q) \in 0 .. MaxEvents
    BY <2>1, <2>3
  <2>5. PublishCommand(Head(q), TRUE) \in Command /\ PublishCommand(Head(q), TRUE).tag = "PUB"
    BY <2>4, PublishCommandIs
  <2>6. Len(Tail(q)) <= EventQueueSize
    BY <2>1, <2>3, <2>4, AppAssumption
  <2>7. report \in Command /\ report.tag = "PUB"
    BY <2>5, Zenon DEF q
  <2> QED BY <2>3, <2>6, <2>7
<1> HIDE DEF beat, report
<1>6. /\ TickOK(a, esp, m) /\ m.state = mqtt.state /\ m.subscribed = mqtt.subscribed
      /\ a = at \/ (at = IdleEngine /\ a = Waiting(beat))
  <2>1. CASE beats
    BY <1>3, <1>4, <2>1, PublishOK
  <2>2. CASE ~beats
    BY <1>4, <2>2
  <2> QED BY <2>1, <2>2
<1> HIDE DEF a, m, beats
<1>7. /\ TickOK(at', esp, mqtt') /\ mqtt'.state = mqtt.state /\ mqtt'.subscribed = mqtt.subscribed
      /\ \/ at' = at
         \/ at = IdleEngine /\ \E c \in Command : c.tag = "PUB" /\ at' = Waiting(c)
  <2>1. CASE takes
    <3>1. /\ TickOK(at', esp, mqtt') /\ mqtt'.state = m.state /\ mqtt'.subscribed = m.subscribed
          /\ at' = a \/ (a = IdleEngine /\ at' = Waiting(report))
      BY <1>1, <1>5, <1>6, <2>1, PublishOK
    <3>2. Waiting(beat) # IdleEngine
      BY <1>3, EngineFacts, WaitingFacts
    <3> QED BY <1>3, <1>5, <1>6, <2>1, <3>1, <3>2
  <2>2. CASE ~takes
    BY <1>1, <1>3, <1>6, <2>2
  <2> QED BY <2>1, <2>2
<1>8. AppOK'
  <2>1. CASE takes
    BY <1>1, <1>5, <2>1 DEF AppOK, AppRecord
  <2>2. CASE ~takes
    BY <1>1, <2>2 DEF IInv, AppOK, AppRecord
  <2> QED BY <2>1, <2>2
<1>9. WorldOK'
  BY <1>2 DEF IInv, WorldOK
<1>10. DriverInStep'
  BY <1>2, <1>7 DEF IInv, DriverInStep
<1>11. TickOK(at', esp', mqtt')
  BY <1>2, <1>7
<1>12. IInv'
  BY <1>8, <1>9, <1>10, <1>11 DEF IInv
<1> QED BY <1>7, <1>12

LEMMA HeartbeatDueIInv ==
  ASSUME IInv, HeartbeatDue
  PROVE  IInv'
<1>1. AppOK'
  BY DEF HeartbeatDue, IInv, AppOK, AppRecord
<1>2. UNCHANGED <<turn, at, mqtt, esp, owed, module, faults, events, messages>>
  BY DEF HeartbeatDue
<1>3. TickOK(at', esp', mqtt')
  BY <1>2 DEF IInv
<1>4. WorldOK' /\ DriverInStep'
  BY <1>2 DEF IInv, WorldOK, DriverInStep
<1> QED BY <1>1, <1>3, <1>4 DEF IInv

\* One event or two: the queue does not get shorter.
LEMMA HappensIInv ==
  ASSUME IInv, Happens
  PROVE  IInv' /\ Len(app'.queue) >= Len(app.queue)
<1>1. PICK n \in 1 .. 2 : /\ events + n <= MaxEvents
                          /\ events' = events + n
                          /\ app' = [app EXCEPT !.queue = QueuedAll(app.queue, events + 1, n)]
  BY DEF Happens
<1>2. events \in Nat /\ events + 1 \in 1 .. MaxEvents /\ (n = 2 => events + 1 + 1 \in 1 .. MaxEvents)
      /\ events' \in 0 .. MaxEvents
  BY <1>1, AtAssumption DEF IInv, WorldOK
<1>3. app.queue \in Seq(1 .. MaxEvents) /\ Len(app.queue) <= EventQueueSize
  BY DEF IInv, AppOK, AppRecord
<1> DEFINE q == Queued(app.queue, events + 1)
           r == Queued(q, events + 1 + 1)
<1>4. q \in Seq(1 .. MaxEvents) /\ Len(q) <= EventQueueSize /\ Len(q) >= Len(app.queue)
  BY <1>2, <1>3, QueuedOK
<1> HIDE DEF q
<1>5. n = 2 => r \in Seq(1 .. MaxEvents) /\ Len(r) <= EventQueueSize /\ Len(r) >= Len(q)
  BY <1>2, <1>4, QueuedOK
<1> HIDE DEF r
<1>6. app'.queue = q \/ (n = 2 /\ app'.queue = r)
  <2>1. app'.queue = QueuedAll(app.queue, events + 1, n)
    BY <1>1 DEF IInv, AppOK, AppRecord
  <2>2. QueuedAll(app.queue, events + 1, n) = q \/ (n = 2 /\ QueuedAll(app.queue, events + 1, n) = r)
    BY DEF QueuedAll, q, r
  <2> QED BY <2>1, <2>2
<1>7. app'.queue \in Seq(1 .. MaxEvents) /\ Len(app'.queue) <= EventQueueSize
      /\ Len(app'.queue) >= Len(app.queue)
  <2>1. CASE app'.queue = q
    BY <1>4, <2>1
  <2>2. CASE n = 2 /\ app'.queue = r
    <3>1. r \in Seq(1 .. MaxEvents) /\ Len(r) <= EventQueueSize /\ Len(r) >= Len(q)
      BY <1>5, <2>2
    <3>2. Len(r) \in Nat /\ Len(q) \in Nat /\ Len(app.queue) \in Nat
      BY <1>3, <1>4, <3>1
    <3> QED BY <1>4, <2>2, <3>1, <3>2
  <2> QED BY <1>6, <2>1, <2>2
<1>8. AppOK'
  <2>1. app' = [app EXCEPT !.queue = app'.queue]
    BY <1>1 DEF IInv, AppOK, AppRecord
  <2> QED BY <1>7, <2>1 DEF IInv, AppOK, AppRecord
<1>9. UNCHANGED <<turn, at, mqtt, esp, owed, module, faults, messages>>
  BY DEF Happens
<1>10. TickOK(at', esp', mqtt')
  BY <1>9 DEF IInv
<1>11. WorldOK' /\ DriverInStep'
  BY <1>2, <1>9 DEF IInv, WorldOK, DriverInStep
<1> QED BY <1>7, <1>8, <1>10, <1>11 DEF IInv

LEMMA TicksIInv ==
  ASSUME IInv, esp8266_tick_5ms \/ TimeoutTick
  PROVE  IInv'
<1>1. CASE esp8266_tick_5ms
  <2>1. Rest(at, esp, mqtt) /\ faults' \in [Disturbances -> 0 .. MaxFaults]
    BY <1>1 DEF esp8266_tick_5ms, IInv, WorldOK
  <2> QED BY <2>1, RestOK DEF IInv
<1>2. CASE TimeoutTick
  <2> DEFINE a == Finished(at)
             e == EspDone(esp, at.cur.tag, FALSE)
             m == MqttDone(mqtt, at.cur.tag, FALSE)
  <2>1. TickOK(a, e, m)
    BY DoneOK DEF IInv
  <2>2. Rest(a, e, m)
    BY <1>2 DEF TimeoutTick
  <2>3. faults' = faults \/ Disturbed("late")
    BY <1>2 DEF TimeoutTick
  <2>4. faults' \in [Disturbances -> 0 .. MaxFaults]
    BY <2>3, DisturbedOK DEF IInv, WorldOK
  <2> HIDE DEF a, e, m
  <2> QED BY <2>1, <2>2, <2>4, RestOK DEF IInv
<1> QED BY <1>1, <1>2
---------------------------------------------------------------------------------
LEMMA InitIInv == Init => IInv
<1> SUFFICES ASSUME Init PROVE IInv
  OBVIOUS
<1>1. at = IdleEngine
  BY DEF Init, AtInit, IdleEngine
<1>2. mqtt \in MqttRecord /\ mqtt.publishBusy = FALSE /\ mqtt.subscribeBusy = FALSE
  <2> DEFINE p == [MqttReset EXCEPT !.connectReq = TRUE]
  <2>1. mqtt = [p EXCEPT !.subscribeReq = TRUE]
    BY Zenon DEF Init, MqttInit
  <2>2. p \in MqttRecord /\ p.publishBusy = FALSE /\ p.subscribeBusy = FALSE
    BY MqttResetIs DEF MqttRecord
  <2> HIDE DEF p
  <2> QED BY <2>1, <2>2 DEF MqttRecord
<1>3. esp \in EspRecord /\ esp.wifi = FALSE /\ esp.state = "BOOT"
  BY EspFacts, DelayFacts DEF Init, EspInit, EspRecord, MqttState
<1>4. ~Held(at, EspTags) /\ ~Held(at, SetupTags)
  BY <1>1, EngineFacts DEF Held
<1>5. TickOK(at, esp, mqtt)
  BY <1>1, <1>2, <1>3, <1>4, EspFacts DEF TickOK, EngineOK, BusyOK, DriverOK
<1>6. AppOK
  <2>1. <<>> \in Seq(1 .. MaxEvents) /\ Len(<<>>) = 0
    OBVIOUS
  <2> QED BY <2>1, AppAssumption DEF Init, AppInit, AppOK, AppRecord
<1>7. WorldOK
  <2>1. owed \in Seq(Tags \cup {"garbled"})
    BY DEF Init
  <2>2. module \in ModuleRecord
    <3>1. ModuleOff \in ModuleRecord /\ ModuleOn \in ModuleRecord
      BY DEF ModuleOff, ModuleOn, ModuleRecord
    <3> QED BY <3>1 DEF Init
  <2>3. faults \in [Disturbances -> 0 .. MaxFaults]
    BY LinkAssumption DEF Init
  <2> QED BY <2>1, <2>2, <2>3, AtAssumption, LinkAssumption DEF Init, WorldOK
<1>8. DriverInStep
  BY <1>3, EspFacts DEF DriverInStep
<1> QED BY <1>5, <1>6, <1>7, <1>8 DEF IInv

LEMMA StutterIInv == IInv /\ UNCHANGED vars => IInv'
<1> SUFFICES ASSUME IInv, UNCHANGED vars PROVE IInv'
  OBVIOUS
<1>1. TickOK(at', esp', mqtt')
  BY DEF vars, IInv
<1>2. WorldOK' /\ AppOK' /\ DriverInStep'
  BY DEF vars, IInv, WorldOK, AppOK, DriverInStep
<1> QED BY <1>1, <1>2 DEF IInv

LEMMA NextIInv == IInv /\ [Next]_vars => IInv'
<1> SUFFICES ASSUME IInv, [Next]_vars PROVE IInv'
  OBVIOUS
<1>1. CASE \E ok \in BOOLEAN : Answer(ok)
  BY <1>1, AnswerIInv
<1>2. CASE ReadyLine \/ ConnectedLine \/ DisconnectedLine \/ WifiLostLine
  BY <1>2, ReadyLineIInv, ConnectedLineIInv, DisconnectedLineIInv, WifiLostLineIInv
<1>3. CASE MessageLine \/ Loss
  BY <1>3, MessageLineIInv, LossIInv
<1>4. CASE esp8266_tick_5ms \/ TimeoutTick
  BY <1>4, TicksIInv
<1>5. CASE AppTick \/ HeartbeatDue \/ Happens
  BY <1>5, AppTickIs, HeartbeatDueIInv, HappensIInv
<1>6. CASE UNCHANGED vars
  BY <1>6, StutterIInv
<1> QED BY <1>1, <1>2, <1>3, <1>4, <1>5, <1>6 DEF Next

LEMMA IInvInvariant == Spec => []IInv
BY InitIInv, NextIInv, PTL DEF Spec

LEMMA IInvImplies == IInv => TypeOK /\ OneCommand
<1> SUFFICES ASSUME IInv PROVE TypeOK /\ OneCommand
  OBVIOUS
<1>1. CASE at = IdleEngine
  <2>1. at.queue = <<>> /\ at.cur = NoCommand
    BY <1>1 DEF IdleEngine
  <2>2. at.queue \in Seq(Command) /\ Len(at.queue) = 0
    BY <2>1
  <2> QED BY <2>1, <2>2, AtAssumption
       DEF IInv, TickOK, AppOK, WorldOK, TypeOK, AtTypeOK, MqttTypeOK, EspTypeOK, AppTypeOK, OneCommand,
           MqttRecord, EspRecord, AppRecord, ModuleRecord, BusyOK, Held
<1>2. ASSUME NEW c \in Command, at = Waiting(c) \/ at = Sent(c) PROVE TypeOK /\ OneCommand
  <2>1. \/ at.queue = <<c>> /\ at.cur = NoCommand
        \/ at.queue = <<>> /\ at.cur = c
    BY <1>2 DEF Waiting, Sent
  <2>2. AtTypeOK /\ Len(at.queue) + (IF at.cur = NoCommand THEN 0 ELSE 1) <= 1
    <3>1. CASE at.queue = <<c>> /\ at.cur = NoCommand
      <4>1. at.queue \in Seq(Command) /\ Len(at.queue) = 1
        BY <3>1
      <4> QED BY <3>1, <4>1, AtAssumption DEF AtTypeOK
    <3>2. CASE at.queue = <<>> /\ at.cur = c
      <4>1. at.queue \in Seq(Command) /\ Len(at.queue) = 0
        BY <3>2
      <4> QED BY <3>2, <4>1, AtAssumption DEF AtTypeOK
    <3> QED BY <2>1, <3>1, <3>2
  <2> QED BY <2>2
       DEF IInv, TickOK, AppOK, WorldOK, TypeOK, MqttTypeOK, EspTypeOK, AppTypeOK, OneCommand,
           MqttRecord, EspRecord, AppRecord, ModuleRecord, BusyOK, Held
<1> QED BY <1>1, <1>2 DEF IInv, TickOK, EngineOK

\* Every variable of the link keeps its type, the uint8_t delay included.
THEOREM TypeCorrect == Spec => []TypeOK
BY IInvInvariant, IInvImplies, PTL

\* Three state machines and the application share the engine, whose answers
\* carry no name: it never has two commands, and a busy flag is set only while
\* the command that clears it is in hand (esp8266_mqtt_publish).
THEOREM OneCommandCorrect == Spec => []OneCommand
BY IInvInvariant, IInvImplies, PTL

\* Between two ticks the driver's state is that of the MQTT layer, and it is
\* joined, whatever the module reports (esp8266_sync_mqtt_state).
THEOREM DriverInStepCorrect == Spec => []DriverInStep
<1>1. IInv => DriverInStep
  BY DEF IInv
<1> QED BY <1>1, IInvInvariant, PTL
---------------------------------------------------------------------------------
(* An event that leaves the queue. *)

\* With no heartbeat due and an idle engine, the event that is taken is published.
LEMMA TakenIsPublished ==
  ASSUME IInv, AppTick, ~app.due, AtIdle(at), Len(app'.queue) < Len(app.queue)
  PROVE  \E c \in InHand(at') : c.event = Head(app.queue)
<1> DEFINE takes == app.queue # <<>> /\ CanPublish(mqtt)
           report == PublishCommand(Head(app.queue), TRUE)
<1>1. at = IdleEngine
  BY IdleIs DEF IInv, TickOK
<1>2. mqtt.publishBusy = FALSE
  <2>1. mqtt.publishBusy # TRUE
    BY <1>1, EngineFacts DEF IInv, TickOK, BusyOK, Held
  <2> QED BY <2>1 DEF IInv, TickOK, MqttRecord
<1>3. /\ app'.queue = (IF takes THEN Tail(app.queue) ELSE app.queue)
      /\ at' = (IF takes THEN Offered(at, mqtt, report) ELSE at)
  <2>1. /\ app' = [queue |-> IF takes THEN Tail(app.queue) ELSE app.queue, due |-> FALSE]
        /\ at' = (IF takes THEN Offered(at, mqtt, report) ELSE at)
    BY Zenon DEF AppTick, mqtt_app_tick, AppTicked, AtPublish, Offered
  <2> QED BY <2>1
<1>4. Len(app.queue) \in Nat
  BY DEF IInv, AppOK, AppRecord
<1>5. takes
  BY <1>3, <1>4
<1>6. report \in Command /\ report.event = Head(app.queue)
  <2>1. Head(app.queue) \in 1 .. MaxEvents
    <3>1. app.queue \in Seq(1 .. MaxEvents)
      BY DEF IInv, AppOK, AppRecord
    <3> QED BY <1>5, <3>1, HeadTailProperties
  <2>2. Head(app.queue) \in 0 .. MaxEvents
    BY <2>1
  <2> QED BY <2>2, PublishCommandIs
<1> HIDE DEF report
<1>7. Offered(at, mqtt, report) = Waiting(report)
  BY <1>1, <1>2, <1>5, <1>6, EngineFacts DEF Offered, Accepts
<1> QED BY <1>3, <1>5, <1>6, <1>7, WaitingFacts

LEMMA QueueStays ==
  ASSUME IInv, Next, ~AppTick
  PROVE  Len(app'.queue) >= Len(app.queue)
<1>0. app.queue \in Seq(1 .. MaxEvents) /\ Len(app.queue) \in Nat /\ Len(app.queue) <= EventQueueSize
  BY DEF IInv, AppOK, AppRecord
<1>1. ASSUME app'.queue = app.queue PROVE Len(app'.queue) >= Len(app.queue)
  BY <1>0, <1>1
<1>2. CASE (\E ok \in BOOLEAN : Answer(ok)) \/ Loss
  BY <1>1, <1>2 DEF Answer, Loss
<1>3. CASE ReadyLine \/ ConnectedLine \/ DisconnectedLine \/ WifiLostLine
  BY <1>1, <1>3 DEF ReadyLine, ConnectedLine, DisconnectedLine, WifiLostLine
<1>4. CASE HeartbeatDue
  <2>1. app' = [app EXCEPT !.due = TRUE]
    BY <1>4 DEF HeartbeatDue
  <2> QED BY <1>1, <2>1 DEF IInv, AppOK, AppRecord
<1>5. CASE Happens
  BY <1>5, HappensIInv
<1>6. CASE MessageLine
  <2>1. app' = app \/ (events < MaxEvents /\ app' = [app EXCEPT !.queue = Queued(app.queue, events + 1)])
    BY <1>6 DEF MessageLine
  <2>2. CASE app' = app
    BY <1>1, <2>2
  <2>3. CASE events < MaxEvents /\ app' = [app EXCEPT !.queue = Queued(app.queue, events + 1)]
    <3>1. events + 1 \in 1 .. MaxEvents
      BY <2>3, AtAssumption DEF IInv, WorldOK
    <3>2. Len(Queued(app.queue, events + 1)) >= Len(app.queue)
      BY <1>0, <3>1, QueuedOK
    <3>3. app'.queue = Queued(app.queue, events + 1)
      BY <2>3 DEF IInv, AppOK, AppRecord
    <3> QED BY <3>2, <3>3
  <2> QED BY <2>1, <2>2, <2>3
<1>7. CASE esp8266_tick_5ms \/ TimeoutTick
  <2>1. \E a, e, m : StateMachines(a, e, m)
    BY <1>7 DEF esp8266_tick_5ms, TimeoutTick, Rest
  <2>2. app' = app \/ app' = [app EXCEPT !.due = TRUE]
    BY <2>1, Zenon DEF StateMachines, MqttTick, AppNotified
  <2>3. app'.queue = app.queue
    BY <2>2 DEF IInv, AppOK, AppRecord
  <2> QED BY <1>1, <2>3
<1> QED BY <1>2, <1>3, <1>4, <1>5, <1>6, <1>7 DEF Next

\* An event leaves the queue unpublished only when the heartbeat of the same
\* call took the engine or another command had it (mqtt_app_tick).
THEOREM LossOnlyWhenBusyCorrect == Spec => LossOnlyWhenBusy
<1> DEFINE Kept == Len(app'.queue) < Len(app.queue)
                     => \/ app.due
                        \/ ~AtIdle(at)
                        \/ \E c \in InHand(at)' : c.event = Head(app.queue)
<1>1. IInv /\ [Next]_vars => [Kept]_vars
  <2> SUFFICES ASSUME IInv, Next PROVE Kept
    OBVIOUS
  <2>1. CASE AppTick
    BY <2>1, TakenIsPublished
  <2>2. CASE ~AppTick
    <3>1. Len(app'.queue) >= Len(app.queue)
      BY <2>2, QueueStays
    <3>2. Len(app.queue) \in Nat /\ Len(app'.queue) \in Nat
      <4>1. IInv'
        BY NextIInv
      <4> QED BY <4>1 DEF IInv, AppOK, AppRecord
    <3> QED BY <3>1, <3>2
  <2> QED BY <2>1, <2>2
<1> QED BY <1>1, IInvInvariant, PTL DEF Spec, LossOnlyWhenBusy
---------------------------------------------------------------------------------
(* The subscription.  While no answer has come late, what the module owes is   *)
(* the answer to the command that is with it; the MQTT layer takes itself for  *)
(* subscribed only in the driver's MQTT states.                                *)
Prompt(a, o) ==
  o = <<>> \/ \E c \in Command : /\ a = Sent(c) /\ c.whole = TRUE
                                 /\ o = <<c.tag>> \/ o = <<"garbled">>

SubOK(m, e, d) ==
  m.subscribed = TRUE \/ m.state = "SUBSCRIBED" => e.state \in MqttPhases /\ d.sub = TRUE

HoldOK(a, e, d) == Held(a, {"SUB"}) /\ d.conn = TRUE => e.state \in MqttPhases

LinkOK(a, e, m, o, d) == Prompt(a, o) /\ SubOK(m, e, d) /\ HoldOK(a, e, d)
SInv == faults["late"] = 0 => LinkOK(at, esp, mqtt, owed, module)

\* A busy engine keeps its command over a tick, and a driver outside the MQTT
\* states does not touch the MQTT layer.
LEMMA StateMachinesTell ==
  ASSUME NEW a, NEW e, NEW m, TickOK(a, e, m), StateMachines(a, e, m)
  PROVE  /\ a # IdleEngine => at' = a
         /\ \/ MqttTick(a, e, m)
            \/ e.state \notin MqttPhases /\ mqtt' = m /\ (Held(at', {"SUB"}) => Held(a, {"SUB"}))
<1>1. ASSUME NEW tag \in EspTags \cup {"none"}
      PROVE  /\ a # IdleEngine => Issued(a, tag) = a
             /\ Held(Issued(a, tag), {"SUB"}) => Held(a, {"SUB"})
  <2>1. tag \in Tags \cup {"none"} /\ tag # "SUB"
    BY TagFacts DEF EspTags, SetupTags
  <2>2. CASE Issued(a, tag) = a
    BY <2>2
  <2>3. CASE a = IdleEngine /\ tag \in Tags /\ Issued(a, tag) = Waiting(Plain(tag))
    <3>1. InHand(Waiting(Plain(tag))) = {Plain(tag)} /\ Plain(tag).tag = tag
      BY <2>3, CommandFacts, WaitingFacts
    <3> QED BY <2>1, <2>3, <3>1 DEF Held
  <2> QED BY <2>1, <2>2, <2>3, IssuedIs DEF TickOK
<1>2. CASE BootTick(a, e) /\ mqtt' = m
  <2>1. BootCommand(e) \in {"AT", "RST", "none"}
    BY Zenon DEF BootCommand
  <2>2. BootCommand(e) \in EspTags \cup {"none"}
    BY <2>1 DEF EspTags
  <2>3. at' = a \/ at' = Issued(a, BootCommand(e))
    BY <1>2, Zenon DEF BootTick
  <2> QED BY <1>1, <1>2, <2>2, <2>3, EspFacts DEF BootTick
<1>3. CASE SetupTick(a, e) /\ mqtt' = m
  <2>1. at' = a \/ (e.setupStep < 3 /\ at' = Issued(a, SetupCommand[e.setupStep + 1]))
    BY <1>3 DEF SetupTick
  <2>2. e.state = "BASIC_SETUP"
    BY <1>3 DEF SetupTick
  <2>3. CASE at' = a
    BY <1>3, <2>2, <2>3, EspFacts
  <2>4. CASE e.setupStep < 3 /\ at' = Issued(a, SetupCommand[e.setupStep + 1])
    <3>1. e.setupStep \in 0 .. 2
      BY <2>4 DEF TickOK, EspRecord
    <3>2. SetupCommand[e.setupStep + 1] \in EspTags
      BY <3>1 DEF SetupCommand, SetupTags, EspTags
    <3> QED BY <1>1, <1>3, <2>2, <2>4, <3>2, EspFacts
  <2> QED BY <2>1, <2>3, <2>4
<1>4. CASE JoinTick(a, e) /\ mqtt' = m
  <2>1. at' = a \/ at' = Issued(a, "CWJAP")
    BY <1>4 DEF JoinTick
  <2>2. "CWJAP" \in EspTags /\ e.state = "JOIN_AP"
    BY <1>4 DEF EspTags, JoinTick
  <2> QED BY <1>1, <1>4, <2>1, <2>2, EspFacts
<1>5. CASE MqttTick(a, e, m)
  <2>1. at' = Issued(a, MqttCommand(m))
    BY <1>5, MqttTickOK
  <2>2. MqttCommand(m) \in MqttTags \cup {"none"}
    BY Zenon DEF MqttCommand, MqttWants, MqttTags
  <2>3. MqttCommand(m) \in Tags \cup {"none"}
    BY <2>2, TagFacts
  <2> QED BY <1>5, <2>1, <2>3, IssuedIs DEF TickOK
<1>6. CASE e.state = "ERROR" /\ at' = a /\ mqtt' = m
  BY <1>6, EspFacts
<1> QED BY <1>2, <1>3, <1>4, <1>5, <1>6 DEF StateMachines

LEMMA RestLinkOK ==
  ASSUME WorldOK, NEW a, NEW e, NEW m, TickOK(a, e, m), LinkOK(a, e, m, owed, module), Rest(a, e, m)
  PROVE  LinkOK(at', esp', mqtt', owed', module')
<1>1. TickOK(Started(a), e, m) /\ InHand(Started(a)) = InHand(a)
  BY StartedOK
<1>2. /\ Started(a) # IdleEngine => at' = Started(a)
      /\ \/ MqttTick(Started(a), e, m)
         \/ e.state \notin MqttPhases /\ mqtt' = m /\ (Held(at', {"SUB"}) => Held(Started(a), {"SUB"}))
  BY <1>1, StateMachinesTell DEF Rest
<1>3. Receives(IF a.cur = NoCommand THEN Started(a).cur ELSE NoCommand)
  BY DEF Rest
<1>4. module'.sub = module.sub /\ module'.conn = module.conn
  <2>1. module' = module \/ \E b \in BOOLEAN : module' = [module EXCEPT !.partial = b]
    BY <1>3, Zenon DEF Receives
  <2>2. ASSUME NEW b \in BOOLEAN, module' = [module EXCEPT !.partial = b]
        PROVE  module'.sub = module.sub /\ module'.conn = module.conn
    BY <2>2 DEF WorldOK, ModuleRecord
  <2> QED BY <2>1, <2>2
<1>5. Prompt(at', owed')
  <2>1. CASE a = IdleEngine
    <3>1. a.cur = NoCommand /\ Started(a).cur = NoCommand
      BY <2>1, EngineFacts DEF IdleEngine
    <3>2. owed' = owed
      BY <1>3, <3>1 DEF Receives
    <3>3. owed = <<>>
      BY <2>1, EngineFacts, SentFacts DEF LinkOK, Prompt
    <3> QED BY <3>2, <3>3 DEF Prompt
  <2>2. ASSUME NEW c \in Command, a = Waiting(c) PROVE Prompt(at', owed')
    <3>1. a.cur = NoCommand /\ Started(a) = Sent(c) /\ Started(a).cur = c /\ c # NoCommand
      BY <2>2, WaitingFacts, SentFacts
    <3>2. at' = Sent(c)
      BY <1>2, <3>1, EngineFacts, SentFacts
    <3>3. owed = <<>>
      BY <2>2, WaitingFacts, SentFacts DEF LinkOK, Prompt
    <3>4. Receives(c)
      BY <1>3, <3>1
    <3>5. owed' = owed \/ (c.whole /\ (owed' = Append(owed, "garbled") \/ owed' = Append(owed, c.tag)))
      BY <3>1, <3>4, Zenon DEF Receives
    <3>6. Append(<<>>, "garbled") = <<"garbled">> /\ Append(<<>>, c.tag) = <<c.tag>>
      OBVIOUS
    <3> QED BY <3>2, <3>3, <3>5, <3>6 DEF Prompt
  <2>3. ASSUME NEW c \in Command, a = Sent(c) PROVE Prompt(at', owed')
    <3>1. a.cur # NoCommand /\ Started(a) = Sent(c)
      BY <2>3, SentFacts
    <3>2. at' = a
      BY <1>2, <2>3, <3>1, EngineFacts, SentFacts
    <3>3. owed' = owed
      BY <1>3, <3>1 DEF Receives
    <3> QED BY <3>2, <3>3 DEF LinkOK
  <2> QED BY <2>1, <2>2, <2>3 DEF TickOK, EngineOK
<1>6. CASE MqttTick(Started(a), e, m)
  <2>1. /\ esp'.state = Mapped[mqtt'.state] /\ mqtt' = MqttTicked(m, AtIdle(Started(a)))
        /\ TickOK(at', esp', mqtt')
    BY <1>1, <1>6, MqttTickOK
  <2>2. mqtt'.subscribed = m.subscribed /\ (mqtt'.state = "SUBSCRIBED" => m.state = "SUBSCRIBED")
    <3>1. AtIdle(Started(a)) \in BOOLEAN
      BY DEF AtIdle
    <3> QED BY <2>1, <3>1, MqttTickedIs, Zenon DEF TickOK
  <2>3. esp'.state \in MqttPhases
    <3>1. mqtt'.state \in MqttState
      BY <2>1 DEF TickOK, MqttRecord
    <3> QED BY <2>1, <3>1, PhaseFacts
  <2> QED BY <1>4, <1>5, <2>2, <2>3 DEF LinkOK, SubOK, HoldOK
<1>7. CASE e.state \notin MqttPhases /\ mqtt' = m /\ (Held(at', {"SUB"}) => Held(Started(a), {"SUB"}))
  <2>1. Held(at', {"SUB"}) => Held(a, {"SUB"})
    BY <1>1, <1>7 DEF Held
  <2> QED BY <1>4, <1>5, <1>7, <2>1 DEF LinkOK, SubOK, HoldOK
<1> QED BY <1>2, <1>6, <1>7

\* How many answers have come late only grows.
LEMMA LateStays ==
  ASSUME IInv, faults' = faults \/ (\E d : Disturbed(d)), faults'["late"] = 0
  PROVE  faults["late"] = 0 /\ ~Disturbed("late")
<1>1. faults["late"] \in Nat
  BY DEF IInv, WorldOK, Disturbances
<1>2. ASSUME NEW d, Disturbed(d) PROVE faults["late"] = 0 /\ d # "late"
  <2>1. d \in Disturbances /\ faults' = [faults EXCEPT ![d] = faults[d] + 1]
    BY <1>2, DisturbedOK DEF IInv
  <2> QED BY <1>1, <2>1 DEF IInv, WorldOK, Disturbances
<1> QED BY <1>2

\* What the module does with the command it has: only a reset or a lost
\* connection ends its subscription.
LEMMA ExecutedTells ==
  ASSUME WorldOK, NEW tag
  PROVE  /\ tag # "RST" => /\ module.sub = TRUE => Executed(tag).sub = TRUE
                           /\ Executed(tag).conn = module.conn
         /\ tag = "RST" => Executed(tag).conn = FALSE
         /\ tag = "SUB" => Executed(tag).sub = TRUE
<1>1. module \in ModuleRecord
  BY DEF WorldOK
<1>2. CASE tag = "RST"
  <2>1. Executed(tag) = ModuleOff
    BY <1>2, Zenon DEF Executed
  <2> QED BY <1>2, <2>1 DEF ModuleOff
<1>3. CASE tag = "SUB"
  <2>1. Executed(tag) = [module EXCEPT !.sub = TRUE]
    BY <1>3, Zenon DEF Executed
  <2> QED BY <1>1, <1>3, <2>1 DEF ModuleRecord
<1>4. CASE tag = "CWJAP"
  <2>1. Executed(tag) = [module EXCEPT !.joined = TRUE]
    BY <1>4, Zenon DEF Executed
  <2> QED BY <1>1, <1>4, <2>1 DEF ModuleRecord
<1>5. CASE tag \notin {"RST", "SUB", "CWJAP"}
  <2>1. Executed(tag) = module
    BY <1>5, Zenon DEF Executed
  <2> QED BY <1>5, <2>1
<1> QED BY <1>2, <1>3, <1>4, <1>5

\* In an MQTT state the driver has no command of its own in hand.
LEMMA NotItsOwn ==
  ASSUME TickOK(at, esp, mqtt), NEW c \in Command, at = Sent(c), esp.state \in MqttPhases
  PROVE  c.tag \notin EspTags /\ c.tag # "RST"
<1>1. InHand(at) = {c}
  BY SentFacts
<1> QED BY <1>1 DEF TickOK, DriverOK, Held, EspTags

LEMMA AnswerLinkOK ==
  ASSUME IInv, LinkOK(at, esp, mqtt, owed, module), NEW ok \in BOOLEAN, Answer(ok)
  PROVE  LinkOK(at', esp', mqtt', owed', module')
<1>1. owed # <<>> /\ owed' = Tail(owed) /\ (ok => Executes(Head(owed)))
      /\ module' = (IF ok THEN Executed(Head(owed)) ELSE module)
  BY DEF Answer
<1>2. PICK c \in Command : at = Sent(c) /\ (owed = <<c.tag>> \/ owed = <<"garbled">>)
  BY <1>1 DEF LinkOK, Prompt
<1>3. (Head(owed) = c.tag \/ Head(owed) = "garbled") /\ owed' = <<>>
  BY <1>1, <1>2
<1>4. at' = IdleEngine /\ at.cur.tag = c.tag
  BY <1>2, SentFacts DEF Answer, CommandDone
<1>5. AfterDone(mqtt, c.tag, ok, mqtt')
  BY <1>4, MqttDoneIs DEF Answer, CommandDone, IInv, TickOK
<1>6. esp' = EspDone(esp, c.tag, ok)
  BY <1>4 DEF Answer, CommandDone
<1>7. esp.state \in MqttPhases => esp' = esp /\ c.tag # "RST"
  <2>1. esp.state \in MqttPhases => c.tag \notin EspTags /\ c.tag # "RST"
    BY <1>2, NotItsOwn DEF IInv
  <2> QED BY <1>6, <2>1, Zenon DEF EspDone
<1>8. SubOK(mqtt', esp', module')
  <2>1. CASE c.tag = "SUB" /\ ok
    <3>1. Head(owed) = "SUB" /\ module.conn = TRUE
      <4>1. Able(Head(owed))
        BY <1>1, <2>1 DEF Executes
      <4>2. ~Able("garbled")
        BY Zenon DEF Able
      <4>3. Head(owed) = "SUB"
        BY <1>3, <2>1, <4>1, <4>2
      <4>4. Able("SUB") => module.conn
        BY Zenon DEF Able
      <4> QED BY <4>1, <4>3, <4>4 DEF IInv, WorldOK, ModuleRecord
    <3>2. module'.sub = TRUE
      BY <1>1, <2>1, <3>1, ExecutedTells DEF IInv
    <3>3. Held(at, {"SUB"})
      BY <1>2, <2>1, SentFacts DEF Held
    <3>4. esp.state \in MqttPhases
      BY <3>1, <3>3 DEF LinkOK, HoldOK
    <3> QED BY <1>7, <3>2, <3>4 DEF SubOK
  <2>2. CASE ~(c.tag = "SUB" /\ ok)
    <3> SUFFICES ASSUME mqtt'.subscribed = TRUE \/ mqtt'.state = "SUBSCRIBED"
                 PROVE  esp'.state \in MqttPhases /\ module'.sub = TRUE
      BY DEF SubOK
    <3>1. mqtt.subscribed = TRUE \/ mqtt.state = "SUBSCRIBED"
      BY <1>5, <2>2 DEF AfterDone
    <3>2. esp.state \in MqttPhases /\ module.sub = TRUE
      BY <3>1 DEF LinkOK, SubOK
    <3>3. Head(owed) # "RST"
      BY <1>3, <1>7, <3>2
    <3>4. module'.sub = TRUE
      BY <1>1, <3>2, <3>3, ExecutedTells DEF IInv
    <3> QED BY <1>7, <3>2, <3>4
  <2> QED BY <2>1, <2>2
<1>9. HoldOK(at', esp', module')
  BY <1>4, EngineFacts DEF HoldOK, Held
<1> QED BY <1>3, <1>8, <1>9 DEF LinkOK, Prompt

LEMMA LossLinkOK ==
  ASSUME IInv, LinkOK(at, esp, mqtt, owed, module), Loss
  PROVE  LinkOK(at', esp', mqtt', owed', module')
<1>1. owed # <<>> /\ owed' = Tail(owed) /\ UNCHANGED <<at, mqtt, esp>>
  BY DEF Loss
<1>2. module' = module \/ module' = Executed(Head(owed))
  <2>1. module' \in {module} \cup IF Executes(Head(owed)) THEN {Executed(Head(owed))} ELSE {}
    BY DEF Loss
  <2> QED BY <2>1
<1>3. PICK c \in Command : at = Sent(c) /\ (owed = <<c.tag>> \/ owed = <<"garbled">>)
  BY <1>1 DEF LinkOK, Prompt
<1>4. (Head(owed) = c.tag \/ Head(owed) = "garbled") /\ owed' = <<>>
  BY <1>1, <1>3
<1>5. esp.state \in MqttPhases => Head(owed) # "RST"
  BY <1>3, <1>4, NotItsOwn DEF IInv
<1>6. SubOK(mqtt', esp', module')
  BY <1>1, <1>2, <1>5, ExecutedTells DEF LinkOK, SubOK, IInv
<1>7. HoldOK(at', esp', module')
  BY <1>1, <1>2, ExecutedTells DEF LinkOK, HoldOK, IInv
<1> QED BY <1>4, <1>6, <1>7 DEF LinkOK, Prompt

LEMMA LineLinkOK ==
  ASSUME IInv, LinkOK(at, esp, mqtt, owed, module),
         ReadyLine \/ ConnectedLine \/ DisconnectedLine \/ WifiLostLine
  PROVE  LinkOK(at', esp', mqtt', owed', module')
<1>1. CASE ReadyLine
  <2>1. UNCHANGED <<at, mqtt, owed, module>> /\ esp' = [esp EXCEPT !.delay = 0]
    BY <1>1 DEF ReadyLine, Ready
  <2>2. esp'.state = esp.state
    BY <2>1, DelayFacts, EspDelaySet, Zenon DEF IInv, TickOK
  <2> QED BY <2>1, <2>2 DEF LinkOK, SubOK, HoldOK
<1>2. CASE ConnectedLine
  <2>1. /\ UNCHANGED <<at, esp, owed>> /\ owed # <<>> /\ Head(owed) = "CONN"
        /\ module' = [module EXCEPT !.conn = TRUE]
        /\ mqtt' = mqtt \/ mqtt' = MqttConnectedLine(mqtt)
    BY <1>2 DEF ConnectedLine
  <2>2. PICK c \in Command : at = Sent(c) /\ (owed = <<c.tag>> \/ owed = <<"garbled">>)
    BY <2>1 DEF LinkOK, Prompt
  <2>3. c.tag = "CONN"
    BY <2>1, <2>2
  <2>4. ~Held(at, {"SUB"})
    BY <2>2, <2>3, SentFacts DEF Held
  <2>5. module'.sub = module.sub
    BY <2>1, ModuleFacts DEF IInv
  <2>6. mqtt'.subscribed = mqtt.subscribed
        /\ (mqtt'.state = "SUBSCRIBED" => mqtt.state = "SUBSCRIBED" \/ mqtt.subscribed = TRUE)
    <3>1. CASE mqtt' = mqtt
      BY <3>1
    <3>2. CASE mqtt' = MqttConnectedLine(mqtt)
      <4> DEFINE s == IF mqtt.subscribed THEN "SUBSCRIBED" ELSE "CONNECTED"
      <4>1. s \in MqttState /\ (s = "SUBSCRIBED" => mqtt.subscribed = TRUE)
        BY DEF IInv, TickOK, MqttRecord, MqttState
      <4>2. mqtt' = [mqtt EXCEPT !.state = s]
        BY <3>2 DEF MqttConnectedLine
      <4> HIDE DEF s
      <4>3. mqtt'.subscribed = mqtt.subscribed /\ mqtt'.state = s
        BY <4>1, <4>2, MqttStateSet, Zenon DEF IInv, TickOK
      <4> QED BY <4>1, <4>3
    <3> QED BY <2>1, <3>1, <3>2
  <2> QED BY <2>1, <2>4, <2>5, <2>6 DEF LinkOK, SubOK, HoldOK
<1>3. CASE DisconnectedLine \/ WifiLostLine
  <2>1. UNCHANGED <<at, owed>> /\ module'.conn = FALSE
    BY <1>3, ModuleFacts DEF DisconnectedLine, WifiLostLine, IInv
  <2>2. CASE Deaf(esp)
    <3>1. mqtt' = mqtt /\ esp' = esp /\ esp.state = "BASIC_SETUP"
      BY <1>3, <2>2 DEF DisconnectedLine, WifiLostLine, Deaf
    <3> QED BY <2>1, <3>1, EspFacts DEF LinkOK, SubOK, HoldOK
  <2>3. CASE ~Deaf(esp)
    <3>1. mqtt' = MqttDown(mqtt) \/ mqtt' = MqttReset
      BY <1>3, <2>3 DEF DisconnectedLine, WifiLostLine
    <3>2. mqtt'.subscribed = FALSE /\ mqtt'.state = "DISCONNECTED"
      BY <3>1, MqttDownIs, MqttResetIs DEF IInv, TickOK
    <3> QED BY <2>1, <3>2 DEF LinkOK, SubOK, HoldOK
  <2> QED BY <2>2, <2>3
<1> QED BY <1>1, <1>2, <1>3

\* A publish that an idle engine takes: the module owes nothing then.
LEMMA PublishLinkOK ==
  ASSUME IInv, LinkOK(at, esp, mqtt, owed, module), UNCHANGED <<esp, owed, module>>,
         mqtt'.state = mqtt.state, mqtt'.subscribed = mqtt.subscribed,
         \/ at' = at
         \/ at = IdleEngine /\ \E c \in Command : c.tag = "PUB" /\ at' = Waiting(c)
  PROVE  LinkOK(at', esp', mqtt', owed', module')
<1>1. CASE at' = at
  BY <1>1 DEF LinkOK, SubOK, HoldOK
<1>2. ASSUME at = IdleEngine, NEW c \in Command, c.tag = "PUB", at' = Waiting(c)
      PROVE  LinkOK(at', esp', mqtt', owed', module')
  <2>1. owed = <<>>
    BY <1>2, EngineFacts, SentFacts DEF LinkOK, Prompt
  <2>2. ~Held(at', {"SUB"})
    BY <1>2, WaitingFacts DEF Held
  <2> QED BY <2>1, <2>2 DEF LinkOK, Prompt, SubOK, HoldOK
<1> QED BY <1>1, <1>2

LEMMA MessageLinkOK ==
  ASSUME IInv, LinkOK(at, esp, mqtt, owed, module), MessageLine
  PROVE  LinkOK(at', esp', mqtt', owed', module')
<1>1. \/ UNCHANGED <<at, mqtt>>
      \/ \E whole \in BOOLEAN : at' = AtPublish(at, mqtt, 0, whole) /\ mqtt' = MqttPublish(at, mqtt)
  BY DEF MessageLine
<1>2. UNCHANGED <<esp, owed, module>>
  BY DEF MessageLine
<1>3. CASE UNCHANGED <<at, mqtt>>
  BY <1>2, <1>3, PublishLinkOK
<1>4. ASSUME NEW whole \in BOOLEAN, at' = AtPublish(at, mqtt, 0, whole), mqtt' = MqttPublish(at, mqtt)
      PROVE  LinkOK(at', esp', mqtt', owed', module')
  <2> DEFINE c == PublishCommand(0, whole)
  <2>1. 0 \in 0 .. MaxEvents
    BY AtAssumption
  <2>2. c \in Command /\ c.tag = "PUB" /\ at' = Offered(at, mqtt, c)
    BY <1>4, <2>1, PublishCommandIs, AtPublishIs
  <2> HIDE DEF c
  <2>3. /\ mqtt'.state = mqtt.state /\ mqtt'.subscribed = mqtt.subscribed
        /\ at' = at \/ (at = IdleEngine /\ at' = Waiting(c))
    BY <1>4, <2>2, PublishOK DEF IInv
  <2> QED BY <1>2, <2>2, <2>3, PublishLinkOK
<1> QED BY <1>1, <1>3, <1>4

LEMMA TimeoutLinkOK ==
  ASSUME IInv, LinkOK(at, esp, mqtt, owed, module), TimeoutTick, ~Disturbed("late")
  PROVE  LinkOK(at', esp', mqtt', owed', module')
<1> DEFINE a == Finished(at)
           e == EspDone(esp, at.cur.tag, FALSE)
           m == MqttDone(mqtt, at.cur.tag, FALSE)
<1>1. at.cur # NoCommand /\ (owed = <<>> \/ at.cur.whole # TRUE) /\ Rest(a, e, m)
  BY DEF TimeoutTick
<1>2. PICK c \in Command : at = Sent(c)
  BY <1>1, EngineFacts, WaitingFacts DEF IInv, TickOK, EngineOK, IdleEngine
<1>3. owed = <<>>
  <2>1. at.cur = c
    BY <1>2, SentFacts
  <2>2. ASSUME owed # <<>> PROVE FALSE
    <3>1. PICK d \in Command : at = Sent(d) /\ d.whole = TRUE
      BY <2>2 DEF LinkOK, Prompt
    <3>2. at.cur = d
      BY <3>1, SentFacts
    <3> QED BY <1>1, <2>2, <3>1, <3>2
  <2> QED BY <2>2
<1>4. TickOK(a, e, m)
  BY DoneOK DEF IInv
<1>5. at.cur.tag = c.tag /\ a = IdleEngine
  BY <1>2, SentFacts
<1>6. AfterDone(mqtt, c.tag, FALSE, m)
  <2>1. \A ok \in BOOLEAN : AfterDone(mqtt, c.tag, ok, MqttDone(mqtt, c.tag, ok))
    BY MqttDoneIs DEF IInv, TickOK
  <2>2. AfterDone(mqtt, c.tag, FALSE, MqttDone(mqtt, c.tag, FALSE))
    BY <2>1
  <2> QED BY <1>5, <2>2
<1>7. esp.state \in MqttPhases => e = esp
  <2>1. esp.state \in MqttPhases => c.tag \notin EspTags
    BY <1>2, NotItsOwn DEF IInv
  <2> QED BY <1>5, <2>1, Zenon DEF EspDone
<1> HIDE DEF a, e, m
<1>8. LinkOK(a, e, m, owed, module)
  <2>1. Prompt(a, owed)
    BY <1>3 DEF Prompt
  <2>2. SubOK(m, e, module)
    BY <1>6, <1>7 DEF LinkOK, SubOK, AfterDone
  <2>3. HoldOK(a, e, module)
    BY <1>5, EngineFacts DEF HoldOK, Held
  <2> QED BY <2>1, <2>2, <2>3 DEF LinkOK
<1> QED BY <1>1, <1>4, <1>8, RestLinkOK DEF IInv

LEMMA InitSInv == Init => SInv
<1> SUFFICES ASSUME Init PROVE LinkOK(at, esp, mqtt, owed, module)
  BY DEF SInv
<1>1. at = IdleEngine /\ owed = <<>>
  BY DEF Init, AtInit, IdleEngine
<1>2. mqtt.subscribed = FALSE /\ mqtt.state = "DISCONNECTED"
  <2> DEFINE p == [MqttReset EXCEPT !.connectReq = TRUE]
  <2>1. mqtt = [p EXCEPT !.subscribeReq = TRUE]
    BY Zenon DEF Init, MqttInit
  <2>2. p \in MqttRecord /\ p.subscribed = FALSE /\ p.state = "DISCONNECTED"
    BY MqttResetIs DEF MqttRecord
  <2> HIDE DEF p
  <2> QED BY <2>1, <2>2 DEF MqttRecord
<1> QED BY <1>1, <1>2, EngineFacts DEF LinkOK, Prompt, SubOK, HoldOK, Held

LEMMA NextSInv == IInv /\ SInv /\ [Next]_vars => SInv'
<1> SUFFICES ASSUME IInv, SInv, [Next]_vars, faults'["late"] = 0
             PROVE  LinkOK(at', esp', mqtt', owed', module')
  BY DEF SInv
<1>1. faults' = faults \/ \E d : Disturbed(d)
  <2>1. CASE Next
    BY <2>1, Zenon DEF Next, Answer, ReadyLine, ConnectedLine, DisconnectedLine, WifiLostLine, MessageLine,
             Loss, esp8266_tick_5ms, TimeoutTick, AppTick, HeartbeatDue, Happens
  <2> QED BY <2>1 DEF vars
<1>2. LinkOK(at, esp, mqtt, owed, module) /\ ~Disturbed("late")
  BY <1>1, LateStays DEF SInv
<1>3. CASE (\E ok \in BOOLEAN : Answer(ok)) \/ Loss
  BY <1>2, <1>3, AnswerLinkOK, LossLinkOK
<1>4. CASE ReadyLine \/ ConnectedLine \/ DisconnectedLine \/ WifiLostLine
  BY <1>2, <1>4, LineLinkOK
<1>5. CASE MessageLine
  BY <1>2, <1>5, MessageLinkOK
<1>6. CASE esp8266_tick_5ms
  <2>1. Rest(at, esp, mqtt) /\ TickOK(at, esp, mqtt) /\ WorldOK
    BY <1>6 DEF esp8266_tick_5ms, IInv
  <2> QED BY <1>2, <2>1, RestLinkOK
<1>7. CASE TimeoutTick
  BY <1>2, <1>7, TimeoutLinkOK
<1>8. CASE AppTick
  <2>1. UNCHANGED <<esp, owed, module>>
    BY <1>8 DEF AppTick
  <2> QED BY <1>2, <1>8, <2>1, AppTickIs, PublishLinkOK
<1>9. CASE HeartbeatDue \/ Happens \/ UNCHANGED vars
  <2>1. UNCHANGED <<at, esp, mqtt, owed, module>>
    BY <1>9 DEF HeartbeatDue, Happens, vars
  <2> QED BY <1>2, <2>1
<1> QED BY <1>3, <1>4, <1>5, <1>6, <1>7, <1>8, <1>9 DEF Next

LEMMA SInvImplies == SInv => SubscribedIsTrue
<1> SUFFICES ASSUME SInv, mqtt.state = "SUBSCRIBED", faults["late"] = 0 PROVE module.sub
  BY DEF SubscribedIsTrue
<1>1. module.sub = TRUE
  BY DEF SInv, LinkOK, SubOK
<1> QED BY <1>1

\* While no answer has come late, the MQTT layer takes itself for subscribed
\* only while the module is, whatever is lost, refused or disconnected
\* (esp8266_mqtt_cmd_done, esp8266_mqtt_handle_urc_line).
THEOREM SubscribedCorrect == Spec => []SubscribedIsTrue
BY InitSInv, NextSInv, IInvInvariant, SInvImplies, PTL DEF Spec

=================================================================================
