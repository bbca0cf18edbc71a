-------------------------------- MODULE Esp8266 --------------------------------
(* esp8266.c in the one way main uses it: join the access point, then MQTT.    *)
(* esp is s_ctx; wifi_req and mqtt_req are set for good and the TCP mode, the  *)
(* reset and the disconnect functions have no caller.                          *)
EXTENDS Esp8266Mqtt

CONSTANTS PowerTicks, RetryTicks, ResetTicks,  \* delays: 40, 20 and 2
          ReadyTicks,                          \* the delay after the reset, 400
          TickModulus                          \* of the uint8_t boot_delay_ticks

ASSUME DelayAssumption ==
  /\ TickModulus \in Nat \ {0}
  /\ ReadyTicks \in Nat
  /\ {PowerTicks, RetryTicks, ResetTicks} \subseteq 0 .. TickModulus - 1

VARIABLE esp

\* esp8266_map_mqtt_state
Mapped == [DISCONNECTED |-> "MQTT_DISCONNECTED", CONFIGURING |-> "MQTT_CONFIGURING",
           CONNECTING |-> "MQTT_CONNECTING", CONNECTED |-> "MQTT_CONNECTED",
           SUBSCRIBED |-> "MQTT_SUBSCRIBED"]
MqttPhases == {Mapped[s] : s \in MqttState}
EspState == {"BOOT", "BASIC_SETUP", "JOIN_AP", "ERROR"} \cup MqttPhases

EspTypeOK ==
  esp \in [state : EspState, wifi : BOOLEAN, delay : 0 .. TickModulus - 1,
           bootStep : 0 .. 3, setupStep : 0 .. 3, lastMqtt : MqttState]

\* esp8266_init, and main's request for wifi
EspInit ==
  esp = [state |-> "BOOT", wifi |-> FALSE, delay |-> PowerTicks, bootStep |-> 0,
         setupStep |-> 0, lastMqtt |-> "DISCONNECTED"]

\* wrong variant: a failed probe does not go back to its first step
EspFailedStuck(e, tag) ==
  CASE tag = "AT" -> [e EXCEPT !.delay = RetryTicks]
    [] tag = "CWJAP" -> [e EXCEPT !.wifi = FALSE, !.state = "JOIN_AP"]
    [] OTHER -> [e EXCEPT !.state = "ERROR"]

\* esp8266_at_cmd_done: an error or a timeout
EspFailed(e, tag) ==
  CASE tag = "AT" -> [e EXCEPT !.delay = RetryTicks, !.bootStep = 0]
    [] tag = "CWJAP" -> [e EXCEPT !.wifi = FALSE, !.state = "JOIN_AP"]
    [] OTHER -> [e EXCEPT !.state = "ERROR"]

\* esp8266_at_cmd_done: OK
EspSucceeded(e, tag) ==
  CASE tag = "AT" -> [e EXCEPT !.delay = ResetTicks, !.bootStep = 2]
    [] tag = "RST" -> [e EXCEPT !.state = "BASIC_SETUP", !.setupStep = 0,
                                !.delay = ReadyTicks % TickModulus, !.bootStep = 3]
    [] tag \in SetupTags -> [e EXCEPT !.setupStep = @ + 1]
    [] tag = "CWJAP" -> [e EXCEPT !.wifi = TRUE, !.state = "MQTT_CONFIGURING"]

EspDone(e, tag, ok) ==
  IF tag \notin EspTags THEN e
  ELSE IF ok THEN EspSucceeded(e, tag) ELSE EspFailed(e, tag)

\* After the reset every line but "ready" is ignored while the delay runs.
Deaf(e) == e.state = "BASIC_SETUP" /\ e.delay > 0
Ready(e) == IF Deaf(e) THEN [e EXCEPT !.delay = 0] ELSE e

\* wrong variant: the driver goes on as if it were joined
WifiLostJoined(e) == [e EXCEPT !.state = "JOIN_AP"]

\* "WIFI DISCONNECT"
WifiLost(e) == [e EXCEPT !.wifi = FALSE, !.state = "JOIN_AP"]

\* Sending a command from the driver's tick, which does so only when idle.
Issued(a, tag) ==
  IF tag = "none" \/ ~AtIdle(a) THEN a ELSE Enqueued(a, Plain(tag))

\* esp8266_sm_boot
BootCommand(e) == CASE e.bootStep = 0 -> "AT" [] e.bootStep = 2 -> "RST" [] OTHER -> "none"

BootTick(a, e) ==
  /\ e.state = "BOOT"
  /\ IF e.delay > 0
       THEN at' = a /\ esp' = [e EXCEPT !.delay = @ - 1]
       ELSE /\ at' = Issued(a, BootCommand(e))
            /\ esp' = IF AtIdle(a) /\ e.bootStep = 0 THEN [e EXCEPT !.bootStep = 1] ELSE e

\* esp8266_sm_basic_setup
SetupCommand == <<"ATE0", "CWMODE", "CIPRECVMODE">>

SetupTick(a, e) ==
  /\ e.state = "BASIC_SETUP"
  /\ \/ e.delay > 0 /\ at' = a /\ esp' = [e EXCEPT !.delay = @ - 1]
     \/ e.delay = 0 /\ ~AtIdle(a) /\ at' = a /\ esp' = e
     \/ /\ e.delay = 0 /\ AtIdle(a) /\ e.setupStep < 3
        /\ at' = Issued(a, SetupCommand[e.setupStep + 1])
        /\ esp' = e
     \/ /\ e.delay = 0 /\ AtIdle(a) /\ e.setupStep = 3
        /\ at' = a
        /\ esp' = [e EXCEPT !.state = "JOIN_AP"]

\* esp8266_sm_join_ap
JoinTick(a, e) ==
  /\ e.state = "JOIN_AP"
  /\ at' = IF e.wifi THEN a ELSE Issued(a, "CWJAP")
  /\ esp' = IF e.wifi THEN [e EXCEPT !.state = "MQTT_CONFIGURING"] ELSE e

\* esp8266_sync_mqtt_state, and whether it reports a connection to main.c
Synced(e, m) == [e EXCEPT !.lastMqtt = m.state, !.state = Mapped[m.state]]
Reports(e, m) == Synced(e, m) # e /\ m.state \in Online
================================================================================
