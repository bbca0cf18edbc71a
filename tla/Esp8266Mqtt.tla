------------------------------ MODULE Esp8266Mqtt ------------------------------
(* esp8266_mqtt.c: configure, connect, subscribe, publish.  mqtt is s_ctx,     *)
(* without the strings, without connected, which nothing reads, and without    *)
(* disconnect_req, which only functions nobody calls set.  Enqueuing finds the *)
(* engine idle and cannot fail, so the state ERROR is not entered.             *)
EXTENDS EspAt

VARIABLE mqtt

MqttState == {"DISCONNECTED", "CONFIGURING", "CONNECTING", "CONNECTED", "SUBSCRIBED"}
Online == {"CONNECTED", "SUBSCRIBED"}

MqttTypeOK ==
  mqtt \in [state : MqttState, connectReq : BOOLEAN, subscribeReq : BOOLEAN,
            subscribed : BOOLEAN, publishBusy : BOOLEAN, subscribeBusy : BOOLEAN,
            cfgStep : 0 .. 2]

\* esp8266_mqtt_reset
MqttReset ==
  [state |-> "DISCONNECTED", connectReq |-> FALSE, subscribeReq |-> FALSE,
   subscribed |-> FALSE, publishBusy |-> FALSE, subscribeBusy |-> FALSE, cfgStep |-> 0]

\* esp8266_mqtt_connect, which main calls once
MqttInit == mqtt = [MqttReset EXCEPT !.connectReq = TRUE, !.subscribeReq = TRUE]

\* wrong variant: a lost connection leaves the subscription
MqttDownSubscribed(m) == [m EXCEPT !.state = "DISCONNECTED"]

MqttDown(m) == [m EXCEPT !.state = "DISCONNECTED", !.subscribed = FALSE]

\* wrong variant: a failed publish leaves the flag
MqttFailedBusy(m, tag) ==
  CASE tag = "PUB" -> m
    [] tag = "SUB" -> [m EXCEPT !.subscribeBusy = FALSE, !.subscribeReq = FALSE,
                                !.state = "CONNECTED"]
    [] OTHER -> [MqttDown(m) EXCEPT !.cfgStep = 0]

\* esp8266_mqtt_cmd_done: an error or a timeout
MqttFailed(m, tag) ==
  CASE tag = "PUB" -> [m EXCEPT !.publishBusy = FALSE]
    [] tag = "SUB" -> [m EXCEPT !.subscribeBusy = FALSE, !.subscribeReq = FALSE,
                                !.state = "CONNECTED"]
    [] OTHER -> [MqttDown(m) EXCEPT !.cfgStep = 0]

\* esp8266_mqtt_cmd_done: OK
MqttSucceeded(m, tag) ==
  CASE tag = "USERCFG" -> [m EXCEPT !.cfgStep = 1]
    [] tag = "CLIENTID" -> [m EXCEPT !.cfgStep = 2, !.state = "CONNECTING"]
    [] tag = "CONN" -> [m EXCEPT !.state = "CONNECTED"]
    [] tag = "SUB" -> [m EXCEPT !.subscribeBusy = FALSE, !.subscribeReq = FALSE,
                                !.subscribed = TRUE, !.state = "SUBSCRIBED"]
    [] tag = "PUB" -> [m EXCEPT !.publishBusy = FALSE]

MqttDone(m, tag, ok) ==
  IF tag \notin MqttTags THEN m
  ELSE IF ok THEN MqttSucceeded(m, tag) ELSE MqttFailed(m, tag)

\* The start of esp8266_mqtt_tick_5ms when a connection is asked for.
MqttAwake(m) ==
  IF m.state = "DISCONNECTED" THEN [m EXCEPT !.cfgStep = 0, !.state = "CONFIGURING"] ELSE m

\* The command the states of esp8266_mqtt_tick_5ms want to send.
MqttWants(m) ==
  CASE m.state = "CONFIGURING" /\ m.cfgStep = 0 -> "USERCFG"
    [] m.state = "CONFIGURING" /\ m.cfgStep = 1 -> "CLIENTID"
    [] m.state = "CONNECTING" -> "CONN"
    [] m.state \in Online /\ m.subscribeReq /\ ~m.subscribeBusy -> "SUB"
    [] OTHER -> "none"

MqttCommand(m) == IF m.connectReq THEN MqttWants(MqttAwake(m)) ELSE "none"

\* esp8266_mqtt_tick_5ms
MqttTicked(m, idle) ==
  LET w == MqttAwake(m)
  IN CASE ~m.connectReq -> m
       [] m.connectReq /\ ~idle -> w
       [] OTHER -> IF MqttWants(w) = "SUB" THEN [w EXCEPT !.subscribeBusy = TRUE]
                   ELSE IF w.state = "CONFIGURING" /\ w.cfgStep = 2
                        THEN [w EXCEPT !.state = "CONNECTING"] ELSE w

\* mqtt_app_can_publish, and the test of esp8266_mqtt_publish
CanPublish(m) == m.state \in Online
Accepts(m, a) == CanPublish(m) /\ ~m.publishBusy /\ AtIdle(a)

Published(m) == [m EXCEPT !.publishBusy = TRUE]

\* esp8266_mqtt_handle_urc_line
MqttConnectedLine(m) == [m EXCEPT !.state = IF m.subscribed THEN "SUBSCRIBED" ELSE "CONNECTED"]
================================================================================
