-------------------------------- MODULE MqttApp --------------------------------
(* mqtt_app.c: a queue of events and a heartbeat, both published by one task.  *)
(* app is s_app: the queued events, and whether the heartbeat's 30 seconds are *)
(* over.  Events are numbered as they happen; what they say is left out, and   *)
(* so is mqtt_connected, which nothing reads.                                  *)
EXTENDS Esp8266Mqtt

CONSTANT EventQueueSize  \* MQTT_APP_EVT_QUEUE_SIZE

ASSUME AppAssumption == EventQueueSize \in Nat \ {0}

VARIABLE app

AppTypeOK ==
  /\ app.queue \in Seq(1 .. MaxEvents) /\ Len(app.queue) <= EventQueueSize
  /\ app.due \in BOOLEAN

AppInit == app = [queue |-> <<>>, due |-> FALSE]

\* wrong variant: the queue's size is not looked at
QueuedBeyond(q, event) == Append(q, event)

\* mqtt_app_evt_enqueue
Queued(q, event) == IF Len(q) < EventQueueSize THEN Append(q, event) ELSE q

\* mqtt_app_on_door_state and mqtt_app_on_auth; a failure during the lockout
\* queues two, the alarm first.
QueuedAll(q, event, n) == IF n = 2 THEN Queued(Queued(q, event), event + 1) ELSE Queued(q, event)

\* mqtt_app_notify_connected: the next heartbeat is due at once.
AppNotified(p) == [p EXCEPT !.due = TRUE]

\* mqtt_app_pub_json with what it publishes, when the engine is at a and the
\* driver at m.  A refusal is not noticed.
PublishCommand(event, whole) == [tag |-> "PUB", event |-> event, whole |-> whole]
AtPublish(a, m, event, whole) ==
  IF Accepts(m, a) THEN Enqueued(a, PublishCommand(event, whole)) ELSE a
MqttPublish(a, m) == IF Accepts(m, a) THEN Published(m) ELSE m

\* mqtt_app_tick: the heartbeat when it is due, then one event, each when the
\* link is ready for it.
AppTicked(ready) ==
  LET beats == app.due /\ CanPublish(mqtt)
      takes == app.queue # <<>> /\ ready
      a == IF beats THEN AtPublish(at, mqtt, 0, TRUE) ELSE at
      m == IF beats THEN MqttPublish(at, mqtt) ELSE mqtt
  IN /\ app' = [queue |-> IF takes THEN Tail(app.queue) ELSE app.queue, due |-> FALSE]
     /\ at' = IF takes THEN AtPublish(a, m, Head(app.queue), TRUE) ELSE a
     /\ mqtt' = IF takes THEN MqttPublish(a, m) ELSE m

\* wrong variants: an event is taken although the link is down, and only when
\* the subscription stands
mqtt_app_tick_unready == AppTicked(TRUE)
mqtt_app_tick_subscribed == AppTicked(mqtt.state = "SUBSCRIBED")

mqtt_app_tick == AppTicked(CanPublish(mqtt))
================================================================================
