-------------------------------- MODULE NetLink --------------------------------
(***************************************************************************)
(* The connection to the cloud: the MQTT application, the driver and its   *)
(* AT engine, and the ESP8266 module at the other end of the serial line.  *)
(*                                                                         *)
(* esp8266_tick_5ms handles the lines that have arrived and then runs the  *)
(* state machines; each line is a step, and turn holds the other tasks     *)
(* back until the tick has ended.  The module handles a command at the     *)
(* moment its answer is read; what it answers, and what else it reports,   *)
(* is a choice, and every disturbance counts against MaxFaults.            *)
(***************************************************************************)
EXTENDS Esp8266, MqttApp, FiniteSets

CONSTANTS Faults,      \* which disturbances happen
          MaxFaults,   \* bound: how many of them
          MaxMessages  \* bound: messages from the broker

Disturbances == {"late", "lost", "error", "wifi", "broker"}

ASSUME LinkAssumption ==
  Faults \subseteq Disturbances /\ MaxFaults \in Nat /\ MaxMessages \in Nat

VARIABLES turn,      \* "esp" while esp8266_tick_5ms handles lines
          owed,      \* the commands the module has received and not answered
          module,    \* joined, connected, subscribed; holds a command without end
          faults,    \* how often each disturbance has happened
          events,    \* events so far
          messages   \* messages so far

vars == <<turn, at, mqtt, esp, app, owed, module, faults, events, messages>>

ModuleOff == [joined |-> FALSE, conn |-> FALSE, sub |-> FALSE, partial |-> FALSE]
ModuleOn == [joined |-> TRUE, conn |-> TRUE, sub |-> TRUE, partial |-> FALSE]

TypeOK ==
  /\ turn \in {"main", "esp"}
  /\ AtTypeOK
  /\ MqttTypeOK
  /\ EspTypeOK
  /\ AppTypeOK
  /\ owed \in Seq(Tags \cup {"garbled"})
  /\ module \in [joined : BOOLEAN, conn : BOOLEAN, sub : BOOLEAN, partial : BOOLEAN]
  /\ faults \in [Disturbances -> 0 .. MaxFaults]
  /\ events \in 0 .. MaxEvents
  /\ messages \in 0 .. MaxMessages

\* The module may have gone on running while the controller restarted.
Init ==
  /\ turn = "main"
  /\ AtInit /\ MqttInit /\ EspInit /\ AppInit
  /\ owed = <<>>
  /\ module \in {ModuleOff, ModuleOn}
  /\ faults = [d \in Disturbances |-> 0]
  /\ events = 0
  /\ messages = 0

\* One more disturbance of kind d.
TotalFaults == faults["late"] + faults["lost"] + faults["error"]
               + faults["wifi"] + faults["broker"]

Disturbed(d) ==
  /\ d \in Faults
  /\ TotalFaults < MaxFaults
  /\ faults' = [faults EXCEPT ![d] = @ + 1]

--------------------------------------------------------------------------------
(* The module.  It executes what it can and refuses the rest; a command cut   *)
(* off before its end of line swallows the next one.                          *)

Able(tag) ==
  CASE tag = "garbled" -> FALSE
    [] tag = "CONN" -> module.joined
    [] tag \in {"SUB", "PUB"} -> module.conn
    [] OTHER -> TRUE

\* CONN is carried out by ConnectedLine and answered after that.
Executes(tag) == Able(tag) /\ (tag = "CONN" => module.conn)

Executed(tag) ==
  CASE tag = "RST" -> ModuleOff
    [] tag = "CWJAP" -> [module EXCEPT !.joined = TRUE]
    [] tag = "SUB" -> [module EXCEPT !.sub = TRUE]
    [] OTHER -> module

Dropped == [module EXCEPT !.conn = FALSE, !.sub = FALSE]
Left == [Dropped EXCEPT !.joined = FALSE]

\* What the module makes of a command that the engine starts.
Receives(started) ==
  IF started = NoCommand THEN UNCHANGED <<owed, module>>
  ELSE /\ module' = [module EXCEPT !.partial = ~started.whole]
       /\ owed' = IF ~started.whole THEN owed
                  ELSE Append(owed, IF module.partial THEN "garbled" ELSE started.tag)

--------------------------------------------------------------------------------
(* Lines.  esp8266_at_urc_cb sees every line first, esp_at_on_line then looks *)
(* for the end of the current command.                                        *)

CommandDone(ok) ==
  /\ at' = Finished(at)
  /\ mqtt' = MqttDone(mqtt, at.cur.tag, ok)
  /\ esp' = EspDone(esp, at.cur.tag, ok)

\* The line OK or ERROR, for the oldest command the module has.
Answer(ok) ==
  /\ owed # <<>>
  /\ ok => Executes(Head(owed))
  /\ IF ~ok /\ Able(Head(owed)) THEN Disturbed("error") ELSE UNCHANGED faults
  /\ owed' = Tail(owed)
  /\ module' = IF ok THEN Executed(Head(owed)) ELSE module
  /\ turn' = "esp"
  /\ CommandDone(ok)
  /\ UNCHANGED <<app, events, messages>>

\* "ready", after a reset
ReadyLine ==
  /\ Deaf(esp)
  /\ esp' = Ready(esp)
  /\ turn' = "esp"
  /\ UNCHANGED <<at, mqtt, app, owed, module, faults, events, messages>>

\* "+MQTTCONNECTED", on the way to the answer to CONN
ConnectedLine ==
  /\ owed # <<>> /\ Head(owed) = "CONN"
  /\ module.joined /\ ~module.conn
  /\ module' = [module EXCEPT !.conn = TRUE]
  /\ mqtt' = IF Deaf(esp) THEN mqtt ELSE MqttConnectedLine(mqtt)
  /\ turn' = "esp"
  /\ UNCHANGED <<at, esp, app, owed, faults, events, messages>>

\* "+MQTTDISCONNECTED"
DisconnectedLine ==
  /\ module.conn
  /\ Disturbed("broker")
  /\ module' = Dropped
  /\ mqtt' = IF Deaf(esp) THEN mqtt ELSE MqttDown(mqtt)
  /\ turn' = "esp"
  /\ UNCHANGED <<at, esp, app, owed, events, messages>>

\* "WIFI DISCONNECT"
WifiLostLine ==
  /\ module.joined
  /\ Disturbed("wifi")
  /\ module' = Left
  /\ mqtt' = IF Deaf(esp) THEN mqtt ELSE MqttReset
  /\ esp' = IF Deaf(esp) THEN esp ELSE WifiLost(esp)
  /\ turn' = "esp"
  /\ UNCHANGED <<at, app, owed, events, messages>>

\* "+MQTTSUBRECV": mqtt_app_on_message runs a command, which moves the bolt,
\* publishes a reply, short enough for the engine's buffer or not, or does
\* neither.
MessageLine ==
  /\ module.sub /\ ~Deaf(esp)
  /\ messages < MaxMessages
  /\ messages' = messages + 1
  /\ turn' = "esp"
  /\ \/ /\ events < MaxEvents
        /\ events' = events + 1
        /\ app' = [app EXCEPT !.queue = Queued(@, events + 1)]
        /\ UNCHANGED <<at, mqtt>>
     \/ \E whole \in BOOLEAN :
          /\ at' = AtPublish(at, mqtt, 0, whole)
          /\ mqtt' = MqttPublish(at, mqtt)
          /\ UNCHANGED <<events, app>>
     \/ UNCHANGED <<events, app, at, mqtt>>
  /\ UNCHANGED <<esp, owed, module, faults>>

\* A command, or the answer to it, is lost on the line.
Loss ==
  /\ owed # <<>>
  /\ Disturbed("lost")
  /\ owed' = Tail(owed)
  /\ module' \in {module} \cup IF Executes(Head(owed)) THEN {Executed(Head(owed))} ELSE {}
  /\ UNCHANGED <<turn, at, mqtt, esp, app, events, messages>>

--------------------------------------------------------------------------------
(* The rest of esp8266_tick_5ms, from engine, driver and MQTT record a, e, m. *)

MqttTick(a, e, m) ==
  /\ e.state \in MqttPhases
  /\ at' = IF e.wifi THEN Issued(a, MqttCommand(m)) ELSE a
  /\ mqtt' = IF e.wifi THEN MqttTicked(m, AtIdle(a)) ELSE m
  /\ esp' = IF e.wifi THEN Synced(e, mqtt') ELSE [e EXCEPT !.state = "JOIN_AP"]
  /\ app' = IF e.wifi /\ Reports(e, mqtt') THEN AppNotified(app) ELSE app

StateMachines(a, e, m) ==
  \/ BootTick(a, e) /\ mqtt' = m /\ UNCHANGED app
  \/ SetupTick(a, e) /\ mqtt' = m /\ UNCHANGED app
  \/ JoinTick(a, e) /\ mqtt' = m /\ UNCHANGED app
  \/ MqttTick(a, e, m)
  \/ e.state = "ERROR" /\ at' = a /\ esp' = e /\ mqtt' = m /\ UNCHANGED app

Rest(a, e, m) ==
  /\ turn' = "main"
  /\ Receives(IF a.cur = NoCommand THEN Started(a).cur ELSE NoCommand)
  /\ StateMachines(Started(a), e, m)
  /\ UNCHANGED <<events, messages>>

\* No command has timed out.
esp8266_tick_5ms == Rest(at, esp, mqtt) /\ UNCHANGED faults

\* The current command times out: the module does not have it any more, or is
\* late with its answer.
TimeoutTick ==
  /\ at.cur # NoCommand
  /\ IF owed = <<>> \/ ~at.cur.whole THEN UNCHANGED faults ELSE Disturbed("late")
  /\ Rest(Finished(at), EspDone(esp, at.cur.tag, FALSE), MqttDone(mqtt, at.cur.tag, FALSE))

--------------------------------------------------------------------------------
(* The other tasks. *)

AppTick ==
  /\ turn = "main"
  /\ mqtt_app_tick
  /\ UNCHANGED <<turn, esp, owed, module, faults, events, messages>>

HeartbeatDue ==
  /\ turn = "main"
  /\ app' = [app EXCEPT !.due = TRUE]
  /\ UNCHANGED <<turn, at, mqtt, esp, owed, module, faults, events, messages>>

\* The door moves or somebody is judged.
Happens ==
  /\ turn = "main"
  /\ \E n \in 1 .. 2 :
       /\ events + n <= MaxEvents
       /\ events' = events + n
       /\ app' = [app EXCEPT !.queue = QueuedAll(@, events + 1, n)]
  /\ UNCHANGED <<turn, at, mqtt, esp, owed, module, faults, messages>>

Next ==
  \/ \E ok \in BOOLEAN : Answer(ok)
  \/ ReadyLine
  \/ ConnectedLine
  \/ DisconnectedLine
  \/ WifiLostLine
  \/ MessageLine
  \/ Loss
  \/ esp8266_tick_5ms
  \/ TimeoutTick
  \/ AppTick
  \/ HeartbeatDue
  \/ Happens

Spec == Init /\ [][Next]_vars

\* The scheduler calls the two tasks for ever, a waiting command times out, and
\* the module answers what it has received.
FairSpec ==
  /\ Spec
  /\ WF_vars(esp8266_tick_5ms)
  /\ WF_vars((owed = <<>> \/ ~at.cur.whole) /\ TimeoutTick)
  /\ WF_vars(AppTick)
  /\ WF_vars(ConnectedLine \/ \E ok \in BOOLEAN : Answer(ok))

--------------------------------------------------------------------------------
\* Three state machines and the application share one engine whose answers
\* carry no name: never is more than one command queued or under way, and a
\* busy flag is set only while the command that will clear it is
\* (esp8266_mqtt_publish, esp8266_mqtt_sm_connected).
OneCommand ==
  /\ Len(at.queue) + (IF at.cur = NoCommand THEN 0 ELSE 1) <= 1
  /\ mqtt.publishBusy => \E c \in InHand(at) : c.tag = "PUB"
  /\ mqtt.subscribeBusy => \E c \in InHand(at) : c.tag = "SUB"

\* Between ticks the driver is in an MQTT state only while joined, and then in
\* the one of the MQTT layer (esp8266_sync_mqtt_state).
DriverInStep ==
  turn = "main" /\ esp.state \in MqttPhases => esp.wifi /\ esp.state = Mapped[mqtt.state]

\* While no answer comes late, "subscribed" is true, whatever else is lost or
\* fails (esp8266_mqtt_cmd_done, esp8266_mqtt_handle_urc_line).
SubscribedIsTrue ==
  mqtt.state = "SUBSCRIBED" /\ faults["late"] = 0 => module.sub

Connected == module.conn /\ mqtt.state \in Online

\* The known ways not to be connected in the end: a setup command failed, the
\* request to connect was forgotten, or the driver takes the MQTT session or
\* the access point for up.
DeadEnd ==
  \/ esp.state = "ERROR"
  \/ ~mqtt.connectReq
  \/ mqtt.state \in Online /\ ~module.conn
  \/ esp.wifi /\ ~module.joined

\* The link does not go round in circles: after the last disturbance it comes
\* to be connected for good, or to one of the dead ends for good (the retries
\* of esp8266_at_cmd_done and esp8266_mqtt_cmd_done).
LinkSettles == <>[]Connected \/ <>[]DeadEnd

\* The link is up again in the end (esp8266_sm_join_ap, esp8266_mqtt_tick_5ms).
Reconnects == <>[]Connected

\* An event leaves the queue unpublished only when the heartbeat of the same
\* call took the engine, or another command had it (mqtt_app_tick).
LossOnlyWhenBusy ==
  [][Len(app'.queue) < Len(app.queue)
       => \/ app.due
          \/ ~AtIdle(at)
          \/ \E c \in InHand(at)' : c.event = Head(app.queue)]_vars

\* While the link is taken for up, the queue empties itself (mqtt_app_tick).
QueueDrains == []<>(app.queue = <<>> \/ ~CanPublish(mqtt))
================================================================================
