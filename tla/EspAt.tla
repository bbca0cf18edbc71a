--------------------------------- MODULE EspAt ---------------------------------
(* esp_at.c: a queue of AT commands, one of which is with the module.  at is   *)
(* s_eng.  USART1_TX_Write blocks until everything is sent, so a command that  *)
(* is started is sent at once.  Answers carry no identity: whatever OK or      *)
(* ERROR comes next finishes the current command.                              *)
EXTENDS Naturals, Sequences

CONSTANTS AtQueueLen,  \* ESP_AT_QUEUE_LEN
          MaxEvents    \* bound: events the application queues

ASSUME AtAssumption == AtQueueLen \in Nat \ {0} /\ MaxEvents \in Nat

VARIABLE at

SetupTags == {"ATE0", "CWMODE", "CIPRECVMODE"}
EspTags == {"AT", "RST", "CWJAP"} \cup SetupTags
MqttTags == {"USERCFG", "CLIENTID", "CONN", "SUB", "PUB"}
Tags == EspTags \cup MqttTags

\* A command: what it asks for, the event a publish reports (0 for a heartbeat
\* or a reply), and whether it fits its buffer.
Command == [tag : Tags, event : 0 .. MaxEvents, whole : BOOLEAN]
NoCommand == [tag |-> "none", event |-> 0, whole |-> TRUE]
Plain(tag) == [tag |-> tag, event |-> 0, whole |-> TRUE]

AtTypeOK ==
  /\ at.queue \in Seq(Command) /\ Len(at.queue) <= AtQueueLen
  /\ at.cur \in Command \cup {NoCommand}

AtInit == at = [queue |-> <<>>, cur |-> NoCommand]

\* esp_at_is_idle
AtIdle(a) == a.cur = NoCommand /\ a.queue = <<>>

\* The commands that are queued or with the module.
InHand(a) == {a.queue[i] : i \in DOMAIN a.queue} \cup ({a.cur} \ {NoCommand})

\* esp_at_enqueue_common
Enqueued(a, c) ==
  IF Len(a.queue) < AtQueueLen THEN [a EXCEPT !.queue = Append(@, c)] ELSE a

\* esp_at_start_next_cmd_if_needed and the sending of the command
Started(a) ==
  IF a.cur = NoCommand /\ a.queue # <<>>
  THEN [queue |-> Tail(a.queue), cur |-> Head(a.queue)]
  ELSE a

\* esp_at_finish_cmd, after the callback
Finished(a) == [a EXCEPT !.cur = NoCommand]
================================================================================
